------------------------------- MODULE MCNrf24 -------------------------------
EXTENDS Nrf24
================================================================================
