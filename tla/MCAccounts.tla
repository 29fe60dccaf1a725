------------------------------ MODULE MCAccounts ------------------------------
EXTENDS Accounts

CONSTANTS u1, u2
===============================================================================
