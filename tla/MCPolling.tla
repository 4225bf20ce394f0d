------------------------------- MODULE MCPolling -------------------------------
(* Instance of Polling for TLC.                                                  *)
EXTENDS Polling
===============================================================================
