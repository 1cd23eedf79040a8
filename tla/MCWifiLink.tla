------------------------------ MODULE MCWifiLink ------------------------------
(* Three mints for two connections, two tasks that ask them. *)
EXTENDS WifiLink, TLC

CONSTANTS a, b, c, r1, r2

MCOrigins == {a, b, c}
MCRequesters == {r1, r2}
===============================================================================
