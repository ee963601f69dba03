----------------------------- MODULE MCLifecycle -----------------------------
(***************************************************************************)
(* The settings of .env.example, each of them spoilt in turn as its reader *)
(* can tell: absent, empty, a key too short, a number too large or none, a *)
(* LOG_PATH without a directory.  Hosts that grant everything, or all but  *)
(* one thing.                                                              *)
(***************************************************************************)
EXTENDS Lifecycle, TLC

Text(length, number) ==
  [length |-> length, number |-> number, fields |-> <<"BTCUSDT", NoName>>, slash |-> TRUE]
Good == [v \in Required \cup {"LOG_PATH"} |->
           CASE v = "PX_SESSION_CPU" -> Text(1, 0)
             [] v = "TX_SESSION_CPU" -> Text(1, 1)
             [] OTHER -> Text(8, NoDigits)]
Spoilt(v, text) == [Good EXCEPT ![v] = text]
MCEnvironments ==
  {Good} \cup {Spoilt(v, Unset) : v \in {"API_KEY", "SYMBOLS", "LOG_PATH"}}
         \cup {Spoilt("PRIVATE_KEY_PATH", Text(0, NoDigits)), Spoilt("API_KEY", Text(2, NoDigits)),
               Spoilt("PX_SESSION_CPU", Text(3, 256)), Spoilt("TX_SESSION_CPU", Text(3, NoDigits)),
               [Good EXCEPT !["LOG_PATH"].slash = FALSE]}

Server == [count |-> 2, cpus |-> {0, 1}, realtime |-> TRUE, nice |-> TRUE, key |-> TRUE]
MCMachines == {Server, [Server EXCEPT !.nice = FALSE], [Server EXCEPT !.realtime = FALSE],
               [Server EXCEPT !.key = FALSE], [Server EXCEPT !.count = 1]}
=============================================================================
