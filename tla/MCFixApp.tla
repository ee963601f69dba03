------------------------------- MODULE MCFixApp -------------------------------
(***************************************************************************)
(* The two sessions of binance/fixconfig, and the third one that is        *)
(* commented out there and that the code still provides for.  The settings *)
(* of .env.example, with a name the venue does not know, and with a CPU    *)
(* that a uint8_t does not hold; hosts that grant everything, or all but   *)
(* one thing.                                                              *)
(***************************************************************************)
EXTENDS FixApp, TLC
CONSTANTS px, tx, ox
TwoSessions   == px :> "PX" @@ tx :> "TX"
ThreeSessions == TwoSessions @@ ox :> "OX"

Text(length, number, fields) == [length |-> length, number |-> number, fields |-> fields, slash |-> TRUE]
Word   == Text(9, NoDigits, <<"word">>)
Number(n) == Text(1, n, <<"number">>)
Settings(cpu, names) ==
  [v \in Required |->
     CASE v = "PX_SESSION_CPU" -> Number(cpu)
       [] v = "TX_SESSION_CPU" -> Number(1)
       [] v = "SYMBOLS" -> Text(8, NoDigits, names)
       [] OTHER -> Word]
MCEnvironments == {Settings(0, <<"BTCUSDT", NoName>>), Settings(256, <<"BTCUSDT", NoName>>),
                   Settings(0, <<"BTCUSDT", "unknown">>)}

Server == [count |-> 2, cpus |-> {0, 1}, realtime |-> TRUE, nice |-> TRUE, key |-> TRUE]
MCMachines == {Server, [Server EXCEPT !.cpus = {1, 2}], [Server EXCEPT !.count = 1],
               [Server EXCEPT !.realtime = FALSE], [Server EXCEPT !.key = FALSE]}
=============================================================================
