-------------------------------- MODULE Config --------------------------------
(***************************************************************************)
(* binance::Config::from_env (src/binance/config.cpp) and the other        *)
(* readers of the environment: how its texts become a configuration.       *)
(*                                                                         *)
(* A text is what its readers tell apart: its length, the number that the  *)
(* digits at its start denote, what stands between its commas, and whether *)
(* it has a slash.                                                         *)
(***************************************************************************)
EXTENDS Integers, Sequences

CONSTANTS
  Unset,     \* a variable the environment lacks
  NoDigits,  \* the number of a text that does not start with a digit
  NoName,    \* the field between two commas with nothing between them
  Error      \* an exception

Texts(Names) == [length: Nat, number: Nat \cup {NoDigits}, fields: Seq(Names \cup {NoName}),
                 slash: BOOLEAN]

\* Env::get_env_or_throw
GetThrows(value) == value = Unset \/ value.length = 0

\* Mutant: the number is cast to uint8_t.
from_chars_wraps(text) == IF text.number = NoDigits THEN Error ELSE text.number % 256
\* std::from_chars into a uint8_t: what follows the digits is left unread.
from_chars(text) == IF text.number \in 0..255 THEN text.number ELSE Error

Split(text) == SelectSeq(text.fields, LAMBDA f : f # NoName)

Required == {"API_KEY", "PRIVATE_KEY_PATH", "FIX_CONFIG_PATH",
             "PX_SESSION_CPU", "TX_SESSION_CPU", "SYMBOLS"}
\* The last one is the log line that shows both ends of the key: substr throws
\* for a key of less than three characters.
from_env_throws(env) ==
  \/ \E v \in Required : GetThrows(env[v])
  \/ \E v \in {"PX_SESSION_CPU", "TX_SESSION_CPU"} : from_chars(env[v]) = Error
  \/ env["API_KEY"].length < 3
from_env(env) == [symbols |-> Split(env["SYMBOLS"]),
                  px_cpu  |-> from_chars(env["PX_SESSION_CPU"]),
                  tx_cpu  |-> from_chars(env["TX_SESSION_CPU"])]
\* Logging::configure has no name for its file; LogBox::from_env no directory.
configure_throws(env) == GetThrows(env["LOG_PATH"])
LogBox_throws(env) == GetThrows(env["LOG_PATH"]) \/ ~env["LOG_PATH"].slash
=============================================================================
