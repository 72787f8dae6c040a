----------------------------- MODULE MCPlaytests -----------------------------
(***************************************************************************)
(* What the playtest commands promise their callers.                       *)
(***************************************************************************)
EXTENDS Playtests, TLC

CONSTANTS First, Second

Command(kind, mode, players, context) ==
  [kind |-> kind, mode |-> mode, players |-> players, context |-> context]

\* One caller starts what the other finds, ends or changes.
TheCommands ==
  (First :> {Command("start", "play", 2, "server"),
             Command("run", "play", 0, "client")})
  @@
  (Second :> {Command("run", "play", 0, "server"),
              Command("run", "play", 0, "client"),
              Command("restart", "", 0, "server"),
              Command("stop", "", 0, "server"),
              Command("add", "", 0, "server"),
              Command("remove", "", 0, "server")})

\* Every command returns, whatever Studio does: a start whose sessions never
\* connect, an end whose session never closes, a restart that is refused.
CommandsEnd ==
  \A c \in Callers : <>[](calls[c].step \in {"idle", "done"})

=============================================================================
