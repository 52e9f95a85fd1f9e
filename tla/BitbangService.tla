--------------------------- MODULE BitbangService ---------------------------
(***************************************************************************)
(* What the JTAG bridge promises to the remote debuggers (RivRtos/src/tb,  *)
(* remote_bitbang.cc:76-209): remotes are served one at a time and once,   *)
(* the commands of the one served take effect on the TAP one after the     *)
(* other, each at once, and a read is answered with the TDO of that        *)
(* moment.  Nothing is said here of clocks, of calls, of held and sampled  *)
(* values: that is module JtagBridge, which implements this one.           *)
(***************************************************************************)
EXTENDS Integers, Sequences

CONSTANTS Remotes,   \* the remotes that may connect
          NoRemote,  \* nobody is served
          Commands   \* the commands they send: [op, arg]

VARIABLES served,   \* the remote served, or NoRemote
          past,     \* the remotes that were served, or are
          sent,     \* the commands each remote has sent
          done,     \* how many of them have taken effect
          answers,  \* the answers to its reads
          ended,    \* a 'Q' has been executed
          levels,   \* what drives the TAP: TCK, TMS and TDI as a number, and the two resets
          changes   \* pins commands so far, which is what the TAP's TDO reflects

vars == <<served, past, sent, done, answers, ended, levels, changes>>

\* The levels when the first remote is served: all high, that is, no reset.
Idle == [pins |-> 7, reset |-> 0]

Init ==
  /\ served = NoRemote /\ past = {}
  /\ sent = [r \in Remotes |-> <<>>]
  /\ done = [r \in Remotes |-> 0]
  /\ answers = [r \in Remotes |-> <<>>]
  /\ ended = FALSE
  /\ levels = [pins |-> 0, reset |-> 2]   \* TRST is asserted
  /\ changes = 0

\* Only before the first remote is served does anything else move the pins: the test
\* bench toggles TCK.
Toggle ==
  /\ past = {}
  /\ levels' = [levels EXCEPT !.pins = (@ + 4) % 8]
  /\ UNCHANGED <<served, past, sent, done, answers, ended, changes>>

Send(r, cmd) ==
  /\ sent' = [sent EXCEPT ![r] = Append(@, cmd)]
  /\ UNCHANGED <<served, past, done, answers, ended, levels, changes>>

\* A remote that comes later finds the levels as they were left.
Attach(r) ==
  /\ served = NoRemote /\ r \notin past
  /\ served' = r /\ past' = past \cup {r}
  /\ levels' = IF past = {} THEN Idle ELSE levels
  /\ UNCHANGED <<sent, done, answers, ended, changes>>

\* The next command of the remote served takes effect: on the levels, or by an answer, or
\* on the service itself.  A 'Q' ends the session, and all later ones with their first
\* command.
Perform ==
  /\ served # NoRemote
  /\ done[served] < Len(sent[served])
  /\ LET cmd == sent[served][done[served] + 1]
     IN  /\ levels' = CASE cmd.op = "pins"  -> [levels EXCEPT !.pins = cmd.arg]
                        [] cmd.op = "reset" -> [levels EXCEPT !.reset = cmd.arg]
                        [] OTHER            -> levels
         /\ changes' = IF cmd.op = "pins" THEN changes + 1 ELSE changes
         /\ answers' = IF cmd.op = "read" THEN [answers EXCEPT ![served] = Append(@, changes)]
                                          ELSE answers
         /\ ended' = (ended \/ cmd.op = "quit")
  /\ done' = [done EXCEPT ![served] = @ + 1]
  /\ served' = IF ended' THEN NoRemote ELSE served
  /\ UNCHANGED <<past, sent>>

Next ==
  \/ Toggle
  \/ \E r \in Remotes : Attach(r)
  \/ \E r \in Remotes, cmd \in Commands : Send(r, cmd)
  \/ Perform

Spec == Init /\ [][Next]_vars
=============================================================================
