------------------------------- MODULE Control -------------------------------
(***************************************************************************)
(* The wheel of one Bot's computer, agent-computer/src/control.ts: who     *)
(* drives the browser, whether the Bot has asked for help, and the one     *)
(* secret it may be waiting for.  Every operation of createControl is      *)
(* synchronous, so each is an operator from a control state to the next;   *)
(* AgentComputer interleaves them with the requests in flight.             *)
(*                                                                         *)
(* Data left out: the wording of a reason (kept as "there is one"), the    *)
(* label of a secret, and secretSnapshotId, which no code reads.  since is *)
(* a clock in the code; here it counts the changes of driver, so that two  *)
(* tenures of the same driver are told apart.                              *)
(***************************************************************************)
EXTENDS Naturals

CONSTANTS
    Refs,      \* element refs the Bot may name as a secret's field
    NoSecret   \* secretWanted and secretRef absent

ASSUME NoSecretAssumption == NoSecret \notin Refs

ControlState == [holder    : {"bot", "human"},
                 since     : Nat,
                 requested : BOOLEAN,
                 reason    : BOOLEAN,
                 secret    : Refs \cup {NoSecret}]

createControl == [holder    |-> "bot",
                  since     |-> 0,
                  requested |-> FALSE,
                  reason    |-> FALSE,
                  secret    |-> NoSecret]

requestHelp(c) == [c EXCEPT !.requested = TRUE, !.reason = TRUE]

Blank == "blank"   \* a ref that is missing or only spaces

NamesField(ref) == ref # Blank

\* A request that names no field is refused before any state is touched.
requestSecret(c, ref) == IF NamesField(ref) THEN [c EXCEPT !.secret = ref] ELSE c

\* Closes whatever request is open now: it does not name the one it answers.
secretSupplied(c) == [c EXCEPT !.secret = NoSecret]

\* The reason survives a take; a pending secret does not.
take(c) == [holder    |-> "human",
            since     |-> c.since + 1,
            requested |-> FALSE,
            reason    |-> c.reason,
            secret    |-> NoSecret]

release(c) == [holder    |-> "bot",
               since     |-> c.since + 1,
               requested |-> FALSE,
               reason    |-> FALSE,
               secret    |-> NoSecret]

\* Mutant: the check every acting call starts with is forgotten.
assertBotMayActDropped(c) == TRUE
assertBotMayAct(c) == c.holder = "bot"

\* Mutant: an open socket or a reachable port is taken for permission.
humanMayDriveDropped(c) == TRUE
humanMayDrive(c) == c.holder = "human"
=============================================================================
