------------------------- MODULE ProtocolAuthority --------------------------
(***************************************************************************)
(* The protocol boundary of a table: ProtocolAuthority of                  *)
(* src/src/protocol.rs, with the hand it owns abstracted to an arbitrary   *)
(* deterministic machine (MultiwayHand is one), and with the replacement   *)
(* of the authority when the registry rolls the table over to a new hand.  *)
(*                                                                         *)
(* Commands travel over a network that may lose, repeat, delay and reorder *)
(* them, and a client may retry anything it ever sent: every envelope may  *)
(* be submitted at any time, any number of times.                          *)
(***************************************************************************)
EXTENDS Integers, FiniteSets, Sequences

CONSTANTS
  ClientIds,      \* well-formed command identifiers of clients
  ServerIds,      \* identifiers in the reserved "srv-" namespace
  MalformedIds,   \* identifiers valid_command_id refuses
  Versions,       \* protocol versions clients speak
  Tables,         \* table identities clients address
  Payloads,       \* CommandPayload: actions and showdown preferences
  HandStates,     \* states of the hand
  InitialHand,    \* the state of a hand that was just dealt
  Refused,        \* the hand rejects the command or has nothing to advance
  ApplyCommand,   \* [HandStates -> [Payloads -> HandStates \cup {Refused}]]
  AdvanceHand,    \* [HandStates -> HandStates \cup {Refused}]
  MaxRecorded,    \* MAX_RECORDED_COMMANDS_PER_HAND
  MaxRevision,    \* bound on the revisions clients may expect
  MaxHands,       \* bound on the hands a table plays
  Null            \* absence of a ledger entry

Ids   == ClientIds \cup ServerIds \cup MalformedIds
Hands == 1 .. MaxHands
ThisTable == "this"
CurrentVersion == "v4"
Showdown == "srv-showdown"   \* the identity of a showdown event

ASSUME ProtocolAssumption ==
  /\ CurrentVersion \in Versions /\ ThisTable \in Tables
  /\ InitialHand \in HandStates
  /\ Refused \notin HandStates
  /\ ApplyCommand \in [HandStates -> [Payloads -> HandStates \cup {Refused}]]
  /\ AdvanceHand \in [HandStates -> HandStates \cup {Refused}]
  /\ MaxRecorded \in Nat \ {0} /\ MaxRevision \in Nat /\ MaxHands \in Nat \ {0}
  /\ IsFiniteSet(Ids)
  /\ Showdown \notin Ids

(* CommandEnvelope, and those a client may send: the revisions it expects are
   bounded. *)
Envelopes == [ version : Versions, id : Ids, table : Tables, hand : Hands,
               expected : Nat, payload : Payloads ]
Sendable  == [ version : Versions, id : Ids, table : Tables, hand : Hands,
               expected : 0 .. MaxRevision, payload : Payloads ]

ErrorCodes == {"UnsupportedVersion", "InvalidCommandId", "ReservedCommandId",
               "WrongTable", "WrongHand", "CommandIdConflict",
               "CommandLedgerFull", "StaleRevision", "Domain"}
Accepted(rev)       == [result |-> "Accepted", code |-> "None", revision |-> rev]
Rejected(code, rev) == [result |-> "Rejected", code |-> code, revision |-> rev]
Outcomes == [result : {"Accepted", "Rejected"}, code : ErrorCodes \cup {"None"},
             revision : Nat]
Entries == [expected : Nat, payload : Payloads, outcome : Outcomes]

ASSUME NullAssumption == Null \notin Entries \cup {"Accepted", "Rejected"}

VARIABLES
  handId,    \* hand_id of the current authority
  hand,      \* the hand
  revision,
  recorded,  \* recorded_commands: identity -> fingerprint and outcome, or Null
  reply,     \* the last outcome a submission returned
  events,    \* history: identities of this hand's events, in order
  applied    \* history: the submissions that changed a hand, over all hands
vars == <<handId, hand, revision, recorded, reply, events, applied>>

NoEntries == [i \in Ids |-> Null]

Init ==
  /\ handId = 1 /\ hand = InitialHand /\ revision = 0
  /\ recorded = NoEntries
  /\ reply = Null
  /\ events = <<>> /\ applied = <<>>

-----------------------------------------------------------------------------
(* submit_from, in the order of its checks. *)

Reserved(id) == id \in ServerIds
ValidId(id)  == id \notin MalformedIds

(* Mutant: commands are not bound to a hand. *)
AddressErrorAnyHand(env, server) ==
  IF env.version # CurrentVersion THEN "UnsupportedVersion"
  ELSE IF ~ValidId(env.id) THEN "InvalidCommandId"
  ELSE IF ~server /\ Reserved(env.id) THEN "ReservedCommandId"
  ELSE IF env.table # ThisTable THEN "WrongTable"
  ELSE "None"

(* The checks that come before the ledger is consulted. *)
AddressError(env, server) ==
  IF env.version # CurrentVersion THEN "UnsupportedVersion"
  ELSE IF ~ValidId(env.id) THEN "InvalidCommandId"
  ELSE IF ~server /\ Reserved(env.id) THEN "ReservedCommandId"
  ELSE IF env.table # ThisTable THEN "WrongTable"
  ELSE IF env.hand # handId THEN "WrongHand"
  ELSE "None"

(* Mutant: the revision is compared before the ledger is consulted. *)
SameFingerprintIfCurrent(env) ==
  /\ recorded[env.id] # Null /\ env.expected = revision
  /\ recorded[env.id].expected = env.expected
  /\ recorded[env.id].payload = env.payload

(* CommandFingerprint: the expected revision and the intent. *)
SameFingerprint(env) ==
  /\ recorded[env.id] # Null
  /\ recorded[env.id].expected = env.expected
  /\ recorded[env.id].payload = env.payload

Recorded == {i \in Ids : recorded[i] # Null}

LedgerFull == Cardinality(Recorded) >= MaxRecorded

(* Mutant: the expected revision is not compared. *)
NeverStale(env) == FALSE

Stale(env) == env.expected # revision

(* The outcome a submission returns, in the order of submit_from's checks. *)
Answer(env, server) ==
  IF AddressError(env, server) # "None"
    THEN Rejected(AddressError(env, server), revision)
  ELSE IF SameFingerprint(env) THEN recorded[env.id].outcome
  ELSE IF recorded[env.id] # Null THEN Rejected("CommandIdConflict", revision)
  ELSE IF LedgerFull THEN Rejected("CommandLedgerFull", revision)
  ELSE IF Stale(env) THEN Rejected("StaleRevision", revision)
  ELSE IF ApplyCommand[hand][env.payload] = Refused THEN Rejected("Domain", revision)
  ELSE Accepted(revision + 1)

(* A new command that gets decided. *)
Fresh(env, server) ==
  /\ AddressError(env, server) = "None"
  /\ recorded[env.id] = Null
  /\ ~LedgerFull

(* Mutant: the ledger keeps the latest entry only. *)
RecordLatestOnly(env, outcome) ==
  recorded' = [NoEntries EXCEPT ![env.id] =
                 [expected |-> env.expected, payload |-> env.payload, outcome |-> outcome]]

Record(env, outcome) ==
  recorded' = [recorded EXCEPT ![env.id] =
                 [expected |-> env.expected, payload |-> env.payload, outcome |-> outcome]]

(* Badly addressed commands, conflicting reuse of an identity and a full
   ledger leave no trace; an exact retry gets its original outcome. *)
AnswerOnly(env, server) ==
  /\ ~Fresh(env, server)
  /\ reply' = Answer(env, server)
  /\ UNCHANGED <<handId, hand, revision, recorded, events, applied>>

(* Stale commands and commands the hand refuses are rejected and retained. *)
RejectRecorded(env, server) ==
  /\ Fresh(env, server)
  /\ Stale(env) \/ ApplyCommand[hand][env.payload] = Refused
  /\ reply' = Answer(env, server)
  /\ Record(env, Answer(env, server))
  /\ UNCHANGED <<handId, hand, revision, events, applied>>

AcceptCommand(env, server) ==
  /\ Fresh(env, server)
  /\ ~Stale(env)
  /\ ApplyCommand[hand][env.payload] # Refused
  /\ hand' = ApplyCommand[hand][env.payload]
  /\ revision' = revision + 1
  /\ reply' = Answer(env, server)
  /\ Record(env, Answer(env, server))
  /\ events' = Append(events, env.id)
  /\ applied' = Append(applied, [env |-> env, server |-> server, revision |-> revision'])
  /\ UNCHANGED handId

Submit(env, server) ==
  \/ AnswerOnly(env, server)
  \/ RejectRecorded(env, server)
  \/ AcceptCommand(env, server)

(* The commands the table worker builds for a deadline: well addressed, in the
   reserved namespace and against the current revision. *)
ServerEnvelopes ==
  [ version : {CurrentVersion}, id : ServerIds, table : {ThisTable},
    hand : {handId}, expected : {revision}, payload : Payloads ]

(* advance_showdown. *)
AdvanceShowdown ==
  /\ AdvanceHand[hand] # Refused
  /\ hand' = AdvanceHand[hand]
  /\ revision' = revision + 1
  /\ events' = Append(events, Showdown)
  /\ UNCHANGED <<handId, recorded, reply, applied>>

(* The registry replaces the authority of a finished hand. *)
HandOver == /\ AdvanceHand[hand] = Refused
            /\ \A p \in Payloads : ApplyCommand[hand][p] = Refused
NextHand ==
  /\ HandOver /\ handId < MaxHands
  /\ handId' = handId + 1
  /\ hand' = InitialHand /\ revision' = 0
  /\ recorded' = NoEntries /\ events' = <<>>
  /\ UNCHANGED <<reply, applied>>

ClientSubmit == \E env \in Sendable : Submit(env, FALSE)
ServerSubmit == \E env \in ServerEnvelopes : Submit(env, TRUE)

Next == ClientSubmit \/ ServerSubmit \/ AdvanceShowdown \/ NextHand

Spec == Init /\ [][Next]_vars

-----------------------------------------------------------------------------
(* Properties. *)

(* TypeOK: the authority's fields have their types. *)
TypeOK ==
  /\ handId \in Hands
  /\ hand \in HandStates
  /\ revision \in Nat
  /\ recorded \in [Ids -> Entries \cup {Null}]
  /\ events \in Seq(Ids \cup {Showdown})
  /\ reply \in Outcomes \cup {Null}
  /\ applied \in Seq([env : Envelopes, server : BOOLEAN, revision : Nat])

(* AppliedOnce: however often a command is repeated, delayed past other
   commands or past the end of its hand, it changes a hand at most once. *)
AppliedOnce ==
  \A i, j \in DOMAIN applied : applied[i].env = applied[j].env => i = j

(* RetryNeverContradicts: as long as the hand lasts, a retry of a command that
   was accepted is answered with that acceptance, even when the revision has
   moved on or the ledger is full. *)
RetryNeverContradicts ==
  \A i \in DOMAIN applied :
    applied[i].env.hand = handId =>
      Answer(applied[i].env, applied[i].server) = Accepted(applied[i].revision)

(* OneEventPerRevision: revision n of a hand is the n-th event, and the
   accepted outcome that carries revision n belongs to exactly that event. *)
OneEventPerRevision ==
  /\ Len(events) = revision
  /\ \A i \in Recorded : recorded[i].outcome.result = "Accepted" =>
       /\ recorded[i].outcome.revision \in DOMAIN events
       /\ events[recorded[i].outcome.revision] = i

(* DecidedOnWhatWasSeen: a command is only applied to the very state its
   sender had seen. *)
DecidedOnWhatWasSeen ==
  \A i \in Recorded : recorded[i].outcome.result = "Accepted" =>
    recorded[i].outcome.revision = recorded[i].expected + 1

(* LedgerBounded: the ledger never holds more than its capacity. *)
LedgerBounded == Cardinality(Recorded) <= MaxRecorded

(* Refinement of the abstract command log. *)
DecisionOf(i) == IF recorded[i] = Null THEN Null ELSE recorded[i].outcome.result
Log == INSTANCE CommandLog WITH
         Undecided <- Null, Accept <- "Accepted", Reject <- "Rejected",
         Step <- Showdown,
         log <- events, decision <- [i \in Ids |-> DecisionOf(i)]

(* ImplementsCommandLog: the authority implements CommandLog. *)
ImplementsCommandLog == Log!LogSpec

=============================================================================
