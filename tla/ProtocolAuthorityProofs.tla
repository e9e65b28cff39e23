---------------------- MODULE ProtocolAuthorityProofs -----------------------
(***************************************************************************)
(* Proofs about ProtocolAuthority, for every hand machine, every ledger    *)
(* capacity and every number of hands, clients and revisions.              *)
(***************************************************************************)
EXTENDS ProtocolAuthority, FiniteSetTheorems, TLAPS

(* What the ledger knows about the submissions that changed a hand: one made
   in the current hand was well addressed and its entry still holds its
   fingerprint and its acceptance; none was made for a later hand. *)
AppliedRetained ==
  \A i \in DOMAIN applied :
    LET a == applied[i] IN
    /\ a.env.hand <= handId
    /\ a.env.version = CurrentVersion /\ ValidId(a.env.id)
    /\ a.env.table = ThisTable /\ (a.server \/ ~Reserved(a.env.id))
    /\ a.env.hand = handId =>
         recorded[a.env.id] = [ expected |-> a.env.expected,
                                payload  |-> a.env.payload,
                                outcome  |-> Accepted(a.revision) ]

(* The inductive invariant. *)
Inv ==
  /\ TypeOK
  /\ AppliedRetained
  /\ AppliedOnce
  /\ OneEventPerRevision
  /\ DecidedOnWhatWasSeen

-----------------------------------------------------------------------------
(* Facts about the operators. *)

(* AddressErrorType: an address check returns an error code or "None". *)
LEMMA AddressErrorType ==
  ASSUME NEW env, NEW server
  PROVE  AddressError(env, server) \in ErrorCodes \cup {"None"}
BY DEF AddressError, ErrorCodes

(* SubmittedEnvelopes: what clients send and what the table worker builds are
   command envelopes. *)
LEMMA SubmittedEnvelopes ==
  ASSUME TypeOK
  PROVE  Sendable \cup ServerEnvelopes \subseteq Envelopes
BY ProtocolAssumption DEF TypeOK, Sendable, ServerEnvelopes, Envelopes, Ids

(* AnswerType: whatever is submitted, the answer is an outcome. *)
LEMMA AnswerType ==
  ASSUME TypeOK, NEW env \in Envelopes, NEW server \in BOOLEAN
  PROVE  Answer(env, server) \in Outcomes
<1>1. env.id \in Ids
  BY DEF Envelopes
<1>2. SameFingerprint(env) => recorded[env.id] \in Entries
  BY <1>1 DEF SameFingerprint, TypeOK
<1>3. SameFingerprint(env) => recorded[env.id].outcome \in Outcomes
  BY <1>2 DEF Entries
<1>4. \A code \in ErrorCodes : Rejected(code, revision) \in Outcomes
  BY DEF Rejected, Outcomes, TypeOK
<1>5. Accepted(revision + 1) \in Outcomes
  BY DEF Accepted, Outcomes, TypeOK
<1>6. AddressError(env, server) # "None" =>
        Rejected(AddressError(env, server), revision) \in Outcomes
  BY <1>4, AddressErrorType
<1>7. {"CommandIdConflict", "CommandLedgerFull", "StaleRevision", "Domain"} \subseteq ErrorCodes
  BY DEF ErrorCodes
<1> QED
  BY <1>3, <1>4, <1>5, <1>6, <1>7 DEF Answer

(* FreshAnswer: the answer to a fresh command is decided by its revision and
   by the hand alone. *)
LEMMA FreshAnswer ==
  ASSUME NEW env, NEW server, Fresh(env, server)
  PROVE  /\ Stale(env) => Answer(env, server) = Rejected("StaleRevision", revision)
         /\ ~Stale(env) /\ ApplyCommand[hand][env.payload] = Refused =>
              Answer(env, server) = Rejected("Domain", revision)
         /\ ~Stale(env) /\ ApplyCommand[hand][env.payload] # Refused =>
              Answer(env, server) = Accepted(revision + 1)
BY DEF Fresh, Answer, SameFingerprint

(* AppliedType: what is known of the type of an applied submission. *)
LEMMA AppliedType ==
  ASSUME TypeOK, NEW i \in DOMAIN applied
  PROVE  applied[i] \in [env : Envelopes, server : BOOLEAN, revision : Nat]
<1> DEFINE S == [env : Envelopes, server : BOOLEAN, revision : Nat]
<1>1. applied \in Seq(S)
  BY DEF TypeOK
<1> HIDE DEF S
<1>2. i \in 1 .. Len(applied)
  BY <1>1
<1>3. applied[i] \in S
  BY <1>1, <1>2
<1> QED
  BY <1>3 DEF S

(* AppliedNotFresh: the identity of a command that changed the current hand is
   not free in the ledger. *)
LEMMA AppliedNotFresh ==
  ASSUME Inv, NEW i \in DOMAIN applied, applied[i].env.hand = handId
  PROVE  recorded[applied[i].env.id] # Null
<1> DEFINE a == applied[i]
           entry == [expected |-> a.env.expected, payload |-> a.env.payload,
                     outcome |-> Accepted(a.revision)]
<1>1. a \in [env : Envelopes, server : BOOLEAN, revision : Nat]
  BY AppliedType DEF Inv
<1>2. a.env.expected \in Nat /\ a.env.payload \in Payloads
  BY <1>1 DEF Envelopes
<1>3. Accepted(a.revision) \in Outcomes
  BY <1>1 DEF Accepted, Outcomes
<1>4. entry \in Entries
  BY <1>2, <1>3 DEF Entries
<1>5. recorded[a.env.id] = entry
  BY DEF Inv, AppliedRetained
<1> QED
  BY <1>4, <1>5, NullAssumption

-----------------------------------------------------------------------------
(* InitInv: the first authority of a table satisfies the invariant. *)
LEMMA InitInv == Init => Inv
<1> SUFFICES ASSUME Init PROVE Inv
  OBVIOUS
<1>1. TypeOK
  BY ProtocolAssumption DEF Init, TypeOK, NoEntries, Hands
<1>2. AppliedRetained /\ AppliedOnce
  BY DEF Init, AppliedRetained, AppliedOnce
<1>3. OneEventPerRevision /\ DecidedOnWhatWasSeen
  BY DEF Init, OneEventPerRevision, DecidedOnWhatWasSeen, Recorded, NoEntries
<1> QED
  BY <1>1, <1>2, <1>3 DEF Inv

(* RejectPreserves: a rejection that is retained preserves the invariant. *)
LEMMA RejectPreserves ==
  ASSUME Inv, NEW env \in Envelopes, NEW server \in BOOLEAN, RejectRecorded(env, server)
  PROVE  Inv'
<1> DEFINE entry == [expected |-> env.expected, payload |-> env.payload,
                     outcome |-> Answer(env, server)]
<1>1. env.id \in Ids /\ recorded[env.id] = Null
  BY DEF Envelopes, RejectRecorded, Fresh
<1>2. Answer(env, server) \in Outcomes
  BY AnswerType DEF Inv
<1>3. Answer(env, server).result = "Rejected"
  <2>1. Fresh(env, server) /\ (Stale(env) \/ ApplyCommand[hand][env.payload] = Refused)
    BY DEF RejectRecorded
  <2>2. Answer(env, server) \in {Rejected("StaleRevision", revision), Rejected("Domain", revision)}
    BY <2>1, FreshAnswer
  <2> QED
    BY <2>2 DEF Rejected
<1>4. entry \in Entries
  BY <1>2 DEF Entries, Envelopes
<1>5. recorded' = [recorded EXCEPT ![env.id] = entry]
  BY DEF RejectRecorded, Record
<1>6. UNCHANGED <<handId, hand, revision, events, applied>>
  BY DEF RejectRecorded
<1>7. TypeOK'
  BY <1>1, <1>2, <1>4, <1>5, <1>6 DEF Inv, TypeOK, RejectRecorded
<1>8. AppliedRetained'
  <2> SUFFICES ASSUME NEW i \in DOMAIN applied
               PROVE  applied[i].env.hand = handId => applied[i].env.id # env.id
    BY <1>1, <1>5, <1>6 DEF Inv, AppliedRetained, TypeOK, Envelopes
  <2> QED
    BY <1>1, AppliedNotFresh
<1>9. AppliedOnce'
  BY <1>6 DEF Inv, AppliedOnce
<1>10. \A i \in Ids : i # env.id => recorded'[i] = recorded[i]
  BY <1>5 DEF Inv, TypeOK
<1>11. recorded'[env.id].outcome.result # "Accepted"
  BY <1>1, <1>3, <1>5 DEF Inv, TypeOK
<1>12. OneEventPerRevision'
  BY <1>6, <1>10, <1>11 DEF Inv, OneEventPerRevision, Recorded
<1>13. DecidedOnWhatWasSeen'
  BY <1>6, <1>10, <1>11 DEF Inv, DecidedOnWhatWasSeen, Recorded
<1> QED
  BY <1>7, <1>8, <1>9, <1>12, <1>13 DEF Inv

(* AcceptPreserves: an accepted command preserves the invariant. *)
LEMMA AcceptPreserves ==
  ASSUME Inv, NEW env \in Envelopes, NEW server \in BOOLEAN, AcceptCommand(env, server)
  PROVE  Inv'
<1> DEFINE entry == [expected |-> env.expected, payload |-> env.payload,
                     outcome |-> Accepted(revision + 1)]
           new == [env |-> env, server |-> server, revision |-> revision + 1]
<1>1. env.id \in Ids /\ env.payload \in Payloads /\ env.expected \in Nat
  BY DEF Envelopes
<1>2. recorded[env.id] = Null /\ env.expected = revision /\ revision \in Nat
  BY DEF AcceptCommand, Fresh, Stale, Inv, TypeOK
<1>3. Answer(env, server) = Accepted(revision + 1)
  BY FreshAnswer DEF AcceptCommand
<1>4. entry \in Entries
  BY <1>1, <1>2 DEF Entries, Accepted, Outcomes
<1>5. recorded' = [recorded EXCEPT ![env.id] = entry]
  BY <1>3 DEF AcceptCommand, Record
<1>6. /\ applied' = Append(applied, new)
      /\ events' = Append(events, env.id)
      /\ handId' = handId /\ revision' = revision + 1
  BY DEF AcceptCommand
<1>7. /\ env.version = CurrentVersion /\ ValidId(env.id) /\ env.table = ThisTable
      /\ env.hand = handId /\ (server \/ ~Reserved(env.id))
  BY DEF AcceptCommand, Fresh, AddressError
<1>8. TypeOK'
  <2>1. hand' \in HandStates
    BY <1>1, ProtocolAssumption DEF AcceptCommand, Inv, TypeOK
  <2>2. recorded' \in [Ids -> Entries \cup {Null}]
    BY <1>4, <1>5 DEF Inv, TypeOK
  <2>3. reply' \in Outcomes \cup {Null}
    BY AnswerType DEF AcceptCommand, Inv
  <2>4. events' \in Seq(Ids \cup {Showdown})
    BY <1>1, <1>6 DEF Inv, TypeOK
  <2>5. new \in [env : Envelopes, server : BOOLEAN, revision : Nat]
    BY <1>2
  <2>6. applied' \in Seq([env : Envelopes, server : BOOLEAN, revision : Nat])
    BY <1>6, <2>5 DEF Inv, TypeOK
  <2> QED
    BY <1>2, <1>6, <2>1, <2>2, <2>3, <2>4, <2>6 DEF Inv, TypeOK
<1>9. applied \in Seq([env : Envelopes, server : BOOLEAN, revision : Nat])
  BY DEF Inv, TypeOK
<1>10. /\ DOMAIN applied' = DOMAIN applied \cup {Len(applied) + 1}
       /\ \A i \in DOMAIN applied : applied'[i] = applied[i]
       /\ applied'[Len(applied) + 1] = new
  BY <1>6, <1>9
<1>11. \A i \in DOMAIN applied :
         applied[i].env.hand = handId => applied[i].env.id # env.id
  BY <1>2, AppliedNotFresh
<1>12. AppliedRetained'
  <2> SUFFICES ASSUME NEW i \in DOMAIN applied'
               PROVE  LET a == applied'[i] IN
                      /\ a.env.hand <= handId
                      /\ a.env.version = CurrentVersion /\ ValidId(a.env.id)
                      /\ a.env.table = ThisTable /\ (a.server \/ ~Reserved(a.env.id))
                      /\ a.env.hand = handId =>
                           recorded'[a.env.id] = [ expected |-> a.env.expected,
                                                   payload  |-> a.env.payload,
                                                   outcome  |-> Accepted(a.revision) ]
    BY <1>6 DEF AppliedRetained, ValidId, Reserved, Accepted
  <2>1. CASE i \in DOMAIN applied
    BY <2>1, <1>5, <1>10, <1>11 DEF Inv, AppliedRetained, TypeOK
  <2>2. CASE i = Len(applied) + 1
    <3>1. applied'[i] = new /\ handId \in Nat
      BY <2>2, <1>10 DEF Inv, TypeOK, Hands
    <3> QED
      BY <3>1, <1>1, <1>5, <1>7 DEF Inv, TypeOK
  <2> QED
    BY <2>1, <2>2, <1>10
<1>13. AppliedOnce'
  <2>1. \A i \in DOMAIN applied : applied[i].env # env
    BY <1>7, <1>11
  <2> QED
    BY <2>1, <1>10 DEF Inv, AppliedOnce
<1>14. Recorded' = Recorded \cup {env.id}
  BY <1>1, <1>4, <1>5, NullAssumption DEF Recorded, Inv, TypeOK
<1>15. OneEventPerRevision'
  <2>1. Len(events) = revision /\ Len(events') = revision + 1
    BY <1>6 DEF Inv, TypeOK, OneEventPerRevision
  <2>2. events'[revision + 1] = env.id /\ \A n \in DOMAIN events : events'[n] = events[n]
    BY <1>1, <1>6, <2>1 DEF Inv, TypeOK
  <2>3. DOMAIN events' = DOMAIN events \cup {revision + 1}
    BY <1>1, <1>6, <2>1 DEF Inv, TypeOK
  <2>4. recorded'[env.id].outcome.revision = revision + 1
    BY <1>1, <1>5 DEF Inv, TypeOK, Accepted
  <2>5. ASSUME NEW i \in Recorded', recorded'[i].outcome.result = "Accepted"
        PROVE  /\ recorded'[i].outcome.revision \in DOMAIN events'
               /\ events'[recorded'[i].outcome.revision] = i
    <3>1. CASE i = env.id
      BY <3>1, <2>2, <2>3, <2>4
    <3>2. CASE i # env.id
      <4>1. i \in Recorded /\ recorded'[i] = recorded[i]
        BY <3>2, <2>5, <1>5, <1>14 DEF Recorded, Inv, TypeOK
      <4> QED
        BY <4>1, <2>2, <2>3, <2>5 DEF Inv, OneEventPerRevision
    <3> QED
      BY <3>1, <3>2
  <2> QED
    BY <2>1, <2>5, <1>6 DEF OneEventPerRevision
<1>16. DecidedOnWhatWasSeen'
  <2> SUFFICES ASSUME NEW i \in Recorded', recorded'[i].outcome.result = "Accepted"
               PROVE  recorded'[i].outcome.revision = recorded'[i].expected + 1
    BY DEF DecidedOnWhatWasSeen
  <2>1. CASE i = env.id
    BY <2>1, <1>1, <1>2, <1>5 DEF Inv, TypeOK, Accepted
  <2>2. CASE i # env.id
    <3>1. i \in Recorded /\ recorded'[i] = recorded[i]
      BY <2>2, <1>5, <1>14 DEF Recorded, Inv, TypeOK
    <3> QED
      BY <3>1 DEF Inv, DecidedOnWhatWasSeen
  <2> QED
    BY <2>1, <2>2
<1> QED
  BY <1>8, <1>12, <1>13, <1>15, <1>16 DEF Inv

(* NextPreserves: every step preserves the invariant. *)
LEMMA NextPreserves == Inv /\ [Next]_vars => Inv'
<1> SUFFICES ASSUME Inv, [Next]_vars PROVE Inv'
  OBVIOUS
<1>1. ASSUME NEW env \in Envelopes, NEW server \in BOOLEAN, Submit(env, server)
      PROVE  Inv'
  <2>1. CASE AnswerOnly(env, server)
    <3>1. reply' \in Outcomes
      BY <2>1, AnswerType DEF AnswerOnly, Inv
    <3>2. UNCHANGED <<handId, hand, revision, recorded, events, applied>>
      BY <2>1 DEF AnswerOnly
    <3>3. TypeOK'
      BY <3>1, <3>2 DEF Inv, TypeOK
    <3> QED
      BY <3>2, <3>3 DEF Inv, AppliedRetained, AppliedOnce, OneEventPerRevision,
                        DecidedOnWhatWasSeen, Recorded, ValidId, Reserved, Accepted
  <2>2. CASE RejectRecorded(env, server)
    BY <2>2, RejectPreserves
  <2>3. CASE AcceptCommand(env, server)
    BY <2>3, AcceptPreserves
  <2> QED
    BY <1>1, <2>1, <2>2, <2>3 DEF Submit
<1>2. CASE AdvanceShowdown
  <2>1. hand' \in HandStates
    BY <1>2, ProtocolAssumption DEF AdvanceShowdown, Inv, TypeOK
  <2>2. events' = Append(events, Showdown) /\ revision' = revision + 1
    BY <1>2 DEF AdvanceShowdown
  <2>3. UNCHANGED <<handId, recorded, reply, applied>>
    BY <1>2 DEF AdvanceShowdown
  <2>4. TypeOK'
    BY <2>1, <2>2, <2>3 DEF Inv, TypeOK
  <2>5. AppliedRetained' /\ AppliedOnce' /\ DecidedOnWhatWasSeen'
    BY <2>3 DEF Inv, AppliedRetained, AppliedOnce, DecidedOnWhatWasSeen, Recorded,
                ValidId, Reserved, Accepted
  <2>6. /\ Len(events') = Len(events) + 1
        /\ DOMAIN events \subseteq DOMAIN events'
        /\ \A n \in DOMAIN events : events'[n] = events[n]
    BY <2>2 DEF Inv, TypeOK
  <2>7. OneEventPerRevision'
    BY <2>2, <2>3, <2>6 DEF Inv, OneEventPerRevision, Recorded
  <2> QED
    BY <2>4, <2>5, <2>7 DEF Inv
<1>3. CASE NextHand
  <2>1. /\ handId' = handId + 1 /\ handId < MaxHands /\ hand' = InitialHand
        /\ revision' = 0 /\ recorded' = NoEntries /\ events' = <<>>
        /\ UNCHANGED <<reply, applied>>
    BY <1>3 DEF NextHand
  <2>2. handId' \in Hands
    BY <2>1, ProtocolAssumption DEF Inv, TypeOK, Hands
  <2>3. TypeOK'
    BY <2>1, <2>2, ProtocolAssumption DEF Inv, TypeOK, NoEntries
  <2>4. Recorded' = {}
    BY <2>1 DEF Recorded, NoEntries
  <2>5. OneEventPerRevision' /\ DecidedOnWhatWasSeen'
    BY <2>1, <2>4 DEF OneEventPerRevision, DecidedOnWhatWasSeen
  <2>6. AppliedRetained'
    <3>1. ASSUME NEW i \in DOMAIN applied
          PROVE  applied[i].env.hand <= handId' /\ applied[i].env.hand # handId'
      <4>1. applied[i].env.hand \in Hands /\ handId \in Hands
        BY AppliedType DEF Inv, TypeOK, Envelopes
      <4>2. applied[i].env.hand <= handId
        BY DEF Inv, AppliedRetained
      <4> QED
        BY <2>1, <4>1, <4>2, ProtocolAssumption DEF Hands
    <3> QED
      BY <2>1, <3>1 DEF Inv, AppliedRetained, ValidId, Reserved
  <2>7. AppliedOnce'
    BY <2>1 DEF Inv, AppliedOnce
  <2> QED
    BY <2>3, <2>5, <2>6, <2>7 DEF Inv
<1>4. CASE UNCHANGED vars
  BY <1>4 DEF vars, Inv, TypeOK, AppliedRetained, AppliedOnce, OneEventPerRevision,
              DecidedOnWhatWasSeen, Recorded, ValidId, Reserved, Accepted
<1> QED
  BY <1>1, <1>2, <1>3, <1>4, SubmittedEnvelopes
  DEF Next, ClientSubmit, ServerSubmit, Inv

(* InvAlways: the invariant holds in every reachable state. *)
LEMMA InvAlways == Spec => []Inv
BY InitInv, NextPreserves, PTL DEF Spec

(* TypeCorrect: the authority's state always has its types. *)
THEOREM TypeCorrect == Spec => []TypeOK
<1>1. Inv => TypeOK
  BY DEF Inv
<1> QED
  BY <1>1, InvAlways, PTL

(* AtMostOnce: for any number of retries, delays and hands, a submission
   changes a hand at most once. *)
THEOREM AtMostOnce == Spec => []AppliedOnce
<1>1. Inv => AppliedOnce
  BY DEF Inv
<1> QED
  BY <1>1, InvAlways, PTL

(* RetrySafe: within its hand, a retry of an accepted command is always
   answered with the original acceptance. *)
THEOREM RetrySafe == Spec => []RetryNeverContradicts
<1>1. Inv => RetryNeverContradicts
  <2> SUFFICES ASSUME Inv, NEW i \in DOMAIN applied, applied[i].env.hand = handId
               PROVE  Answer(applied[i].env, applied[i].server) = Accepted(applied[i].revision)
    BY DEF RetryNeverContradicts
  <2> DEFINE a == applied[i]
  <2>1. AddressError(a.env, a.server) = "None"
    BY DEF Inv, AppliedRetained, AddressError
  <2>2. recorded[a.env.id] = [ expected |-> a.env.expected, payload |-> a.env.payload,
                               outcome |-> Accepted(a.revision) ]
    BY DEF Inv, AppliedRetained
  <2>3. recorded[a.env.id] # Null
    BY AppliedNotFresh
  <2>4. SameFingerprint(a.env) /\ recorded[a.env.id].outcome = Accepted(a.revision)
    BY <2>2, <2>3 DEF SameFingerprint
  <2> QED
    BY <2>1, <2>4 DEF Answer
<1> QED
  BY <1>1, InvAlways, PTL

(* RevisionsName: every revision of a hand names exactly one event, and an
   accepted outcome names its own. *)
THEOREM RevisionsName == Spec => []OneEventPerRevision
<1>1. Inv => OneEventPerRevision
  BY DEF Inv
<1> QED
  BY <1>1, InvAlways, PTL

(* NeverOnStaleState: a command, a player's or the clock's, is only applied to
   the very state its sender had seen. *)
THEOREM NeverOnStaleState == Spec => []DecidedOnWhatWasSeen
<1>1. Inv => DecidedOnWhatWasSeen
  BY DEF Inv
<1> QED
  BY <1>1, InvAlways, PTL

(* LedgerStaysBounded: the ledger never exceeds its capacity. *)
THEOREM LedgerStaysBounded == Spec => []LedgerBounded
<1>1. IsFiniteSet(Recorded)
  BY FS_Subset, ProtocolAssumption DEF Recorded
<1>2. Init => LedgerBounded
  <2> SUFFICES ASSUME Init PROVE LedgerBounded
    OBVIOUS
  <2>1. Recorded = {}
    BY DEF Init, Recorded, NoEntries
  <2> QED
    BY <2>1, FS_EmptySet, ProtocolAssumption DEF LedgerBounded
<1>3. Inv /\ LedgerBounded /\ [Next]_vars => LedgerBounded'
  <2> SUFFICES ASSUME Inv, LedgerBounded, [Next]_vars PROVE LedgerBounded'
    OBVIOUS
  <2>1. ASSUME recorded' = recorded PROVE LedgerBounded'
    BY <2>1 DEF LedgerBounded, Recorded
  <2>2. ASSUME NEW env \in Envelopes, NEW server \in BOOLEAN, Fresh(env, server),
               Recorded' \subseteq Recorded \cup {env.id}
        PROVE  LedgerBounded'
    <3>1. Cardinality(Recorded) < MaxRecorded /\ Cardinality(Recorded) \in Nat
      <4>1. Cardinality(Recorded) \in Nat
        BY <1>1, FS_CardinalityType
      <4> QED
        BY <4>1, <2>2, ProtocolAssumption DEF Fresh, LedgerFull
    <3>2. /\ IsFiniteSet(Recorded \cup {env.id})
          /\ Cardinality(Recorded \cup {env.id}) <= Cardinality(Recorded) + 1
      <4>1. CASE env.id \in Recorded
        <5>1. Recorded \cup {env.id} = Recorded
          BY <4>1
        <5> QED
          BY <5>1, <1>1, <3>1
      <4>2. CASE env.id \notin Recorded
        <5>1. /\ IsFiniteSet(Recorded \cup {env.id})
              /\ Cardinality(Recorded \cup {env.id}) = Cardinality(Recorded) + 1
          BY <4>2, <1>1, FS_AddElement
        <5> QED
          BY <5>1, <3>1
      <4> QED
        BY <4>1, <4>2
    <3>3. /\ IsFiniteSet(Recorded')
          /\ Cardinality(Recorded') <= Cardinality(Recorded \cup {env.id})
      BY <2>2, <3>2, FS_Subset
    <3>4. Cardinality(Recorded') \in Nat /\ Cardinality(Recorded \cup {env.id}) \in Nat
      BY <3>2, <3>3, FS_CardinalityType
    <3> QED
      BY <3>1, <3>2, <3>3, <3>4, ProtocolAssumption DEF LedgerBounded
  <2>3. ASSUME NEW env \in Envelopes, NEW server \in BOOLEAN, Submit(env, server)
        PROVE  LedgerBounded'
    <3>1. CASE AnswerOnly(env, server)
      BY <3>1, <2>1 DEF AnswerOnly
    <3>2. CASE RejectRecorded(env, server) \/ AcceptCommand(env, server)
      <4>1. Fresh(env, server) /\ Record(env, Answer(env, server))
        BY <3>2 DEF RejectRecorded, AcceptCommand
      <4>2. Recorded' \subseteq Recorded \cup {env.id}
        BY <4>1 DEF Record, Recorded, Inv, TypeOK
      <4> QED
        BY <4>1, <4>2, <2>2
    <3> QED
      BY <2>3, <3>1, <3>2 DEF Submit
  <2>4. CASE NextHand
    <3>1. Recorded' = {}
      BY <2>4 DEF NextHand, Recorded, NoEntries
    <3> QED
      BY <3>1, FS_EmptySet, ProtocolAssumption DEF LedgerBounded
  <2> QED
    BY <2>1, <2>3, <2>4, SubmittedEnvelopes
    DEF Next, ClientSubmit, ServerSubmit, AdvanceShowdown, vars, Inv
<1> QED
  BY <1>2, <1>3, InvAlways, PTL DEF Spec

-----------------------------------------------------------------------------
(* Implements: the authority implements the abstract command log. *)
THEOREM Implements == Spec => ImplementsCommandLog
<1>1. Init => Log!LogInit
  BY DEF Init, Log!LogInit, NoEntries, DecisionOf
<1>2. Inv /\ [Next]_vars => [Log!LogNext]_(Log!logVars)
  <2> SUFFICES ASSUME Inv, [Next]_vars PROVE [Log!LogNext]_(Log!logVars)
    OBVIOUS
  <2> DEFINE decided == [i \in Ids |-> DecisionOf(i)]
  <2>1. ASSUME UNCHANGED <<recorded, events>>
        PROVE  UNCHANGED Log!logVars
    BY <2>1 DEF Log!logVars, DecisionOf
  <2>2. ASSUME NEW env \in Envelopes, NEW server \in BOOLEAN, Submit(env, server)
        PROVE  [Log!LogNext]_(Log!logVars)
    <3>1. CASE AnswerOnly(env, server)
      BY <3>1, <2>1 DEF AnswerOnly
    <3>2. ASSUME Fresh(env, server), Record(env, Answer(env, server))
          PROVE  /\ env.id \in Ids /\ decided[env.id] = Null
                 /\ decided' = [decided EXCEPT ![env.id] = Answer(env, server).result]
      <4>1. env.id \in Ids /\ recorded[env.id] = Null
        BY <3>2 DEF Envelopes, Fresh
      <4>2. Answer(env, server) \in Outcomes
        BY AnswerType DEF Inv
      <4>3. /\ recorded'[env.id].outcome = Answer(env, server)
            /\ recorded'[env.id] \in Entries
            /\ \A i \in Ids : i # env.id => recorded'[i] = recorded[i]
        BY <3>2, <4>1, <4>2 DEF Record, Inv, TypeOK, Entries, Envelopes
      <4> QED
        BY <4>1, <4>3, NullAssumption DEF DecisionOf
    <3>3. CASE RejectRecorded(env, server)
      <4>1. /\ Fresh(env, server) /\ Record(env, Answer(env, server)) /\ events' = events
            /\ Stale(env) \/ ApplyCommand[hand][env.payload] = Refused
        BY <3>3 DEF RejectRecorded
      <4>2. Answer(env, server) \in {Rejected("StaleRevision", revision),
                                     Rejected("Domain", revision)}
        BY <4>1, FreshAnswer
      <4>3. Answer(env, server).result = "Rejected"
        BY <4>2 DEF Rejected
      <4> QED
        BY <4>1, <4>3, <3>2 DEF Log!LogNext, Log!Decide
    <3>4. CASE AcceptCommand(env, server)
      <4>1. /\ Fresh(env, server) /\ Record(env, Answer(env, server))
            /\ events' = Append(events, env.id)
            /\ ~Stale(env) /\ ApplyCommand[hand][env.payload] # Refused
        BY <3>4 DEF AcceptCommand
      <4>2. Answer(env, server).result = "Accepted"
        BY <4>1, FreshAnswer DEF Accepted
      <4> QED
        BY <4>1, <4>2, <3>2 DEF Log!LogNext, Log!Decide
    <3> QED
      BY <2>2, <3>1, <3>3, <3>4 DEF Submit
  <2>3. CASE AdvanceShowdown
    BY <2>3 DEF AdvanceShowdown, Log!LogNext, Log!ServerStep, DecisionOf
  <2>4. CASE NextHand
    BY <2>4 DEF NextHand, NoEntries, Log!LogNext, Log!Restart, DecisionOf
  <2>5. CASE UNCHANGED vars
    BY <2>5, <2>1 DEF vars
  <2> QED
    BY <2>2, <2>3, <2>4, <2>5, SubmittedEnvelopes
    DEF Next, ClientSubmit, ServerSubmit, Inv
<1> QED
  BY <1>1, <1>2, InvAlways, PTL DEF Spec, ImplementsCommandLog, Log!LogSpec

=============================================================================
