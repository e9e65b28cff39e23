--------------------------- MODULE CloudCoaching ---------------------------
(***************************************************************************)
(* The way to a cloud coach: where a key comes from and goes to            *)
(* (src/src/trainer/macos_credentials.rs, SessionCredentials and the       *)
(* settings editor of src/src/trainer/tui.rs), what a request may cost,    *)
(* the worker that sends it, and what of the answer is let through         *)
(* (src/src/trainer/provider.rs).  TrainerDesk says what the table does    *)
(* with the review.  The credential stores, the providers and their bills  *)
(* are external.                                                           *)
(***************************************************************************)
EXTENDS Integers, Sequences, Functions

CONSTANTS
  NoKey, Unasked,     \* no credential; a provider whose credential was not looked up
  Overhead,           \* tokens reserved beside the request's own bytes: 4096
  MaxOutput,          \* max_output_tokens
  TestOutput,         \* max_output_tokens of a key test
  RequestLimit,       \* max_requests
  Computers,          \* bound: budgets (0 is a profile without prices), environment keys, stores
  Bodies, BodyLimit,  \* bound: sizes of a coaching request; 64_000
  ProviderReplies,            \* bound: what a provider may answer
  MaxEdits            \* bound: changes made in the settings editor

(* A test asks for 16 tokens, coaching for at least 128 (ProviderSettings). *)
ASSUME CloudAssumption ==
  /\ Overhead \in Nat /\ TestOutput \in Nat /\ MaxOutput \in Nat /\ TestOutput <= MaxOutput
  /\ Bodies \subseteq Nat /\ \A c \in Computers : c.budget \in Nat /\ c.mac \in BOOLEAN
  /\ \A reply \in ProviderReplies : reply.leak \in {"no", "plain", "escaped"}

VARIABLES
  terms,    \* this computer and profile: budget, environment keys, macOS, what is legal now
  vault,    \* the saved keys: the protected keychain (macOS) and the login store
  memo,     \* SessionCredentials
  editor,   \* the settings editor
  coach,    \* the coaching mode in force
  usage,    \* requests begun and dollars reserved
  calls,    \* every worker begun, under the number of its request
  advice    \* history: the review let through last

cloudVars == <<terms, vault, memo, editor, coach, usage, calls, advice>>
Providers == {"Openai", "Anthropic"}
NextMode == [Local |-> "Openai", Openai |-> "Anthropic", Anthropic |-> "Local"]
ApiKey(p, sound) == [for |-> p, sound |-> sound]
Found(k) == [key |-> k, fault |-> FALSE]
Unreadable == [key |-> NoKey, fault |-> TRUE]

-----------------------------------------------------------------------------
(* Stores: each access may fail. *)
ReadLogin(p) == {Found(vault[p].login), Unreadable}
Stored(p) ==
  IF ~terms.mac THEN ReadLogin(p)
  ELSE {Unreadable} \cup (IF vault[p].protected # NoKey THEN {Found(vault[p].protected)} ELSE ReadLogin(p))
(* set on macOS prefers the protected store and falls back to the other.   *)
Written(p, k) ==
  LET old == vault[p] IN
  {[vault EXCEPT ![p].login = k]}
    \cup (IF terms.mac THEN {[vault EXCEPT ![p] = [protected |-> k, login |-> left]] : left \in {NoKey, old.login}}
          ELSE {})
(* delete succeeds when either copy is gone. *)
Deleted(p) ==
  {[vault EXCEPT ![p].login = NoKey]}
    \cup (IF terms.mac THEN {[vault EXCEPT ![p] = [protected |-> NoKey, login |-> left]] :
                               left \in {NoKey, vault[p].login}} ELSE {})

(* resolve_credential: the environment, then the store. *)
Lookup(p) == IF terms.env[p] # NoKey THEN {Found(terms.env[p])} ELSE Stored(p)
(* SessionCredentials::resolve remembers whatever the first look found.    *)
Resolved(p) == IF memo[p] # Unasked THEN {memo[p]} ELSE Lookup(p)
Remembered(p, found) == [memo EXCEPT ![p] = found]
NoMemo == [p \in Providers |-> Unasked]

-----------------------------------------------------------------------------
(* What a request reserves and what it can cost at most. *)
Reserve(bytes) == IF terms.budget = 0 THEN 0 ELSE bytes + Overhead + MaxOutput
Affordable(bytes) ==
  /\ usage.requests < RequestLimit
  /\ terms.budget # 0 => usage.reserved + Reserve(bytes) <= terms.budget
Bill(job) == IF job.sent /\ terms.budget # 0
             THEN job.bytes + Overhead + IF job.kind = "test" THEN TestOutput ELSE MaxOutput ELSE 0

Begin(kind, p, k, bytes) ==
  /\ usage' = [requests |-> usage.requests + 1, reserved |-> usage.reserved + Reserve(bytes)]
  /\ calls' = Append(calls, [kind |-> kind, provider |-> p, key |-> k, bytes |-> bytes, phase |-> "started",
                           sent |-> FALSE, held |-> "current", answer |-> {}])

CurrentCalls(kind) == {i \in DOMAIN calls : calls[i].kind = kind /\ calls[i].held = "current"}
(* Dropping a Pending or a CredentialTest cancels its worker.              *)
DroppedAll(js, which) == [i \in DOMAIN js |-> IF js[i].kind \in which /\ js[i].held # "done"
                                              THEN [js[i] EXCEPT !.held = "dropped"] ELSE js[i]]

-----------------------------------------------------------------------------
(* The answer.  A reply is told by the first thing wrong with it.          *)
HttpFault(reply) == reply.status # 200
(* parse_response_for: the secret is looked for in the bytes, and again in *)
(* the decoded text, where an escaped one shows.                           *)
Decodable(reply, p) == /\ reply.size <= BodyLimit /\ reply.leak # "plain"
                       /\ p = "Openai" => reply.completed
                       /\ reply.schema
Clean(reply) == reply.leak # "escaped"
(* validate_feedback *)
Possible(action) == \/ action \in {"none", "check_call"}
                    \/ action = "fold" /\ terms.legal.fold
                    \/ action = "raise" /\ terms.legal.raise
Valid(reply) == reply.echo /\ ~reply.claims /\ Possible(reply.alternative)
Accepted(reply, p) == ~HttpFault(reply) /\ Decodable(reply, p) /\ Clean(reply) /\ Valid(reply)

-----------------------------------------------------------------------------
(* Workers. *)
Set(i, job) == calls' = [calls EXCEPT ![i] = job]
Busy(i) == calls[i].phase \in {"started", "waiting"}
SendRequest(i) ==
  /\ calls[i].phase = "started"
  /\ Set(i, [calls[i] EXCEPT !.phase = "waiting", !.sent = TRUE])
  /\ UNCHANGED <<terms, vault, memo, editor, coach, usage, advice>>
(* The connection fails, the time is up, or the worker cannot start.       *)
WorkFails(i) ==
  /\ Busy(i)
  /\ Set(i, [calls[i] EXCEPT !.phase = "answered"])
  /\ UNCHANGED <<terms, vault, memo, editor, coach, usage, advice>>
Respond(i, reply) ==
  /\ calls[i].phase = "waiting"
  /\ LET through == calls[i].kind = "coach" /\ Accepted(reply, calls[i].provider) IN
     Set(i, [calls[i] EXCEPT !.phase = "answered", !.answer = IF through THEN {reply} ELSE {}])
  /\ UNCHANGED <<terms, vault, memo, editor, coach, usage, advice>>
(* The select loop sees the cancellation; what was sent is still billed.   *)
Cancelled(i) ==
  /\ Busy(i) /\ calls[i].held = "dropped"
  /\ Set(i, [calls[i] EXCEPT !.phase = "answered", !.held = "done", !.answer = {}])
  /\ UNCHANGED <<terms, vault, memo, editor, coach, usage, advice>>

-----------------------------------------------------------------------------
(* The table. *)
AtTable == ~editor.open
AskCoach(bytes) ==
  /\ AtTable /\ coach \in Providers /\ CurrentCalls("coach") = {}
  /\ \E found \in Resolved(coach) :
       /\ memo' = Remembered(coach, found)
       /\ IF found.key # NoKey /\ found.key.sound /\ bytes <= BodyLimit /\ Affordable(bytes)
          THEN Begin("coach", coach, found.key, bytes) ELSE UNCHANGED <<usage, calls>>
  /\ UNCHANGED <<terms, vault, editor, coach, advice>>
(* The next decision: an unanswered request goes to the background.        *)
RetireCoach ==
  /\ AtTable
  /\ \E i \in CurrentCalls("coach") : Set(i, [calls[i] EXCEPT !.held = "retired"])
  /\ UNCHANGED <<terms, vault, memo, editor, coach, usage, advice>>
Poll(i) ==
  /\ calls[i].phase = "answered" /\ calls[i].held \in {"current", "retired"}
  /\ Set(i, [calls[i] EXCEPT !.held = "done", !.answer = {}])
  /\ advice' = calls[i].answer
  /\ UNCHANGED <<terms, vault, memo, editor, coach, usage>>

-----------------------------------------------------------------------------
(* The settings editor: keys of apply_api_key_field, the provider, the key test and Save. *)
Editing == editor.open /\ editor.edits < MaxEdits
Edit(changed) == editor' = [changed EXCEPT !.edits = @ + 1]
Plain == [open |-> FALSE, mode |-> "Local", typed |-> NoKey, forget |-> FALSE, test |-> FALSE, edits |-> 0]
EditSettings ==
  /\ AtTable /\ editor.edits < MaxEdits
  /\ editor' = [Plain EXCEPT !.open = TRUE, !.mode = coach, !.edits = editor.edits]
  /\ UNCHANGED <<terms, vault, memo, coach, usage, calls, advice>>
LeaveEditor ==
  /\ editor.open
  /\ editor' = [editor EXCEPT !.open = FALSE]
  /\ calls' = DroppedAll(calls, {"test"})
  /\ UNCHANGED <<terms, vault, memo, coach, usage, advice>>
TypeKey(sound) ==
  /\ Editing
  /\ Edit([editor EXCEPT !.typed = ApiKey(editor.mode, sound), !.forget = FALSE])
  /\ memo' = NoMemo
  /\ UNCHANGED <<terms, vault, coach, usage, calls, advice>>
(* A switch that keeps what was typed for the provider before. *)
SwitchedKeepingKey == [editor EXCEPT !.mode = NextMode[@], !.forget = FALSE, !.test = FALSE]
(* switch_provider *)
Switched == [editor EXCEPT !.mode = NextMode[@], !.typed = NoKey, !.forget = FALSE, !.test = FALSE]
SwitchProvider ==
  /\ Editing /\ Edit(Switched)
  /\ memo' = NoMemo /\ calls' = DroppedAll(calls, {"test"})
  /\ UNCHANGED <<terms, vault, coach, usage, advice>>
ForgetStored ==
  /\ Editing /\ memo' = NoMemo
  /\ IF editor.forget /\ editor.mode \in Providers
     THEN \/ /\ vault' \in Deleted(editor.mode)
             /\ Edit([editor EXCEPT !.typed = NoKey, !.mode = "Local", !.forget = FALSE])
          \/ Edit([editor EXCEPT !.forget = FALSE]) /\ UNCHANGED vault
     ELSE Edit([editor EXCEPT !.forget = ~@]) /\ UNCHANGED vault
  /\ UNCHANGED <<terms, coach, usage, calls, advice>>
TestApiKey(bytes) ==
  /\ Editing
  /\ IF ~editor.test THEN Edit([editor EXCEPT !.test = TRUE]) /\ UNCHANGED <<memo, usage, calls>>
     ELSE /\ CurrentCalls("test") = {}
          /\ Edit([editor EXCEPT !.test = FALSE])
          /\ IF editor.mode = "Local" THEN UNCHANGED <<memo, usage, calls>>
             ELSE \E found \in IF editor.typed = NoKey THEN Resolved(editor.mode) ELSE {Found(editor.typed)} :
                    /\ memo' = IF editor.typed = NoKey THEN Remembered(editor.mode, found) ELSE memo
                    /\ IF found.key # NoKey /\ found.key.sound /\ Affordable(bytes)
                       THEN Begin("test", editor.mode, found.key, bytes) ELSE UNCHANGED <<usage, calls>>
  /\ UNCHANGED <<terms, vault, coach, advice>>
Save ==
  /\ Editing
  /\ LET changed == editor.typed # NoKey \/ editor.mode # coach
         stays == Edit(editor) /\ UNCHANGED <<vault, coach, calls>>
     IN  /\ memo' = CASE ~changed -> memo
                      [] changed /\ editor.mode = "Local" -> NoMemo
                      [] OTHER -> [memo EXCEPT ![editor.mode] = Unasked]
         /\ \/ stays
            \/ /\ editor.typed # NoKey => editor.mode \in Providers
               /\ vault' \in IF editor.typed = NoKey THEN {vault} ELSE Written(editor.mode, editor.typed)
               /\ coach' = editor.mode /\ Edit([editor EXCEPT !.open = FALSE])
               /\ calls' = IF editor.mode = coach THEN calls ELSE DroppedAll(calls, {"coach"})
  /\ UNCHANGED <<terms, usage, advice>>

-----------------------------------------------------------------------------
CloudInit ==
  /\ \E c \in Computers :
       terms = [budget |-> c.budget, mac |-> c.mac, legal |-> c.legal,
                env |-> [p \in Providers |-> IF p \in c.env THEN ApiKey(p, TRUE) ELSE NoKey]]
  /\ coach = "Openai"
  /\ vault = [p \in Providers |-> [protected |-> NoKey,
                                   login |-> IF p = coach THEN ApiKey(p, TRUE) ELSE NoKey]]
  /\ memo = NoMemo /\ editor = Plain /\ calls = <<>> /\ advice = {}
  /\ usage = [requests |-> 0, reserved |-> 0]

CloudNext ==
  \/ \E i \in DOMAIN calls : SendRequest(i) \/ WorkFails(i) \/ Cancelled(i) \/ Poll(i)
  \/ \E i \in DOMAIN calls, reply \in ProviderReplies : Respond(i, reply)
  \/ \E bytes \in Bodies : AskCoach(bytes)
  \/ RetireCoach \/ EditSettings \/ LeaveEditor \/ SwitchProvider \/ ForgetStored \/ Save
  \/ \E sound \in BOOLEAN : TypeKey(sound)
  \/ TestApiKey(1)

CloudSpec == CloudInit /\ [][CloudNext]_cloudVars

-----------------------------------------------------------------------------
(* A key is only ever sent to the provider it was entered for; what was    *)
(* sent can cost no more than was reserved, nor that than the budget; and  *)
(* a review that is let through holds no key, speaks of its own decision   *)
(* and names an action the player had.                                     *)
CloudWithinTerms ==
  /\ \A i \in DOMAIN calls : calls[i].key.for = calls[i].provider
  /\ SumFunction([i \in DOMAIN calls |-> Bill(calls[i])]) <= usage.reserved
  /\ terms.budget # 0 => usage.reserved <= terms.budget
  /\ \A p \in Providers : \A k \in {vault[p].login, vault[p].protected} : k # NoKey => k.for = p
  /\ \A reply \in advice : reply.leak = "no" /\ reply.echo /\ Possible(reply.alternative)
=============================================================================
