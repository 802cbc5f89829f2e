---------------------------- MODULE Qualification ----------------------------
(***************************************************************************)
(* From the questions to the salesperson, for real-estate clients:          *)
(* configuration versions are compiled, published and activated; a          *)
(* conversation keeps the version it began with and goes through its        *)
(* questions; its answers are scored and the lead is routed, while          *)
(* operators change the staff and who is eligible for the project.          *)
(*                                                                          *)
(* A conversation is of a number, a session of a lead: a form of the same   *)
(* number gives the conversation to another lead where it stands.  Which    *)
(* question comes next depends on the answer: a payment plan other than     *)
(* installments passes over what comes before the timeline.                 *)
(*                                                                          *)
(* The statement that finds the candidates locks their rows one by one.     *)
(* What it evaluates again when it had to wait is the row, with active;     *)
(* the project's set and the loads are those of its snapshot.               *)
(***************************************************************************)
EXTENDS Integers, Sequences, FiniteSets, FiniteSetsExt

CONSTANTS
  Numbers, Leads, Nobody,
  Number,           \* the number each lead gives
  Questions,
  Worth,            \* points of the answers to each; answers are told apart by them
  Permission,       \* the question with save key q_permission,
  Plan,             \* q_payment_plan, with its answer
  Installments,
  Timeline,         \* and the one at stage asking_timeline
  Sheets,           \* bound: what the source may hold: questions of the client and default ones
  Ranking,          \* the staff in the order of priority_rank, name
  Fit,              \* points of a salesperson for a lead, load left out
  Capacity,         \* salespeople.capacity_limit
  Staff,            \* bound: the staff to begin with, eligible for the project
  Requests, Wanted, \* setProjectSalespeople: its input, in order
  MaxEdits          \* bound: changes of the staff and of the active version

Scopes == {"client", "default"}
People == {Ranking[i] : i \in 1 .. Len(Ranking)}
Points == UNION {Worth[q] : q \in Questions}
Stages == {"none", "paused", "qualified"}

ASSUME QualificationAssumption ==
  /\ Nobody \notin People \cup Leads /\ IsFiniteSet(Leads)
  /\ Number \in [Leads -> Numbers]
  /\ Questions \cap Stages = {} /\ {Permission, Plan, Timeline} \subseteq Questions /\ Plan # Permission
  /\ Worth \in [Questions -> SUBSET Nat]
  /\ Sheets \subseteq [Scopes -> Seq(Questions)]
  /\ Ranking \in Seq(People) /\ Staff \subseteq People
  /\ Fit \in [Leads \X People -> Int] /\ Capacity \in [People -> Nat]
  /\ Wanted \in [Requests -> Seq(People)]
  /\ MaxEdits \in Nat

\* version_key is a hash of what was compiled: the version is its contents.
Versions == [scope : Scopes, questions : Seq(Questions)]
NoVersion == [scope |-> "none", questions |-> <<>>]

VARIABLES
  published,        \* configuration.versions
  current,          \* configuration.active_versions
  pinned, about,    \* edge_conversations: config_version, lead_id,
  asks, said,       \* current_question_key or a stage without one, answers_json
  session, stamp,   \* qualification_sessions: status, configuration_version_id
  answers,          \* qualification_answers, normalized_value by its points
  score, owner,     \* leads.lead_score; lead_assignments
  hired, active,    \* app.salespeople, those with active
  eligible,         \* app.salesperson_projects, of the project the leads ask for
  turn, reply,      \* the conversation's last turn, and the points of the answer it has
  todo, got, seen,  \* the candidates it has still to lock, those it has, the loads it saw
  request,          \* a set request
  removed, held,    \* the rows it has deleted, and how many of its own it has inserted
  edits

config_vars == <<published, current>>
talk_vars == <<pinned, about, asks, said>>
lead_vars == <<session, stamp, answers, score, owner>>
staff_vars == <<hired, active>>
turn_vars == <<turn, reply, todo, got, seen>>
request_vars == <<eligible, request, removed, held>>
vars == <<config_vars, talk_vars, lead_vars, staff_vars, turn_vars, request_vars, edits>>

QualificationTypeOK ==
  /\ published \subseteq Versions
  /\ current \in [Scopes -> Versions \cup {NoVersion}]
  /\ pinned \in [Numbers -> Versions \cup {NoVersion}] /\ about \in [Numbers -> Leads \cup {Nobody}]
  /\ asks \in [Numbers -> Questions \cup Stages]
  /\ \A n \in Numbers : DOMAIN said[n] \subseteq Questions
  /\ session \in [Leads -> {"none", "in_progress", "completed"}]
  /\ stamp \in [Leads -> Versions \cup {NoVersion}]
  /\ \A l \in Leads : DOMAIN answers[l] \subseteq Questions
  /\ score \in [Leads -> 0 .. 100] /\ owner \in [Leads -> People \cup {Nobody}]
  /\ active \subseteq hired /\ hired \subseteq People /\ eligible \subseteq People
  /\ turn \in [Numbers -> {"idle", "choosing", "over"}]
  /\ request \in [Requests -> {"ready", "locked", "done", "refused"}]
  /\ removed \in [Requests -> SUBSET People] /\ held \in [Requests -> Nat] /\ edits \in 0 .. MaxEdits

NoAnswers == [q \in {} |-> 0]
Load(p) == Cardinality({l \in Leads : owner[l] = p})

Init ==
  /\ published = {} /\ current = [s \in Scopes |-> NoVersion]
  /\ pinned = [n \in Numbers |-> NoVersion] /\ about = [n \in Numbers |-> Nobody]
  /\ asks = [n \in Numbers |-> "none"] /\ said = [n \in Numbers |-> NoAnswers]
  /\ session = [l \in Leads |-> "none"] /\ stamp = [l \in Leads |-> NoVersion]
  /\ answers = [l \in Leads |-> NoAnswers]
  /\ score = [l \in Leads |-> 0] /\ owner = [l \in Leads |-> Nobody]
  /\ hired = Staff /\ active = Staff /\ eligible = Staff
  /\ turn = [n \in Numbers |-> "idle"] /\ reply = [n \in Numbers |-> 0]
  /\ todo = [n \in Numbers |-> <<>>] /\ got = [n \in Numbers |-> {}]
  /\ seen = [n \in Numbers |-> [p \in People |-> 0]]
  /\ request = [r \in Requests |-> "ready"]
  /\ removed = [r \in Requests |-> {}] /\ held = [r \in Requests |-> 0]
  /\ edits = 0

Edits == edits < MaxEdits /\ edits' = edits + 1

-----------------------------------------------------------------------------
(* Configuration. *)

\* compileConfig: the client's own questions, or else the default ones.
Compile(scope, sheet) ==
  [scope |-> scope,
   questions |-> IF scope = "client" /\ sheet["client"] # <<>> THEN sheet["client"] ELSE sheet["default"]]

\* publishCompiled: a version that exists already is made the active one again.
Publish(scope, sheet) ==
  LET v == Compile(scope, sheet)
  IN /\ Edits /\ v.questions # <<>>
     /\ published' = published \cup {v}
     /\ current' = [current EXCEPT ![scope] = v]
     /\ UNCHANGED <<talk_vars, lead_vars, staff_vars, turn_vars, request_vars>>

\* activateVersion: any published version, for the scope it is asked for.
ActivateVersion(v, scope) ==
  /\ Edits /\ v \in published
  /\ current' = [current EXCEPT ![scope] = v]
  /\ UNCHANGED <<published, talk_vars, lead_vars, staff_vars, turn_vars, request_vars>>

\* getActiveSnapshot: the client's version, or the default one.
ActiveSnapshot == IF current["client"] # NoVersion THEN current["client"] ELSE current["default"]

-----------------------------------------------------------------------------
(* The conversation. *)

\* The first form, or message, pins the version and has the first question asked; without
\* an active version there is no conversation yet.
Activate(l) ==
  LET n == Number[l]
  IN /\ pinned[n] = NoVersion /\ ActiveSnapshot # NoVersion
     /\ pinned' = [pinned EXCEPT ![n] = ActiveSnapshot]
     /\ about' = [about EXCEPT ![n] = l]
     /\ asks' = [asks EXCEPT ![n] = Head(ActiveSnapshot.questions)]
     /\ UNCHANGED <<config_vars, said, lead_vars, staff_vars, turn_vars, request_vars, edits>>

\* Another form of the number: the conversation becomes that of its lead and stands where
\* it stood.
Reassign(l) ==
  LET n == Number[l]
  IN /\ pinned[n] # NoVersion /\ about[n] # l /\ turn[n] # "choosing" /\ ActiveSnapshot # NoVersion
     /\ about' = [about EXCEPT ![n] = l]
     /\ UNCHANGED <<config_vars, pinned, asks, said, lead_vars, staff_vars, turn_vars, request_vars, edits>>

Asked(v) == {v.questions[i] : i \in 1 .. Len(v.questions)}
Index(v, q) == Min({i \in 1 .. Len(v.questions) : v.questions[i] = q})
Skips(q, points) == q = Plan /\ points # Installments

\* nextQuestionAfter: that of the timeline after any plan but installments, if there is
\* one, else the one that follows.
Following(v, q, points) ==
  IF Skips(q, points) THEN IF Timeline \in Asked(v) THEN Timeline ELSE "none"
  ELSE IF q \in Asked(v) /\ Index(v, q) < Len(v.questions) THEN v.questions[Index(v, q) + 1] ELSE "none"

\* Mistake: a turn goes through the questions of the version that is active.
NextOfActive(n, points) == Following(ActiveSnapshot, asks[n], points)

NextQuestion(n, points) == Following(pinned[n], asks[n], points)

With(given, q, points) == [k \in DOMAIN given \cup {q} |-> IF k = q THEN points ELSE given[k]]

\* The conversation keeps the answer, unless it is a permission; the lead's session gets
\* it, the one in progress or a new one (persistQualificationEvents).
SaveAnswer(n, points) ==
  LET l == about[n]
  IN /\ said' = IF asks[n] = Permission THEN said
                ELSE [said EXCEPT ![n] = With(@, asks[n], points)]
     /\ answers' = [answers EXCEPT ![l] = With(@, asks[n], points)]
     /\ stamp' = [stamp EXCEPT ![l] = IF session[l] = "none" THEN pinned[n] ELSE @]

\* A turn with an answer that another question follows.
Answer(n, points) ==
  /\ asks[n] \in Questions /\ turn[n] = "idle" /\ points \in Worth[asks[n]]
  /\ NextQuestion(n, points) # "none"
  /\ SaveAnswer(n, points)
  /\ session' = [session EXCEPT ![about[n]] = "in_progress"]
  /\ asks' = [asks EXCEPT ![n] = NextQuestion(n, points)]
  /\ UNCHANGED <<config_vars, pinned, about, score, owner, staff_vars, turn_vars, request_vars, edits>>

\* The permission is declined: nothing is saved, and no question asked any more.
Pause(n) ==
  /\ asks[n] = Permission /\ turn[n] = "idle"
  /\ asks' = [asks EXCEPT ![n] = "paused"]
  /\ UNCHANGED <<config_vars, pinned, about, said, lead_vars, staff_vars, turn_vars, request_vars, edits>>

\* scoreRealEstateLead: a base, the points of the answers, and those of a lead that is
\* qualified; 100 at the most.
Score(given, qualified) ==
  LET points == FoldSet(LAMBDA q, sum : sum + given[q], 0, DOMAIN given)
  IN Min({100, 10 + points + IF qualified THEN 5 ELSE 0})

-----------------------------------------------------------------------------
(* Routing. *)

\* Those whose row a transaction has locked, FOR UPDATE and, by a foreign key, FOR KEY SHARE.
Choosing(p) == {n \in Numbers : p \in got[n]}
Inserting(p) == {r \in Requests : \E i \in 1 .. held[r] : Wanted[r][i] = p}

\* A turn with an answer that no question follows begins: the lead is locked, the session
\* completed, and the statement that finds the candidates takes its snapshot.
Complete(n, points) ==
  /\ asks[n] \in Questions /\ turn[n] = "idle" /\ points \in Worth[asks[n]]
  /\ NextQuestion(n, points) = "none"
  /\ turn' = [turn EXCEPT ![n] = "choosing"]
  /\ reply' = [reply EXCEPT ![n] = points]
  /\ todo' = [todo EXCEPT ![n] = SelectSeq(Ranking, LAMBDA p : p \in eligible \cap active)]
  /\ seen' = [seen EXCEPT ![n] = [p \in People |-> Load(p)]]
  /\ UNCHANGED <<config_vars, talk_vars, lead_vars, staff_vars, got, request_vars, edits>>

\* Mistake: the candidates' rows are read and not locked.
TakeUnlocked(n) ==
  /\ turn[n] = "choosing" /\ todo[n] # <<>>
  /\ todo' = [todo EXCEPT ![n] = Tail(@)]
  /\ got' = [got EXCEPT ![n] = @ \cup {Head(todo[n])}]
  /\ UNCHANGED <<config_vars, talk_vars, lead_vars, staff_vars, turn, reply, seen, request_vars, edits>>

\* The next candidate's row is free: it is locked, if it is active still.
Take(n) ==
  LET p == Head(todo[n])
  IN /\ turn[n] = "choosing" /\ todo[n] # <<>>
     /\ Choosing(p) = {} /\ Inserting(p) = {}
     /\ todo' = [todo EXCEPT ![n] = Tail(@)]
     /\ got' = [got EXCEPT ![n] = IF p \in active THEN @ \cup {p} ELSE @]
     /\ UNCHANGED <<config_vars, talk_vars, lead_vars, staff_vars, turn, reply, seen, request_vars, edits>>

Rank(p) == CHOOSE i \in 1 .. Len(Ranking) : Ranking[i] = p

\* routeRealEstateLead: the best that has room, or when all are full the least loaded.
Routed(n) ==
  LET points(p) == Fit[<<about[n], p>>] - Rank(p) - 10 * seen[n][p]
      better(p, q) == points(p) > points(q) \/ (points(p) = points(q) /\ Rank(p) <= Rank(q))
      roomy == {p \in got[n] : seen[n][p] < Capacity[p]}
      lighter(p, q) == seen[n][p] < seen[n][q] \/ (seen[n][p] = seen[n][q] /\ better(p, q))
  IN CASE roomy # {} -> CHOOSE p \in roomy : \A q \in roomy : better(p, q)
       [] roomy = {} /\ got[n] # {} -> CHOOSE p \in got[n] : \A q \in got[n] : lighter(p, q)
       [] OTHER -> Nobody

EndTurn(n, outcome) ==
  /\ turn' = [turn EXCEPT ![n] = outcome]
  /\ reply' = [reply EXCEPT ![n] = 0]
  /\ todo' = [todo EXCEPT ![n] = <<>>] /\ got' = [got EXCEPT ![n] = {}]
  /\ seen' = [seen EXCEPT ![n] = [p \in People |-> 0]]

\* scoreLead, with the answers of the whole conversation, and routeLead; the turn commits.
Route(n) ==
  /\ turn[n] = "choosing" /\ todo[n] = <<>>
  /\ SaveAnswer(n, reply[n])
  /\ session' = [session EXCEPT ![about[n]] = "completed"]
  /\ score' = [score EXCEPT ![about[n]] = Score(said'[n], TRUE)]
  /\ owner' = [owner EXCEPT ![about[n]] = Routed(n)]
  /\ asks' = [asks EXCEPT ![n] = "qualified"]
  /\ EndTurn(n, "over")
  /\ UNCHANGED <<config_vars, pinned, about, staff_vars, request_vars, edits>>

-----------------------------------------------------------------------------
(* The directory. *)

\* createSalesperson.
Hire(p) ==
  /\ Edits /\ p \notin hired
  /\ hired' = hired \cup {p} /\ active' = active \cup {p}
  /\ UNCHANGED <<config_vars, talk_vars, lead_vars, turn_vars, request_vars>>

\* updateSalesperson: waits for a turn that has locked the row.
SetActive(p) ==
  /\ Edits /\ p \in hired /\ Choosing(p) = {}
  /\ active' = IF p \in active THEN active \ {p} ELSE active \cup {p}
  /\ UNCHANGED <<config_vars, talk_vars, lead_vars, hired, turn_vars, request_vars>>

WantedSet(r) == {Wanted[r][i] : i \in 1 .. Len(Wanted[r])}

\* The staff is looked for, and the rows there are are deleted.
Replaces(r) ==
  IF WantedSet(r) \subseteq hired
  THEN /\ request' = [request EXCEPT ![r] = "locked"]
       /\ removed' = [removed EXCEPT ![r] = eligible]
  ELSE /\ request' = [request EXCEPT ![r] = "refused"]
       /\ UNCHANGED removed

\* Mistake: the project's row is not locked.
LockNothing(r) ==
  /\ request[r] = "ready"
  /\ Replaces(r)
  /\ UNCHANGED <<config_vars, talk_vars, lead_vars, staff_vars, turn_vars, eligible, held, edits>>

\* setProjectSalespeople: one request at a time has the project.
LockProject(r) ==
  /\ request[r] = "ready" /\ \A other \in Requests : request[other] # "locked"
  /\ Replaces(r)
  /\ UNCHANGED <<config_vars, talk_vars, lead_vars, staff_vars, turn_vars, eligible, held, edits>>

\* The next row is inserted once the salesperson's is free of FOR UPDATE.
InsertRow(r) ==
  /\ request[r] = "locked" /\ held[r] < Len(Wanted[r])
  /\ Choosing(Wanted[r][held[r] + 1]) = {}
  /\ held' = [held EXCEPT ![r] = @ + 1]
  /\ UNCHANGED <<config_vars, talk_vars, lead_vars, staff_vars, turn_vars, eligible, request, removed, edits>>

EndRequest(r, outcome) ==
  /\ request' = [request EXCEPT ![r] = outcome]
  /\ removed' = [removed EXCEPT ![r] = {}]
  /\ held' = [held EXCEPT ![r] = 0]

SetProjectSalespeople(r) ==
  /\ request[r] = "locked" /\ held[r] = Len(Wanted[r])
  /\ eligible' = (eligible \ removed[r]) \cup WantedSet(r)
  /\ EndRequest(r, "done")
  /\ UNCHANGED <<config_vars, talk_vars, lead_vars, staff_vars, turn_vars, edits>>

\* The turn wants a row that the request holds, the request one that the turn holds.
Cycle(n, r) ==
  /\ todo[n] # <<>> /\ r \in Inserting(Head(todo[n]))
  /\ held[r] < Len(Wanted[r]) /\ Wanted[r][held[r] + 1] \in got[n]

\* Mistake: a turn that was aborted is taken for one that is over.
VictimForgotten(n) ==
  /\ \E r \in Requests : Cycle(n, r)
  /\ EndTurn(n, "over")
  /\ UNCHANGED <<config_vars, talk_vars, lead_vars, staff_vars, request_vars, edits>>

\* One is aborted: the turn comes again, the operator gets an error.
VictimTurn(n) ==
  /\ \E r \in Requests : Cycle(n, r)
  /\ EndTurn(n, "idle")
  /\ UNCHANGED <<config_vars, talk_vars, lead_vars, staff_vars, request_vars, edits>>

VictimRequest(r) ==
  /\ \E n \in Numbers : Cycle(n, r)
  /\ EndRequest(r, "refused")
  /\ UNCHANGED <<config_vars, talk_vars, lead_vars, staff_vars, turn_vars, eligible, edits>>

-----------------------------------------------------------------------------

TalkStep(n) ==
  \/ Pause(n) \/ Take(n) \/ Route(n) \/ VictimTurn(n)
  \/ \E points \in Points : Answer(n, points) \/ Complete(n, points)

FormStep(l) == Activate(l) \/ Reassign(l)

DirectoryStep ==
  \/ \E p \in People : Hire(p) \/ SetActive(p)
  \/ \E r \in Requests : LockProject(r) \/ InsertRow(r) \/ SetProjectSalespeople(r) \/ VictimRequest(r)

ConfigStep ==
  \E scope \in Scopes :
    \/ \E sheet \in Sheets : Publish(scope, sheet)
    \/ \E v \in published : ActivateVersion(v, scope)

Next ==
  \/ \E n \in Numbers : TalkStep(n)
  \/ \E l \in Leads : FormStep(l)
  \/ DirectoryStep \/ ConfigStep

Spec == Init /\ [][Next]_vars

\* A turn or a request that has begun goes on; PostgreSQL breaks a cycle; the inbox
\* brings the turn that was aborted again, and requests come to an end.
Fairness ==
  /\ \A n \in Numbers :
       /\ WF_vars(\E points \in Points : Complete(n, points))
       /\ SF_vars(Take(n) \/ Route(n))
       /\ WF_vars(VictimTurn(n) \/ \E r \in Requests : Cycle(n, r) /\ VictimRequest(r))
  /\ \A r \in Requests : SF_vars(InsertRow(r) \/ SetProjectSalespeople(r))

FairSpec == Spec /\ Fairness

-----------------------------------------------------------------------------

\* Who is eligible for the project is a set that somebody chose as a whole, never part of
\* one or of two (setProjectSalespeople: "a half-applied change would silently narrow
\* who can receive a lead").
WholeSets == [][eligible' # eligible => \E r \in Requests : eligible' = WantedSet(r)]_vars

\* A lead is not given to somebody who is deactivated by then, in whatever order the
\* turn that chooses and the operator come (routeLead, FOR UPDATE OF sp).
NoLeadForTheAbsent == [][\A l \in Leads : owner'[l] # owner[l] => owner'[l] \in active]_vars

\* The questions that a plan passes over.
Passed(v, given) ==
  {q \in Asked(v) :
     /\ Plan \in Asked(v) \cap DOMAIN given /\ Skips(Plan, given[Plan])
     /\ Index(v, Plan) < Index(v, q)
     /\ Timeline \in Asked(v) => Index(v, q) < Index(v, Timeline)}

\* A lead that is qualified has gone through the questions of one version, that of the
\* conversation, whatever is published meanwhile and whichever lead the conversation was
\* about: each is answered, but the permission's and those the plan passes over; every
\* answer is in the session of a lead of the number, and all of them count in the score.
QualifiedAsPinned ==
  \A l \in Leads : session[l] = "completed" =>
    LET n == Number[l]
        v == stamp[l]
    IN /\ v = pinned[n] /\ DOMAIN said[n] \subseteq Asked(v)
       /\ Asked(v) \subseteq DOMAIN said[n] \cup Passed(v, said[n]) \cup {Permission}
       /\ \A q \in DOMAIN said[n] : \E k \in Leads : Number[k] = n /\ q \in DOMAIN answers[k]
       /\ score[l] = Score(said[n], TRUE)

\* A conversation whose last answer has come gets its lead qualified and routed, though the
\* turn waits for operators, they for it, and PostgreSQL may abort it
\* (RuntimeInboxRepository.retry).
LeadsAreRouted == \A n \in Numbers : turn[n] = "choosing" ~> asks[n] = "qualified"
=============================================================================
