------------------------ MODULE ProductAccess_proof ------------------------
(***************************************************************************)
(* For every set of accounts, requests, records, shares, configurations    *)
(* and plans: what is handed out is within the present rights of the one   *)
(* who asks, a share keeps its record, what must be audited is, and a      *)
(* cleared session is forgotten.  SoundIn is what a request relies on by   *)
(* itself, Quiet what a clearing relies on of the others.                  *)
(***************************************************************************)
EXTENDS ProductAccess, TLAPS

Profile == {NoRights} \cup {e[a] : e \in Environments, a \in Accounts}
RecordSet == [state : {"kept"}, owner : Accounts, plan : Answers]
             \cup [state : {"free", "gone"}, owner : {"nobody"}, plan : {NoPlan}]
ShareSet == [state : {"live"}, query : QueryIds] \cup [state : {"free", "gone"}, query : {"none"}]
Steps == {"idle", "ask", "save", "insert", "load", "select", "delete", "audit", "respond"}
Kinds == {"none", "query", "drill", "view", "history", "export", "share", "shared", "clear",
          "delete"}
Request == [pc : Steps, how : Kinds, who : Accounts \cup {"nobody"}, rights : Profile,
            queries : SUBSET QueryIds, session : Accounts \cup {"nobody"},
            plan : Answers \cup {NoPlan}, out : SUBSET Handed, audited : BOOLEAN, raced : BOOLEAN]

\* What may be handed to the one who asks.
Fits(h, x) ==
    \/ h.masked
    \/ /\ Allowed(h.plan, x.rights)
       /\ x.rights.role = "viewer" => Range(h.plan.metrics) \cap Sensitive = {}
       /\ h.owner = x.who \/ x.how = "shared"

\* Which steps a kind of request takes.
Routed(x) ==
    /\ x.pc \in {"ask", "save"} => x.how \in {"query", "drill"}
    /\ x.pc = "insert" => x.how = "share"
    /\ x.pc = "load" => x.how = "shared"
    /\ x.pc \in {"select", "delete"} => x.how = "delete" /\ ~x.audited
    /\ x.how \in Clearings => x.pc \in {"select", "delete", "audit", "respond"}
    /\ x.pc = "respond" /\ x.how \in Recorded => x.audited

SoundIn(x, e) ==
    /\ x \in Request
    /\ x.pc # "idle" => x.who \in Accounts /\ x.rights = e[x.who]
    /\ x.pc = "save" => x.plan \in Answers /\ Allowed(x.plan, x.rights)
    /\ \A h \in x.out : Fits(h, x)
    /\ Routed(x)

\* What the administrator who clears a session relies on.
Quiet(x) ==
    x.how \in Clearings /\ ~x.raced =>
        /\ x.session \notin context
        /\ ~Working(x.session)
        /\ x.pc = "audit" \/ x.audited => KeptOf(x.session) = {}

Typed ==
    /\ env \in Environments
    /\ tokens \in [Accounts -> Profile]
    /\ \A a \in Accounts : tokens[a] \in {NoRights, env[a]}
    /\ context \subseteq Accounts
    /\ records \in [QueryIds -> RecordSet]
    /\ shares \in [ShareIds -> ShareSet]
    /\ requests \in [Requests -> Request]

IInv ==
    /\ Typed
    /\ \A r \in Requests : SoundIn(requests[r], env)
    /\ \A r \in Requests : Quiet(requests[r])
    /\ NoOrphanShare

-----------------------------------------------------------------------------
\* Plans and what is shown of a record

\* A drill's plan is about the metrics and organizations of its source.
LEMMA DrillOf ==
  ASSUME NEW p \in Answers
  PROVE  /\ DrillPlan(p) \in Answers
         /\ DrillPlan(p).metrics = p.metrics /\ DrillPlan(p).orgs = p.orgs
         /\ DrillPlan(p).op = "time_drill" /\ DrillPlan(p).scope = "selected"
         /\ DrillPlan(p).flags = {}
  BY PlansAssumption DEF Answers, DrillPlan

\* Who may see a record may drill it: the drill spans no more than its source.
LEMMA DrillAllowed ==
  ASSUME NEW p \in Answers, NEW u, Allowed(p, u), Len(p.orgs) = 1
  PROVE  Allowed(DrillPlan(p), u)
<1>1. p.orgs # <<>>
  OBVIOUS
<1>2. ~SpansProvince(DrillPlan(p))
  BY DrillOf DEF SpansProvince, CrossOrganizationOperations
<1> QED
  BY <1>1, <1>2, DrillOf DEF Allowed, Authorized

\* A kept record has an owner and the plan of an answer.
LEMMA KeptRecord ==
  ASSUME Typed, NEW q \in Kept
  PROVE  q \in QueryIds /\ records[q].owner \in Accounts /\ records[q].plan \in Answers
  BY DEF Typed, Kept, RecordSet

LEMMA ShownOf ==
  ASSUME Typed, NEW queries \in SUBSET Kept, NEW u, NEW h \in Shown(queries, u)
  PROVE  /\ h \in Handed
         /\ \E q \in queries : /\ h.owner = records[q].owner /\ h.plan = records[q].plan
                               /\ Masked(records[q].plan, u) => h.masked
<1>1. PICK q \in queries : h = [owner |-> records[q].owner, plan |-> records[q].plan,
                                masked |-> Masked(records[q].plan, u)]
  BY DEF Shown
<1>2. Masked(records[q].plan, u) \in BOOLEAN
  BY DEF Masked, IsAdmin
<1>3. h.owner = records[q].owner /\ h.plan = records[q].plan /\ h.masked = Masked(records[q].plan, u)
  BY <1>1
<1>4. h \in Handed
  BY <1>1, <1>2, KeptRecord DEF Handed
<1> QED
  BY <1>3, <1>4

\* Records that the one who asks may see are shown as they may be.
LEMMA ShownFits ==
  ASSUME Typed, NEW x, NEW queries \in SUBSET Kept,
         \A q \in queries :
             \/ IsAdmin(x.rights)
             \/ /\ Allowed(records[q].plan, x.rights)
                /\ records[q].owner = x.who \/ x.how = "shared",
         NEW h \in Shown(queries, x.rights)
  PROVE  Fits(h, x)
<1>1. PICK q \in queries : /\ h.owner = records[q].owner /\ h.plan = records[q].plan
                           /\ Masked(records[q].plan, x.rights) => h.masked
  BY ShownOf
<1>2. CASE Masked(records[q].plan, x.rights)
  BY <1>1, <1>2 DEF Fits
<1>3. CASE ~Masked(records[q].plan, x.rights)
  BY <1>1, <1>3 DEF Fits, Masked
<1> QED
  BY <1>2, <1>3

-----------------------------------------------------------------------------
\* How requests change

\* That a clearing finds out that it was overtaken is nobody else's concern.
LEMMA Raced ==
  ASSUME NEW x, NEW e, SoundIn(x, e), NEW v \in BOOLEAN
  PROVE  LET y == [x EXCEPT !.raced = v]
         IN /\ SoundIn(y, e)
            /\ y.pc = x.pc /\ y.how = x.how /\ y.who = x.who
            /\ y.session = x.session /\ y.audited = x.audited /\ y.raced = v
<1> DEFINE y == [x EXCEPT !.raced = v]
<1>1. x \in Request
  BY DEF SoundIn
<1>2. /\ y \in Request /\ y.pc = x.pc /\ y.how = x.how /\ y.who = x.who
      /\ y.session = x.session /\ y.audited = x.audited /\ y.raced = v
      /\ y.rights = x.rights /\ y.plan = x.plan /\ y.out = x.out
  BY <1>1 DEF Request
<1> HIDE DEF y
<1>3. SoundIn(y, e)
  BY <1>2 DEF SoundIn, Fits, Routed
<1> QED
  BY <1>2, <1>3 DEF y

\* A request that starts takes its place; the others only learn of it.
LEMMA Started ==
  ASSUME IInv, NEW r \in Requests, NEW request, SoundIn(request, env), Start(r, request)
  PROVE  /\ requests' \in [Requests -> Request]
         /\ \A x \in Requests : SoundIn(requests'[x], env)
         /\ requests'[r] = request
         /\ \A x \in Requests \ {r} :
              /\ requests'[x].pc = requests[x].pc /\ requests'[x].how = requests[x].how
              /\ requests'[x].who = requests[x].who
              /\ requests'[x].session = requests[x].session
              /\ requests'[x].audited = requests[x].audited
              /\ ~requests'[x].raced => ~requests[x].raced
              /\ ~requests'[x].raced /\ request.pc \in Works => requests[x].session # request.who
<1> DEFINE v(x) == requests[x].raced \/ (request.pc \in Works /\ requests[x].session = request.who)
<1>1. requests' = [x \in Requests |-> IF x = r THEN request ELSE [requests[x] EXCEPT !.raced = v(x)]]
  BY DEF Start
<1>2. request \in Request
  BY DEF SoundIn
<1>3. ASSUME NEW x \in Requests \ {r}
      PROVE  /\ SoundIn(requests'[x], env)
             /\ requests'[x].pc = requests[x].pc /\ requests'[x].how = requests[x].how
             /\ requests'[x].who = requests[x].who
             /\ requests'[x].session = requests[x].session
             /\ requests'[x].audited = requests[x].audited
             /\ requests'[x].raced = v(x)
  <2>1. v(x) \in BOOLEAN
    OBVIOUS
  <2>2. SoundIn(requests[x], env)
    BY DEF IInv
  <2>3. requests'[x] = [requests[x] EXCEPT !.raced = v(x)]
    BY <1>1
  <2> HIDE DEF v
  <2> QED
    BY <2>1, <2>2, <2>3, Raced
<1>4. requests'[r] = request
  BY <1>1
<1>5. \A x \in Requests : SoundIn(requests'[x], env)
  BY <1>3, <1>4
<1>6. requests' \in [Requests -> Request]
  <2>1. \A x \in Requests : requests'[x] \in Request
    BY <1>5 DEF SoundIn
  <2>2. DOMAIN requests' = Requests /\ requests' = [x \in Requests |-> requests'[x]]
    BY <1>1
  <2> QED
    BY <2>1, <2>2
<1> QED
  BY <1>3, <1>4, <1>5, <1>6

\* A session that is out of memory and that nobody is at work on stays so, and
\* gets no record, unless its account starts a question or a drill.
StaysQuiet(b) ==
    b \notin context /\ ~Working(b) =>
        b \notin context' /\ ~Working(b)' /\ KeptOf(b)' \subseteq KeptOf(b)

LEMMA StartStaysQuiet ==
  ASSUME IInv, NEW r \in Requests, NEW request, SoundIn(request, env), Start(r, request),
         context' \subseteq context, UNCHANGED records,
         NEW b, request.pc \in Works => request.who # b
  PROVE  StaysQuiet(b)
<1>1. KeptOf(b)' = KeptOf(b)
  BY DEF KeptOf, Kept
<1>2. Working(b)' => Working(b)
  BY Started DEF Working
<1> QED
  BY <1>1, <1>2 DEF StaysQuiet

\* A request that starts leaves the clearings quiet that are under way.
LEMMA StartQuiet ==
  ASSUME IInv, NEW r \in Requests, NEW request, SoundIn(request, env), Start(r, request),
         context' \subseteq context, UNCHANGED records, Quiet(request)'
  PROVE  \A x \in Requests : Quiet(requests[x])'
<1>1. ASSUME NEW x \in Requests \ {r}
      PROVE  Quiet(requests[x])'
  <2>1. SUFFICES ASSUME (requests[x].how \in Clearings /\ ~requests[x].raced)'
                 PROVE  (/\ requests[x].session \notin context
                         /\ ~Working(requests[x].session)
                         /\ requests[x].pc = "audit" \/ requests[x].audited =>
                              KeptOf(requests[x].session) = {})'
    BY DEF Quiet
  <2>2. PICK b : b = requests[x].session
    OBVIOUS
  <2>3. /\ requests'[x].session = b /\ requests'[x].pc = requests[x].pc
        /\ requests'[x].audited = requests[x].audited /\ requests[x].how \in Clearings
        /\ ~requests[x].raced /\ (request.pc \in Works => request.who # b)
    BY <2>1, <2>2, Started
  <2>4. /\ b \notin context /\ ~Working(b)
        /\ requests[x].pc = "audit" \/ requests[x].audited => KeptOf(b) = {}
    BY <2>2, <2>3 DEF IInv, Quiet
  <2>5. StaysQuiet(b)
    BY <2>3, StartStaysQuiet
  <2> QED
    BY <2>3, <2>4, <2>5 DEF StaysQuiet, Working, KeptOf, Kept
<1>2. Quiet(requests[r])'
  BY Started
<1> QED
  BY <1>1, <1>2

\* A request that takes a step leaves the clearings quiet that are under way: only
\* one that is at work on its session gives it a focus or a record.
LEMMA MoveStaysQuiet ==
  ASSUME NEW r \in Requests,
         \A x \in Requests \ {r} : requests'[x] = requests[x],
         requests'[r].pc \in Works => requests[r].pc \in Works /\ requests'[r].who = requests[r].who,
         \A c \in context' : c \in context \/ (requests[r].pc \in Works /\ c = requests[r].who),
         \A q \in Kept' : \/ q \in Kept /\ records'[q].owner = records[q].owner
                          \/ requests[r].pc \in Works /\ records'[q].owner = requests[r].who,
         NEW b
  PROVE  StaysQuiet(b)
<1>1. SUFFICES ASSUME b \notin context, ~Working(b)
               PROVE  b \notin context' /\ ~Working(b)' /\ KeptOf(b)' \subseteq KeptOf(b)
  BY DEF StaysQuiet
<1>2. ~(requests[r].pc \in Works /\ requests[r].who = b)
  BY <1>1 DEF Working
<1>3. b \notin context'
  BY <1>1, <1>2
<1>4. ~Working(b)'
  BY <1>1, <1>2 DEF Working
<1>5. KeptOf(b)' \subseteq KeptOf(b)
  BY <1>2 DEF KeptOf
<1> QED
  BY <1>3, <1>4, <1>5

LEMMA MoveQuiet ==
  ASSUME IInv, NEW r \in Requests,
         \A x \in Requests \ {r} : requests'[x] = requests[x],
         \A b : StaysQuiet(b),
         Quiet(requests[r])'
  PROVE  \A x \in Requests : Quiet(requests[x])'
<1>1. ASSUME NEW x \in Requests \ {r}
      PROVE  Quiet(requests[x])'
  <2>1. requests'[x] = requests[x]
    OBVIOUS
  <2>2. PICK b : b = requests[x].session
    OBVIOUS
  <2>3. StaysQuiet(b) /\ Quiet(requests[x])
    BY DEF IInv
  <2> QED
    BY <2>1, <2>2, <2>3 DEF Quiet, StaysQuiet, Working, KeptOf, Kept
<1> QED
  BY <1>1

\* The step of a request is sound when what becomes of it is.
LEMMA Moved ==
  ASSUME IInv, NEW r \in Requests, NEW y, SoundIn(y, env), requests' = [requests EXCEPT ![r] = y]
  PROVE  /\ requests' \in [Requests -> Request]
         /\ \A x \in Requests : SoundIn(requests'[x], env)
         /\ requests'[r] = y
         /\ \A x \in Requests \ {r} : requests'[x] = requests[x]
  BY DEF IInv, Typed, SoundIn

\* A step that changes nothing but requests.
LEMMA OnlyRequests ==
  ASSUME IInv, UNCHANGED <<login, context, records, shares>>,
         requests' \in [Requests -> Request],
         \A x \in Requests : SoundIn(requests'[x], env),
         \A x \in Requests : Quiet(requests[x])'
  PROVE  IInv'
<1>1. Typed'
  BY DEF IInv, Typed, login
<1>2. NoOrphanShare'
  BY DEF IInv, NoOrphanShare, Kept
<1>3. \A x \in Requests : SoundIn(requests[x], env)'
  BY DEF login, SoundIn
<1> QED
  BY <1>1, <1>2, <1>3 DEF IInv

LEMMA StartOnly ==
  ASSUME IInv, NEW r \in Requests, NEW request, SoundIn(request, env), request.how \notin Clearings,
         Start(r, request), UNCHANGED <<login, context, records, shares>>
  PROVE  IInv'
<1>1. Quiet(request)'
  BY DEF Quiet
<1>2. /\ requests' \in [Requests -> Request]
      /\ \A x \in Requests : SoundIn(requests'[x], env)
  BY Started
<1>3. \A x \in Requests : Quiet(requests[x])'
  BY <1>1, StartQuiet
<1> QED
  BY <1>2, <1>3, OnlyRequests

\* A free place among the requests is sound.
LEMMA IdleSound == \A e : SoundIn(Idle, e)
<1>1. Idle \in Request
  <2>1. NoRights \in Profile
    BY DEF Profile
  <2> QED
    BY <2>1 DEF Idle, Request, Steps, Kinds
<1>2. Idle.pc = "idle" /\ Idle.how = "none" /\ Idle.out = {}
  BY DEF Idle
<1> QED
  BY <1>1, <1>2 DEF SoundIn, Routed, Clearings

\* A request that begins has the present rights of its account.
LEMMA BegunIs ==
  ASSUME IInv, NEW a \in Accounts, tokens[a] # NoRights, NEW how \in Kinds, NEW pc \in Steps,
         NEW x, x = Begun(a, how, pc)
  PROVE  /\ x \in Request /\ x.pc = pc /\ x.how = how /\ x.who = a
         /\ x.rights = env[a] /\ x.rights = tokens[a] /\ x.queries = {}
         /\ x.session = "nobody" /\ x.plan = NoPlan /\ x.out = {}
         /\ ~x.audited /\ ~x.raced
<1>1. tokens[a] = env[a] /\ tokens[a] \in Profile
  BY DEF IInv, Typed
<1>2. Idle \in Request
  BY IdleSound DEF SoundIn
<1> QED
  BY <1>1, <1>2 DEF Begun, Idle, Request

-----------------------------------------------------------------------------
\* Requests that start

LEMMA AskStep ==
  ASSUME IInv, NEW r \in Requests, NEW a \in Accounts, AskQuestion(r, a)
  PROVE  IInv'
<1> PICK x : x = Begun(a, "query", "ask")
  OBVIOUS
<1>1. Start(r, x) /\ UNCHANGED <<login, context, records, shares>> /\ x.who = a
  BY DEF AskQuestion, Begun, Idle
<1>2. tokens[a] # NoRights
  BY <1>1 DEF Start
<1>3. /\ x \in Request /\ x.pc = "ask" /\ x.how = "query" /\ x.who = a
      /\ x.rights = env[a] /\ x.out = {}
  BY <1>2, BegunIs DEF Steps, Kinds
<1>4. SoundIn(x, env) /\ x.how \notin Clearings
  BY <1>3 DEF SoundIn, Routed, Clearings, Recorded
<1> QED
  BY <1>1, <1>4, StartOnly

LEMMA DrillStep ==
  ASSUME IInv, NEW r \in Requests, NEW a \in Accounts, NEW q \in QueryIds, TimeDrill(r, a, q)
  PROVE  IInv'
<1> PICK b : b = Begun(a, "drill", "save")
  OBVIOUS
<1> PICK p : p = records[q].plan
  OBVIOUS
<1> PICK x : x = [b EXCEPT !.plan = DrillPlan(p)]
  OBVIOUS
<1>1. Start(r, x) /\ UNCHANGED <<login, context, records, shares>> /\ x.who = a
  BY DEF TimeDrill, Begun, Idle
<1>2. tokens[a] # NoRights
  BY <1>1 DEF Start
<1>3. /\ b \in Request /\ b.pc = "save" /\ b.how = "drill" /\ b.who = a
      /\ b.rights = env[a] /\ b.rights = tokens[a] /\ b.out = {}
  BY <1>2, BegunIs DEF Steps, Kinds
<1>4. q \in Kept /\ Len(p.orgs) = 1 /\ CanQueryData(tokens[a])
      /\ (IsAdmin(tokens[a]) \/ Allowed(p, tokens[a]))
  BY DEF TimeDrill, Owned
<1>5. Allowed(p, tokens[a])
  BY <1>4 DEF CanQueryData, IsAdmin
<1>6. p \in Answers
  BY <1>4, KeptRecord DEF IInv
<1>7. DrillPlan(p) \in Answers /\ Allowed(DrillPlan(p), tokens[a])
  BY <1>4, <1>5, <1>6, DrillOf, DrillAllowed
<1>8. /\ x \in Request /\ x.pc = "save" /\ x.how = "drill" /\ x.who = a
      /\ x.rights = tokens[a] /\ x.rights = env[a] /\ x.out = {} /\ x.plan = DrillPlan(p)
  BY <1>3, <1>7 DEF Request
<1>9. SoundIn(x, env) /\ x.how \notin Clearings
  BY <1>7, <1>8 DEF SoundIn, Routed, Clearings, Recorded
<1> QED
  BY <1>1, <1>9, StartOnly

\* What a request that starts hands out at once: records that its account may see.
LEMMA ShowStep ==
  ASSUME IInv, NEW r \in Requests, NEW a \in Accounts,
         NEW how \in {"view", "history", "export"}, NEW pc \in {"audit", "respond"},
         pc = "respond" => how = "view",
         NEW queries \in SUBSET Kept,
         \A q \in queries :
             \/ IsAdmin(tokens[a])
             \/ Allowed(records[q].plan, tokens[a]) /\ records[q].owner = a,
         Start(r, [Begun(a, how, pc) EXCEPT !.out = Shown(queries, tokens[a])]),
         UNCHANGED <<login, context, records, shares>>
  PROVE  IInv'
<1> PICK b : b = Begun(a, how, pc)
  OBVIOUS
<1> PICK out : out = Shown(queries, tokens[a])
  OBVIOUS
<1> PICK x : x = [b EXCEPT !.out = out]
  OBVIOUS
<1>1. Start(r, x) /\ x.who = a
  BY DEF Begun, Idle
<1>2. tokens[a] # NoRights
  BY <1>1 DEF Start
<1>3. /\ b \in Request /\ b.pc = pc /\ b.how = how /\ b.who = a
      /\ b.rights = env[a] /\ b.rights = tokens[a]
  BY <1>2, BegunIs DEF Steps, Kinds
<1>4. Typed
  BY DEF IInv
<1>5. out \subseteq Handed
  BY <1>4, ShownOf
<1>6. /\ x \in Request /\ x.pc = pc /\ x.how = how /\ x.who = a
      /\ x.rights = tokens[a] /\ x.rights = env[a] /\ x.out = out
  BY <1>3, <1>5 DEF Request
<1>7. \A h \in out : Fits(h, x)
  BY <1>4, <1>6, ShownFits
<1>8. SoundIn(x, env) /\ x.how \notin Clearings
  BY <1>6, <1>7 DEF SoundIn, Routed, Clearings, Recorded
<1> QED
  BY <1>1, <1>8, StartOnly

LEMMA GetStep ==
  ASSUME IInv, NEW r \in Requests, NEW a \in Accounts, NEW q \in QueryIds, GetQuery(r, a, q)
  PROVE  IInv'
<1>1. q \in Kept /\ (IsAdmin(tokens[a]) \/ (Allowed(records[q].plan, tokens[a]) /\ records[q].owner = a))
  BY DEF GetQuery, Owned
<1> QED
  BY <1>1, ShowStep DEF GetQuery

LEMMA ExportStep ==
  ASSUME IInv, NEW r \in Requests, NEW a \in Accounts, NEW q \in QueryIds, ExportRecord(r, a, q)
  PROVE  IInv'
<1>1. q \in Kept /\ (IsAdmin(tokens[a]) \/ (Allowed(records[q].plan, tokens[a]) /\ records[q].owner = a))
  BY DEF ExportRecord, Owned
<1> QED
  BY <1>1, ShowStep DEF ExportRecord

LEMMA HistoryStep ==
  ASSUME IInv, NEW r \in Requests, NEW a \in Accounts, NEW how \in {"history", "view"},
         History(r, a, how)
  PROVE  IInv'
<1> DEFINE listed == IF IsAdmin(tokens[a]) THEN Kept ELSE KeptOf(a)
           queries == Visible(listed, tokens[a])
           pc == IF how = "history" THEN "audit" ELSE "respond"
<1>1. /\ queries \in SUBSET Kept
      /\ \A q \in queries : \/ IsAdmin(tokens[a])
                            \/ Allowed(records[q].plan, tokens[a]) /\ records[q].owner = a
  BY DEF Visible, KeptOf
<1>2. /\ Start(r, [Begun(a, how, pc) EXCEPT !.out = Shown(queries, tokens[a])])
      /\ UNCHANGED <<login, context, records, shares>>
  BY DEF History
<1>3. pc \in {"audit", "respond"} /\ (pc = "respond" => how = "view")
  OBVIOUS
<1> HIDE DEF listed, queries, pc
<1> QED
  BY <1>1, <1>2, <1>3, ShowStep

LEMMA BatchStep ==
  ASSUME IInv, NEW r \in Requests, NEW a \in Accounts, BatchExport(r, a)
  PROVE  IInv'
<1>1. /\ KeptOf(a) \in SUBSET Kept
      /\ \A q \in KeptOf(a) : Allowed(records[q].plan, tokens[a]) /\ records[q].owner = a
  BY DEF BatchExport, KeptOf
<1>2. /\ Start(r, [Begun(a, "export", "audit") EXCEPT !.out = Shown(KeptOf(a), tokens[a])])
      /\ UNCHANGED <<login, context, records, shares>>
  BY DEF BatchExport
<1> QED
  BY <1>1, <1>2, ShowStep

\* A request that will use a record first keeps its number.
LEMMA KeepStep ==
  ASSUME IInv, NEW r \in Requests, NEW a \in Accounts,
         NEW how, NEW pc, (how = "share" /\ pc = "insert") \/ (how = "shared" /\ pc = "load"),
         NEW q \in QueryIds,
         Start(r, [Begun(a, how, pc) EXCEPT !.queries = {q}]),
         UNCHANGED <<login, context, records, shares>>
  PROVE  IInv'
<1> PICK b : b = Begun(a, how, pc)
  OBVIOUS
<1> PICK x : x = [b EXCEPT !.queries = {q}]
  OBVIOUS
<1>1. Start(r, x) /\ x.who = a
  BY DEF Begun, Idle
<1>2. tokens[a] # NoRights
  BY <1>1 DEF Start
<1>3. /\ b \in Request /\ b.pc = pc /\ b.how = how /\ b.who = a
      /\ b.rights = env[a] /\ b.out = {}
  BY <1>2, BegunIs DEF Steps, Kinds
<1>4. /\ x \in Request /\ x.pc = pc /\ x.how = how /\ x.who = a
      /\ x.rights = env[a] /\ x.out = {}
  BY <1>3 DEF Request
<1>5. SoundIn(x, env) /\ x.how \notin Clearings
  BY <1>4 DEF SoundIn, Routed, Clearings, Recorded
<1> QED
  BY <1>1, <1>5, StartOnly

LEMMA CheckShareStep ==
  ASSUME IInv, NEW r \in Requests, NEW a \in Accounts, NEW q \in QueryIds, CheckShare(r, a, q)
  PROVE  IInv'
  BY KeepStep DEF CheckShare

LEMMA OpenShareStep ==
  ASSUME IInv, NEW r \in Requests, NEW a \in Accounts, NEW s \in ShareIds, OpenShare(r, a, s)
  PROVE  IInv'
<1>1. shares[s].query \in QueryIds
  BY DEF OpenShare, IInv, Typed, ShareSet
<1> QED
  BY <1>1, KeepStep DEF OpenShare

\* The clearing drops the focus and knows whether its account is at work.
LEMMA ClearStep ==
  ASSUME IInv, NEW r \in Requests, NEW a \in Accounts, NEW c \in Accounts, NEW d \in BOOLEAN,
         ClearMemory(r, a, c, d)
  PROVE  IInv'
<1> PICK pc : pc = IF d THEN "select" ELSE "respond"
  OBVIOUS
<1> PICK how : how = IF d THEN "delete" ELSE "clear"
  OBVIOUS
<1> PICK b : b = Begun(a, how, pc)
  OBVIOUS
<1> PICK v : v = Working(c)
  OBVIOUS
<1> PICK x : x = [b EXCEPT !.session = c, !.raced = v]
  OBVIOUS
<1>1. Start(r, x) /\ x.who = a /\ context' = context \ {c} /\ UNCHANGED <<login, records, shares>>
  BY DEF ClearMemory, Cleared, Begun, Idle
<1>2. tokens[a] # NoRights
  BY <1>1 DEF Start
<1>3. /\ b \in Request /\ b.pc = pc /\ b.how = how /\ b.who = a
      /\ b.rights = env[a] /\ b.out = {} /\ ~b.audited
  BY <1>2, BegunIs DEF Steps, Kinds
<1>4. v \in BOOLEAN
  BY DEF Working
<1>5. /\ x \in Request /\ x.pc = pc /\ x.how = how /\ x.who = a
      /\ x.rights = env[a] /\ x.out = {} /\ ~x.audited /\ x.session = c /\ x.raced = v
  <2>1. b \in Request /\ c \in Accounts /\ v \in BOOLEAN /\ x = [b EXCEPT !.session = c, !.raced = v]
    BY <1>3, <1>4
  <2>2. /\ x \in Request /\ x.pc = b.pc /\ x.how = b.how /\ x.who = b.who
        /\ x.rights = b.rights /\ x.out = b.out /\ x.audited = b.audited
        /\ x.session = c /\ x.raced = v
    BY ONLY <2>1 DEF Request
  <2> QED
    BY <1>3, <2>2
<1>6. SoundIn(x, env)
  BY <1>5 DEF SoundIn, Routed, Clearings, Recorded
<1>7. context' \subseteq context
  BY <1>1
<1>8. x.pc \notin Works
  BY <1>5 DEF Works
<1>9. Quiet(x)'
  <2>1. /\ requests'[r].pc \notin Works
        /\ \A z \in Requests \ {r} : /\ requests'[z].pc = requests[z].pc
                                    /\ requests'[z].who = requests[z].who
    BY <1>1, <1>6, <1>8, Started
  <2>2. Working(c)' => Working(c)
    BY <2>1 DEF Working
  <2> QED
    BY <1>1, <1>5, <1>8, <2>2 DEF Quiet
<1>10. \A z \in Requests : Quiet(requests[z])'
  BY <1>1, <1>6, <1>7, <1>9, StartQuiet
<1>11. /\ requests' \in [Requests -> Request]
       /\ \A z \in Requests : SoundIn(requests'[z], env)
  BY <1>1, <1>6, Started
<1>12. Typed' /\ NoOrphanShare'
  BY <1>1, <1>7, <1>11 DEF IInv, Typed, NoOrphanShare, Kept, login
<1>13. \A z \in Requests : SoundIn(requests[z], env)'
  BY <1>1, <1>11 DEF login, SoundIn
<1> QED
  BY <1>10, <1>12, <1>13 DEF IInv

-----------------------------------------------------------------------------
\* Requests that go on

\* A step of one request that is not at work afterwards and changes nothing else.
LEMMA MoveOnly ==
  ASSUME IInv, NEW r \in Requests, NEW y, SoundIn(y, env),
         requests' = [requests EXCEPT ![r] = y],
         UNCHANGED <<login, context, records, shares>>, y.pc \notin Works,
         y.how \in Clearings =>
                            /\ requests[r].how \in Clearings /\ y.session = requests[r].session
                            /\ y.raced = requests[r].raced
                            /\ y.pc = "audit" \/ y.audited =>
                                 requests[r].pc = "audit" \/ requests[r].audited
  PROVE  IInv'
<1>1. /\ requests' \in [Requests -> Request] /\ requests'[r] = y
      /\ \A x \in Requests : SoundIn(requests'[x], env)
      /\ \A x \in Requests \ {r} : requests'[x] = requests[x]
  BY Moved
<1>2. \A b : StaysQuiet(b)
  BY <1>1, MoveStaysQuiet DEF Kept
<1>3. Quiet(requests[r])'
  <2>1. Quiet(requests[r])
    BY DEF IInv
  <2>2. PICK b : b = requests[r].session
    OBVIOUS
  <2>3. StaysQuiet(b)
    BY <1>2
  <2> QED
    BY <1>1, <2>1, <2>2, <2>3 DEF Quiet, StaysQuiet, Working, KeptOf, Kept
<1>4. \A x \in Requests : Quiet(requests[x])'
  BY <1>1, <1>2, <1>3, MoveQuiet
<1> QED
  BY <1>1, <1>4, OnlyRequests

LEMMA AuditStep ==
  ASSUME IInv, NEW r \in Requests, Audit(r)
  PROVE  IInv'
<1> PICK x : x = requests[r]
  OBVIOUS
<1> PICK y : y = [x EXCEPT !.pc = "respond", !.audited = TRUE]
  OBVIOUS
<1>1. SoundIn(x, env) /\ x \in Request /\ x.pc = "audit"
  BY DEF IInv, SoundIn, Audit, At
<1>2. requests' = [requests EXCEPT ![r] = y] /\ UNCHANGED <<login, context, records, shares>>
  BY DEF Audit, IInv, Typed
<1>3. /\ y \in Request /\ y.pc = "respond" /\ y.audited /\ y.how = x.how /\ y.who = x.who
      /\ y.rights = x.rights /\ y.out = x.out /\ y.session = x.session /\ y.raced = x.raced
  BY <1>1 DEF Request, Steps
<1>4. SoundIn(y, env)
  BY <1>1, <1>3 DEF SoundIn, Fits, Routed
<1> QED
  BY <1>1, <1>2, <1>3, <1>4, MoveOnly DEF Works

LEMMA EndStep ==
  ASSUME IInv, NEW r \in Requests, End(r)
  PROVE  IInv'
<1>1. requests' = [requests EXCEPT ![r] = Idle] /\ UNCHANGED <<login, context, records, shares>>
  BY DEF End
<1>2. Idle.pc = "idle" /\ Idle.how = "none"
  BY DEF Idle
<1> QED
  BY <1>1, <1>2, IdleSound, MoveOnly DEF Works, Clearings

LEMMA LoadStep ==
  ASSUME IInv, NEW r \in Requests, LoadShared(r)
  PROVE  IInv'
<1> PICK x : x = requests[r]
  OBVIOUS
<1> PICK out : out = Shown(x.queries, x.rights)
  OBVIOUS
<1> PICK y : y = [x EXCEPT !.pc = "audit", !.out = out]
  OBVIOUS
<1>1. SoundIn(x, env) /\ x \in Request /\ x.pc = "load" /\ x.how = "shared" /\ Typed
  BY DEF IInv, SoundIn, Routed, LoadShared, At
<1>2. requests' = [requests EXCEPT ![r] = y] /\ UNCHANGED <<login, context, records, shares>>
  BY DEF LoadShared, IInv, Typed
<1>3. x.queries \in SUBSET Kept /\ \A q \in x.queries : Allowed(records[q].plan, x.rights)
  BY DEF LoadShared
<1>4. out \subseteq Handed
  BY <1>1, <1>3, ShownOf
<1>5. /\ y \in Request /\ y.pc = "audit" /\ y.how = "shared" /\ y.who = x.who
      /\ y.rights = x.rights /\ y.out = out
  BY <1>1, <1>4 DEF Request, Steps
<1>6. \A h \in out : Fits(h, x)
  BY <1>1, <1>3, ShownFits
<1>7. SoundIn(y, env)
  BY <1>1, <1>5, <1>6 DEF SoundIn, Fits, Routed
<1> QED
  BY <1>2, <1>5, <1>7, MoveOnly DEF Works, Clearings

LEMMA SelectStep ==
  ASSUME IInv, NEW r \in Requests, SelectQueries(r)
  PROVE  IInv'
<1> PICK x : x = requests[r]
  OBVIOUS
<1> PICK qs : qs = KeptOf(x.session)
  OBVIOUS
<1> PICK y : y = [x EXCEPT !.pc = "delete", !.queries = qs]
  OBVIOUS
<1>1. SoundIn(x, env) /\ x \in Request /\ x.pc = "select" /\ x.how = "delete" /\ ~x.audited
  BY DEF IInv, SoundIn, Routed, SelectQueries, At
<1>2. requests' = [requests EXCEPT ![r] = y] /\ UNCHANGED <<login, context, records, shares>>
  BY DEF SelectQueries, IInv, Typed
<1>3. qs \subseteq QueryIds
  BY DEF KeptOf, Kept
<1>4. /\ y \in Request /\ y.pc = "delete" /\ y.how = "delete" /\ y.who = x.who /\ ~y.audited
      /\ y.rights = x.rights /\ y.out = x.out /\ y.session = x.session /\ y.raced = x.raced
  BY <1>1, <1>3 DEF Request, Steps
<1>5. SoundIn(y, env)
  BY <1>1, <1>4 DEF SoundIn, Fits, Routed
<1> QED
  BY <1>1, <1>2, <1>4, <1>5, MoveOnly DEF Works

LEMMA AnswerStep ==
  ASSUME IInv, NEW r \in Requests, NEW p \in Plans, Answer(r, p)
  PROVE  IInv'
<1> PICK x : x = requests[r]
  OBVIOUS
<1> PICK y : y = [x EXCEPT !.pc = "save", !.plan = p]
  OBVIOUS
<1>1. /\ SoundIn(x, env) /\ x \in Request /\ x.pc = "ask" /\ x.how \in {"query", "drill"}
      /\ x.who \in Accounts /\ Allowed(p, x.rights) /\ p \in Answers
  BY DEF IInv, SoundIn, Routed, Answer, At, Answers
<1>2. /\ requests' = [requests EXCEPT ![r] = y] /\ context' = context \cup {x.who}
      /\ UNCHANGED <<login, records, shares>>
  BY DEF Answer, IInv, Typed
<1>3. /\ y \in Request /\ y.pc = "save" /\ y.how = x.how /\ y.who = x.who /\ y.plan = p
      /\ y.rights = x.rights /\ y.out = x.out
  BY <1>1 DEF Request, Steps
<1>4. SoundIn(y, env)
  BY <1>1, <1>3 DEF SoundIn, Fits, Routed
<1>5. /\ requests' \in [Requests -> Request] /\ requests'[r] = y
      /\ \A z \in Requests : SoundIn(requests'[z], env)
      /\ \A z \in Requests \ {r} : requests'[z] = requests[z]
  BY <1>2, <1>4, Moved
<1>6. \A b : StaysQuiet(b)
  <2>1. requests[r].pc \in Works /\ requests'[r].who = requests[r].who
    BY <1>1, <1>3, <1>5 DEF Works
  <2> QED
    BY <1>2, <1>5, <2>1, MoveStaysQuiet DEF Kept
<1>7. Quiet(requests[r])'
  BY <1>1, <1>3, <1>5 DEF Quiet, Clearings
<1>8. \A z \in Requests : Quiet(requests[z])'
  BY <1>5, <1>6, <1>7, MoveQuiet
<1>9. Typed' /\ NoOrphanShare'
  BY <1>1, <1>2, <1>5 DEF IInv, Typed, NoOrphanShare, Kept, login
<1>10. \A z \in Requests : SoundIn(requests[z], env)'
  BY <1>2, <1>5 DEF login, SoundIn
<1> QED
  BY <1>8, <1>9, <1>10 DEF IInv

LEMMA SaveStep ==
  ASSUME IInv, NEW r \in Requests, NEW q \in QueryIds, SaveQuery(r, q)
  PROVE  IInv'
<1> PICK x : x = requests[r]
  OBVIOUS
<1> PICK v : v = Masked(x.plan, x.rights)
  OBVIOUS
<1> PICK h : h = [owner |-> x.who, plan |-> x.plan, masked |-> v]
  OBVIOUS
<1> PICK y : y = [x EXCEPT !.pc = "audit", !.out = {h}]
  OBVIOUS
<1> PICK record : record = [state |-> "kept", owner |-> x.who, plan |-> x.plan]
  OBVIOUS
<1>1. /\ SoundIn(x, env) /\ x \in Request /\ x.pc = "save" /\ x.how \in {"query", "drill"}
      /\ x.who \in Accounts /\ x.plan \in Answers /\ Allowed(x.plan, x.rights)
  BY DEF IInv, SoundIn, Routed, SaveQuery, At
<1>2. /\ requests' = [requests EXCEPT ![r] = y] /\ records' = [records EXCEPT ![q] = record]
      /\ UNCHANGED <<login, context, shares>>
  BY DEF SaveQuery, IInv, Typed
<1>3. v \in BOOLEAN /\ (~v => ~(x.rights.role = "viewer" /\ Range(x.plan.metrics) \cap Sensitive # {}))
  BY DEF Masked, IsAdmin
<1>4. h \in Handed /\ h.owner = x.who /\ h.plan = x.plan /\ h.masked = v
  BY <1>1, <1>3 DEF Handed
<1>5. /\ y \in Request /\ y.pc = "audit" /\ y.how = x.how /\ y.who = x.who
      /\ y.rights = x.rights /\ y.out = {h}
  BY <1>1, <1>4 DEF Request, Steps
<1>6. SoundIn(y, env)
  BY <1>1, <1>3, <1>4, <1>5 DEF SoundIn, Fits, Routed
<1>7. /\ requests' \in [Requests -> Request] /\ requests'[r] = y
      /\ \A z \in Requests : SoundIn(requests'[z], env)
      /\ \A z \in Requests \ {r} : requests'[z] = requests[z]
  BY <1>2, <1>6, Moved
<1>8. /\ record \in RecordSet /\ record.owner = x.who
      /\ records' \in [QueryIds -> RecordSet] /\ records'[q] = record
      /\ \A z \in QueryIds \ {q} : records'[z] = records[z]
  BY <1>1, <1>2 DEF RecordSet, IInv, Typed
<1>9. \A b : StaysQuiet(b)
  <2>1. requests[r].pc \in Works /\ requests'[r].who = requests[r].who
    BY <1>1, <1>5, <1>7 DEF Works
  <2>2. \A c \in context' : c \in context
    BY <1>2
  <2>3. \A z \in Kept' : \/ z \in Kept /\ records'[z].owner = records[z].owner
                         \/ requests[r].pc \in Works /\ records'[z].owner = requests[r].who
    BY <1>8, <2>1 DEF Kept
  <2> QED
    BY <1>7, <2>1, <2>2, <2>3, MoveStaysQuiet
<1>10. Quiet(requests[r])'
  BY <1>1, <1>5, <1>7 DEF Quiet, Clearings
<1>11. \A z \in Requests : Quiet(requests[z])'
  BY <1>7, <1>9, <1>10, MoveQuiet
<1>12. Typed'
  BY <1>2, <1>7, <1>8 DEF IInv, Typed, login
<1>13. NoOrphanShare'
  <2>1. record.state = "kept"
    OBVIOUS
  <2> QED
    BY <1>2, <1>8, <2>1 DEF IInv, NoOrphanShare, Kept
<1>14. \A z \in Requests : SoundIn(requests[z], env)'
  BY <1>2, <1>7 DEF login, SoundIn
<1> QED
  BY <1>11, <1>12, <1>13, <1>14 DEF IInv

LEMMA InsertStep ==
  ASSUME IInv, NEW r \in Requests, NEW s \in ShareIds, InsertShare(r, s)
  PROVE  IInv'
<1> PICK x : x = requests[r]
  OBVIOUS
<1> PICK y : y = [x EXCEPT !.pc = "audit"]
  OBVIOUS
<1>1. SoundIn(x, env) /\ x \in Request /\ x.pc = "insert" /\ x.how = "share"
  BY DEF IInv, SoundIn, Routed, InsertShare, At
<1>2. /\ requests' = [requests EXCEPT ![r] = y] /\ UNCHANGED <<login, context, records>>
      /\ x.queries \subseteq Kept
  BY DEF InsertShare, Goto, IInv, Typed
<1>3. PICK q \in x.queries : shares' = [shares EXCEPT ![s] = [state |-> "live", query |-> q]]
  BY DEF InsertShare
<1>4. /\ y \in Request /\ y.pc = "audit" /\ y.how = "share" /\ y.who = x.who
      /\ y.rights = x.rights /\ y.out = x.out
  BY <1>1 DEF Request, Steps
<1>5. SoundIn(y, env)
  BY <1>1, <1>4 DEF SoundIn, Fits, Routed
<1>6. /\ requests' \in [Requests -> Request] /\ requests'[r] = y
      /\ \A z \in Requests : SoundIn(requests'[z], env)
      /\ \A z \in Requests \ {r} : requests'[z] = requests[z]
  BY <1>2, <1>5, Moved
<1>7. \A b : StaysQuiet(b)
  BY <1>2, <1>4, <1>6, MoveStaysQuiet DEF Kept, Works
<1>8. Quiet(requests[r])'
  BY <1>4, <1>6 DEF Quiet, Clearings
<1>9. \A z \in Requests : Quiet(requests[z])'
  BY <1>6, <1>7, <1>8, MoveQuiet
<1>10. q \in Kept /\ q \in QueryIds
  BY <1>2 DEF Kept
<1>11. shares' \in [ShareIds -> ShareSet]
  BY <1>3, <1>10 DEF IInv, Typed, ShareSet
<1>12. Typed'
  BY <1>2, <1>6, <1>11 DEF IInv, Typed, login
<1>13. NoOrphanShare'
  BY <1>2, <1>3, <1>10 DEF IInv, Typed, NoOrphanShare, Kept
<1>14. \A z \in Requests : SoundIn(requests[z], env)'
  BY <1>2, <1>6 DEF login, SoundIn
<1> QED
  BY <1>9, <1>12, <1>13, <1>14 DEF IInv

LEMMA DeleteStep ==
  ASSUME IInv, NEW r \in Requests, DeleteSession(r)
  PROVE  IInv'
<1> PICK x : x = requests[r]
  OBVIOUS
<1> PICK y : y = [x EXCEPT !.pc = "audit"]
  OBVIOUS
<1> PICK gone : gone = KeptOf(x.session)
  OBVIOUS
<1> PICK cut : cut = {s \in ShareIds : shares[s].query \in x.queries}
  OBVIOUS
<1>1. SoundIn(x, env) /\ x \in Request /\ x.pc = "delete" /\ x.how = "delete" /\ ~x.audited
  BY DEF IInv, SoundIn, Routed, DeleteSession, At
<1>2. /\ requests' = [requests EXCEPT ![r] = y] /\ UNCHANGED <<login, context>>
      /\ \A s \in ShareIds \ cut : shares[s].query \notin gone
      /\ records' = [q \in QueryIds |-> IF q \in gone THEN [NoRecord EXCEPT !.state = "gone"]
                                        ELSE records[q]]
      /\ shares' = [s \in ShareIds |-> IF s \in cut THEN [state |-> "gone", query |-> "none"]
                                       ELSE shares[s]]
  BY DEF DeleteSession, Goto, IInv, Typed
<1>3. /\ y \in Request /\ y.pc = "audit" /\ y.how = "delete" /\ y.who = x.who
      /\ y.rights = x.rights /\ y.out = x.out /\ y.session = x.session /\ y.raced = x.raced
  BY <1>1 DEF Request, Steps
<1>4. SoundIn(y, env)
  BY <1>1, <1>3 DEF SoundIn, Fits, Routed
<1>5. /\ requests' \in [Requests -> Request] /\ requests'[r] = y
      /\ \A z \in Requests : SoundIn(requests'[z], env)
      /\ \A z \in Requests \ {r} : requests'[z] = requests[z]
  BY <1>2, <1>4, Moved
<1>6. /\ records' \in [QueryIds -> RecordSet]
      /\ \A q \in gone : records'[q].state = "gone"
      /\ \A q \in QueryIds \ gone : records'[q] = records[q]
  <2>1. PICK n : n = [NoRecord EXCEPT !.state = "gone"]
    OBVIOUS
  <2>2. n \in RecordSet /\ n.state = "gone"
    BY <2>1 DEF NoRecord, RecordSet
  <2>3. records' = [q \in QueryIds |-> IF q \in gone THEN n ELSE records[q]]
    BY <1>2, <2>1
  <2>4. gone \subseteq QueryIds /\ records \in [QueryIds -> RecordSet]
    BY DEF KeptOf, Kept, IInv, Typed
  <2> QED
    BY <2>2, <2>3, <2>4
<1>7. shares' \in [ShareIds -> ShareSet]
  BY <1>2 DEF ShareSet, IInv, Typed
<1>8. Kept' = Kept \ gone
  BY <1>6 DEF Kept, KeptOf
<1>9. \A b : StaysQuiet(b)
  BY <1>2, <1>3, <1>5, <1>6, <1>8, MoveStaysQuiet DEF Kept, Works
<1>10. Quiet(requests[r])'
  <2>1. PICK b : b = x.session
    OBVIOUS
  <2>2. StaysQuiet(b) /\ Quiet(requests[r])
    BY <1>9 DEF IInv
  <2>3. KeptOf(b)' = {}
    BY <1>6, <1>8, <2>1 DEF KeptOf, Kept
  <2> QED
    BY <1>1, <1>3, <1>5, <2>1, <2>2, <2>3 DEF Quiet, StaysQuiet, Working, KeptOf, Kept
<1>11. \A z \in Requests : Quiet(requests[z])'
  BY <1>5, <1>9, <1>10, MoveQuiet
<1>12. Typed'
  BY <1>2, <1>5, <1>6, <1>7 DEF IInv, Typed, login
<1>13. NoOrphanShare'
  BY <1>2, <1>8 DEF IInv, Typed, NoOrphanShare, ShareSet
<1>14. \A z \in Requests : SoundIn(requests[z], env)'
  BY <1>2, <1>5 DEF login, SoundIn
<1> QED
  BY <1>11, <1>12, <1>13, <1>14 DEF IInv

-----------------------------------------------------------------------------
\* Logins and restarts

LEMMA LoginStep ==
  ASSUME IInv, NEW a \in Accounts, Login(a)
  PROVE  IInv'
<1>1. env[a] \in Profile
  BY DEF IInv, Typed, Profile
<1>2. Typed'
  BY <1>1 DEF Login, IInv, Typed
<1>3. NoOrphanShare' /\ \A r \in Requests : SoundIn(requests[r], env)'
  BY DEF Login, IInv, NoOrphanShare, Kept
<1>4. \A r \in Requests : Quiet(requests[r])'
  BY DEF Login, IInv, Quiet, Working, KeptOf, Kept
<1> QED
  BY <1>2, <1>3, <1>4 DEF IInv

LEMMA RestartStep ==
  ASSUME IInv, NEW e \in Environments, Restart(e)
  PROVE  IInv'
<1>1. requests' \in [Requests -> Request] /\ \A r \in Requests : requests'[r] = Idle
  BY IdleSound DEF Restart, SoundIn
<1>2. NoRights \in Profile
  BY DEF Profile
<1>3. Typed'
  BY <1>1, <1>2 DEF Restart, IInv, Typed
<1>4. \A r \in Requests : SoundIn(requests[r], env)'
  BY <1>1, IdleSound
<1>5. \A r \in Requests : Quiet(requests[r])'
  <2>1. Idle.how \notin Clearings
    BY DEF Idle, Clearings
  <2> QED
    BY <1>1, <2>1 DEF Quiet
<1>6. NoOrphanShare'
  BY DEF Restart, IInv, NoOrphanShare, Kept
<1> QED
  BY <1>3, <1>4, <1>5, <1>6 DEF IInv

-----------------------------------------------------------------------------
\* The theorems

LEMMA InitIInv == Init => IInv
<1> SUFFICES ASSUME Init PROVE IInv
  OBVIOUS
<1>1. requests \in [Requests -> Request] /\ \A r \in Requests : requests[r] = Idle
  BY IdleSound DEF Init, SoundIn
<1>2. NoRights \in Profile
  BY DEF Profile
<1>3. Typed
  <2>1. records \in [QueryIds -> RecordSet]
    BY DEF Init, NoRecord, RecordSet
  <2>2. shares \in [ShareIds -> ShareSet]
    BY DEF Init, ShareSet
  <2> QED
    BY <1>1, <1>2, <2>1, <2>2 DEF Init, Typed
<1>4. \A r \in Requests : SoundIn(requests[r], env)
  BY <1>1, IdleSound
<1>5. \A r \in Requests : Quiet(requests[r])
  <2>1. Idle.how \notin Clearings
    BY DEF Idle, Clearings
  <2> QED
    BY <1>1, <2>1 DEF Quiet
<1>6. NoOrphanShare
  BY DEF Init, NoOrphanShare
<1> QED
  BY <1>3, <1>4, <1>5, <1>6 DEF IInv

LEMMA NextIInv == IInv /\ [Next]_vars => IInv'
<1> SUFFICES ASSUME IInv, [Next]_vars PROVE IInv'
  OBVIOUS
<1>1. CASE \E r \in Requests, a \in Accounts :
        \/ AskQuestion(r, a)
        \/ \E how \in {"history", "view"} : History(r, a, how)
        \/ BatchExport(r, a)
  BY <1>1, AskStep, HistoryStep, BatchStep
<1>2. CASE \E r \in Requests, a \in Accounts, q \in QueryIds :
        TimeDrill(r, a, q) \/ GetQuery(r, a, q) \/ ExportRecord(r, a, q) \/ CheckShare(r, a, q)
  BY <1>2, DrillStep, GetStep, ExportStep, CheckShareStep
<1>3. CASE \E r \in Requests, a \in Accounts :
        \/ \E s \in ShareIds : OpenShare(r, a, s)
        \/ \E b \in Accounts, delete_history \in BOOLEAN : ClearMemory(r, a, b, delete_history)
  BY <1>3, OpenShareStep, ClearStep
<1>4. CASE \E r \in Requests :
        \/ \E p \in Plans : Answer(r, p)
        \/ \E q \in QueryIds : SaveQuery(r, q)
        \/ \E s \in ShareIds : InsertShare(r, s)
  BY <1>4, AnswerStep, SaveStep, InsertStep
<1>5. CASE \E r \in Requests :
        LoadShared(r) \/ SelectQueries(r) \/ DeleteSession(r) \/ Audit(r) \/ End(r)
  BY <1>5, LoadStep, SelectStep, DeleteStep, AuditStep, EndStep
<1>6. CASE (\E a \in Accounts : Login(a)) \/ (\E e \in Environments : Restart(e))
  BY <1>6, LoginStep, RestartStep
<1>7. CASE UNCHANGED vars
  BY <1>7 DEF IInv, Typed, NoOrphanShare, Quiet, Working, KeptOf, Kept, vars
<1> QED
  BY <1>1, <1>2, <1>3, <1>4, <1>5, <1>6, <1>7 DEF Next

\* The inductive invariant holds always.
THEOREM Inductive == Spec => []IInv
  BY InitIInv, NextIInv, PTL DEF Spec

\* Accounts, tokens, records, shares and requests are well typed, and a token
\* carries the rights of the present configuration.
THEOREM TypeCorrect == Spec => []TypeOK
<1>1. IInv => TypeOK
  BY DEF IInv, Typed, TypeOK, RecordSet, ShareSet, Request
<1> QED
  BY <1>1, Inductive, PTL

\* Whatever is about to be handed out with its values is within the present
\* rights of the one who asks.
THEOREM Entitled == Spec => []WithinRights
<1>1. IInv => WithinRights
  BY DEF IInv, SoundIn, Fits, WithinRights, At
<1> QED
  BY <1>1, Inductive, PTL

\* A live share refers to a record that is kept.
THEOREM SharesKept == Spec => []NoOrphanShare
<1>1. IInv => NoOrphanShare
  BY DEF IInv
<1> QED
  BY <1>1, Inductive, PTL

\* What the audit covers, the deletion of a session's records included, has its event
\* before its response (_audit in query, time_drill, history, clear_session).
THEOREM EventFirst == Spec => []Accounted
<1>1. IInv => Accounted
  BY DEF IInv, SoundIn, Routed, Accounted, At
<1> QED
  BY <1>1, Inductive, PTL

\* A cleared session is forgotten unless its account was at work on it.
THEOREM Forgotten == Spec => []ClearedForgets
<1>1. IInv => ClearedForgets
  <2>1. SUFFICES ASSUME IInv, NEW r \in Requests, requests[r].how \in Clearings, At(r, "respond"),
                        ~requests[r].raced
                 PROVE  /\ requests[r].session \notin context
                        /\ requests[r].how = "delete" => KeptOf(requests[r].session) = {}
    BY DEF ClearedForgets
  <2>2. requests[r].how = "delete" => requests[r].audited
    BY <2>1 DEF IInv, SoundIn, Routed, At, Recorded
  <2> QED
    BY <2>1, <2>2 DEF IInv, Quiet
<1> QED
  BY <1>1, Inductive, PTL
=============================================================================
