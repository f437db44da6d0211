--------------------------- MODULE QueryFlowProofs ---------------------------
(***************************************************************************)
(* What QueryFlow checks on a small instance, proved for any requests,     *)
(* tabs, accounts and any limit of the context.                            *)
(***************************************************************************)
EXTENDS QueryFlow, FiniteSetTheorems, TLAPS

USE DEF browser

\* Before the first commit of a request.
Early == {"unsent", "arrived", "loaded", "interpreting"}
Refusals == {"refusal", "not found"}
Success == {"answer", "clarification"}

\* A request that was let into a conversation is its owner's, or made it.
Admitted(r) ==
    req[r].place \in Serving \ {"arrived"} =>
        /\ req[r].conv \in conversations \cup {r}
        /\ req[req[r].conv].user = req[r].user

\* Nothing is stored of a request before its first commit or after a refusal.
Unwritten(r) ==
    req[r].place \in Early \/ req[r].reply \in Refusals =>
        r \notin conversations \cup executed \cup proposed

\* What the later places of a request rest on.
Progress(r) ==
    LET w == req[r] IN
    /\ w.place = "arrived" => w.conv \in conversations \cup {None}
    /\ w.place \in {"answering", "closing"} \/ w.reply \in Success =>
          w.conv \in conversations
    /\ w.place \in Serving \cup {"unsent"} => w.reply = None
    /\ w.place \in {"unsent", "arrived", "loaded"} => w.context = <<>>
    /\ w.began <= clock
    /\ w.place = "closing" => w.began < w.ended /\ w.ended <= clock

\* The exchanges a request should see are over, and of its conversation.
Heard(r) ==
    \A q \in req[r].heard :
        req[q].place = "done" /\ req[q].reply \in Success /\ req[q].conv = req[r].conv

\* m is in the context s, or s is full of messages at least as new.
Shows(s, m) ==
    \/ m \in Range(s)
    \/ Len(s) = Limit /\ \A i \in DOMAIN s : s[i].at >= m.at

\* The context is sorted, of the owner, and misses nothing it should show.
Context(r) ==
    LET s == req[r].context IN
    /\ Ordered(s)
    /\ \A m \in Range(s) : req[m.of].user = req[r].user
    /\ req[r].place \in Serving \ {"arrived", "loaded"} =>
          \A m \in messages : m.of \in req[r].heard => Shows(s, m)

\* What it has heard is older than the request itself.
Later(r) ==
    req[r].place \in Serving \ {"arrived"} =>
        \A m \in messages : m.of \in req[r].heard => m.at < req[r].began

RequestInv(r) ==
    Admitted(r) /\ Unwritten(r) /\ Progress(r) /\ Heard(r) /\ Context(r) /\ Later(r)

\* A message is of a request past its first commit, of the owner of the
\* conversation, an answer is younger than its question, and both are younger
\* than what the request had heard.
MessageInv(m) ==
    LET w == req[m.of] IN
    /\ w.place \notin Early /\ w.reply \notin Refusals
    /\ w.user = req[w.conv].user
    /\ m.role = "user" => m.at = w.began
    /\ m.role = "assistant" /\ m.of \in executed => m.at > w.began
    /\ \A n \in messages : n.of \in w.heard => n.at < m.at

IInv ==
    /\ TypeOK /\ IsFiniteSet(messages)
    /\ \A r \in Requests : RequestInv(r)
    /\ \A m \in messages : MessageInv(m)

LEMMA Consequences ==
    IInv => TypeOK /\ ConversationsArePrivate /\ RefusalsLeaveNothing
            /\ ContextTellsConversation
<1> SUFFICES ASSUME IInv
             PROVE  TypeOK /\ ConversationsArePrivate /\ RefusalsLeaveNothing
                    /\ ContextTellsConversation
    OBVIOUS
<1> USE DEF IInv
<1>1. ConversationsArePrivate
    BY DEF RequestInv, Context, MessageInv, ConversationsArePrivate
<1>2. RefusalsLeaveNothing
    BY DEF TypeOK, Messages, RequestInv, Unwritten, MessageInv, RefusalsLeaveNothing,
           Refusals
<1>3. FollowUpSeesExchange
    BY DEF RequestInv, Context, FollowUpSeesExchange, Shows
<1>4. AnswersFollowQuestions
  <2> SUFFICES ASSUME NEW r \in Requests,
                      NEW i \in DOMAIN req[r].context, NEW k \in DOMAIN req[r].context,
                      req[r].context[i].of = req[r].context[k].of,
                      req[r].context[i].of \in executed,
                      req[r].context[i].role = "user",
                      req[r].context[k].role = "assistant"
               PROVE  i < k
      BY DEF AnswersFollowQuestions
  <2> DEFINE s == req[r].context
  <2>1. s \in Seq(Messages) /\ Range(s) \subseteq messages /\ Ordered(s)
      BY DEF TypeOK, Records, RequestInv, Context
  <2>2. s[i] \in messages /\ s[k] \in messages /\ i \in Nat /\ k \in Nat
      BY <2>1 DEF Range
  <2>3. s[i].at < s[k].at
      BY <2>2 DEF MessageInv, TypeOK, Messages, Records
  <2>4. s[i].at \in Nat /\ s[k].at \in Nat
      BY <2>2 DEF TypeOK, Messages
  <2>5. ~ (k < i)
      BY <2>1, <2>3, <2>4 DEF Ordered
  <2> QED BY <2>2, <2>3, <2>4, <2>5
<1>5. ExchangesInOrder
  <2> SUFFICES ASSUME NEW r \in Requests,
                      NEW i \in DOMAIN req[r].context, NEW k \in DOMAIN req[r].context,
                      req[r].context[i].of \in req[req[r].context[k].of].heard
               PROVE  i < k
      BY DEF ExchangesInOrder
  <2> DEFINE s == req[r].context
  <2>1. s \in Seq(Messages) /\ Range(s) \subseteq messages /\ Ordered(s)
      BY DEF TypeOK, Records, RequestInv, Context
  <2>2. s[i] \in messages /\ s[k] \in messages /\ i \in Nat /\ k \in Nat
      BY <2>1 DEF Range
  <2>3. s[i].at < s[k].at /\ s[i].at \in Nat /\ s[k].at \in Nat
      BY <2>2 DEF MessageInv, TypeOK, Messages
  <2>4. ~ (k < i) /\ i # k
      BY <2>1, <2>3 DEF Ordered
  <2> QED BY <2>2, <2>4
<1> QED BY <1>1, <1>2, <1>3, <1>4, <1>5 DEF ContextTellsConversation

LEMMA InitInv == Init => IInv
<1> SUFFICES ASSUME Init PROVE IInv
    OBVIOUS
<1>1. Unsent \in Records /\ Unsent.context = <<>> /\ Range(<<>>) = {}
    BY DEF Unsent, Records, Range
<1>2. req = [r \in Requests |-> Unsent] /\ messages = {} /\ IsFiniteSet(messages)
    BY FS_EmptySet DEF Init
<1>3. TypeOK
    BY <1>1, <1>2, QueryFlowAssumption DEF Init, TypeOK
<1>4. ASSUME NEW r \in Requests PROVE RequestInv(r)
  <2>1. Admitted(r) /\ Heard(r)
      BY <1>2 DEF Admitted, Heard, Unsent, Serving
  <2>2. Unwritten(r)
      BY DEF Init, Unwritten
  <2>3. Progress(r)
    <3>1. req[r] = Unsent /\ clock = 0
        BY DEF Init
    <3>2. None \notin Success
        BY QueryFlowAssumption DEF Success, Replies
    <3> QED BY <3>1, <3>2 DEF Progress, Unsent
  <2>4. Context(r)
      BY <1>1, <1>2 DEF Context, Unsent, Serving, Ordered
  <2>5. Later(r)
      BY <1>2 DEF Later
  <2> QED BY <2>1, <2>2, <2>3, <2>4, <2>5 DEF RequestInv
<1> QED BY <1>2, <1>3, <1>4 DEF IInv

-----------------------------------------------------------------------------
\* What every step of a request r does to the others: nothing but rows of r.
Step(r) ==
    /\ \A q \in Requests \ {r} : req'[q] = req[q]
    /\ req[r].place # "done"
    /\ req[r].place \notin {"unsent", "arrived"} =>
          /\ req'[r].user = req[r].user /\ req'[r].conv = req[r].conv
          /\ req'[r].began = req[r].began /\ req'[r].heard = req[r].heard
    /\ req[r].place \notin Early => req'[r].place \notin Early
    /\ req'[r].reply \in Refusals =>
          req[r].place \in Early \/ req[r].reply = req'[r].reply
    /\ messages \subseteq messages' /\ \A m \in messages' \ messages : m.of = r
    /\ conversations \subseteq conversations' /\ conversations' \subseteq conversations \cup {r}
    /\ executed \subseteq executed' /\ executed' \subseteq executed \cup {r}
    /\ proposed' \subseteq proposed \cup {r}
    /\ executed' # executed => req[r].place \in Early
    /\ clock' \in Nat /\ clock <= clock'

LEMMA OldMessagesInv ==
    ASSUME IInv, NEW r \in Requests, Step(r), NEW m \in messages PROVE MessageInv(m)'
<1> USE DEF IInv
<1>1. m.of \in Requests /\ MessageInv(m) /\ req[m.of].conv \in conversations
      /\ req[m.of].conv \in Requests
    BY DEF TypeOK, Messages
<1>2. req[req[m.of].conv].place \notin Early
    BY <1>1 DEF RequestInv, Unwritten
<1>3. req[m.of].place \notin {"unsent", "arrived"} /\ req[req[m.of].conv].place \notin {"unsent", "arrived"}
    BY <1>1, <1>2 DEF MessageInv, Early
<1>4. req'[m.of].user = req[m.of].user /\ req'[m.of].conv = req[m.of].conv
      /\ req'[m.of].began = req[m.of].began /\ req'[m.of].heard = req[m.of].heard
      /\ req'[req[m.of].conv].user = req[req[m.of].conv].user
    BY <1>1, <1>3 DEF Step
<1>5. req'[m.of].place \notin Early /\ req'[m.of].reply \notin Refusals
    BY <1>1 DEF Step, MessageInv
<1>6. m.role = "assistant" /\ m.of \in executed' => m.of \in executed
    BY <1>1 DEF Step, MessageInv
<1>7. \A n \in messages' : n.of \in req[m.of].heard => n \in messages
    BY <1>1 DEF RequestInv, Heard, Step
<1> QED BY <1>1, <1>4, <1>5, <1>6, <1>7 DEF MessageInv

LEMMA OtherRequestsInv ==
    ASSUME IInv, NEW r \in Requests, Step(r), NEW q \in Requests \ {r}
    PROVE  RequestInv(q)'
<1> USE DEF IInv
<1>1. req'[q] = req[q] /\ RequestInv(q) /\ req[q] \in Records
    BY DEF Step, TypeOK
<1>2. Admitted(q)'
  <2>1. SUFFICES ASSUME req[q].place \in Serving \ {"arrived"}
                 PROVE  /\ req[q].conv \in conversations' \cup {q}
                        /\ req'[req[q].conv].user = req[q].user
      BY <1>1 DEF Admitted
  <2>2. CASE req[q].conv = q
      BY <1>1, <2>1, <2>2 DEF RequestInv, Admitted
  <2>3. CASE req[q].conv \in conversations
    <3>1. req[q].conv \in Requests /\ req[req[q].conv].place \notin Early
        BY <2>3 DEF TypeOK, RequestInv, Unwritten
    <3>2. req'[req[q].conv].user = req[req[q].conv].user
        BY <3>1 DEF Step, Early
    <3> QED BY <1>1, <2>1, <2>3, <3>2 DEF RequestInv, Admitted, Step
  <2> QED BY <1>1, <2>1, <2>2, <2>3 DEF RequestInv, Admitted
<1>3. Unwritten(q)'
    BY <1>1 DEF RequestInv, Unwritten, Step
<1>4. Progress(q)'
    BY <1>1 DEF RequestInv, Progress, Step, Records, TypeOK
<1>5. Heard(q)'
  <2>1. \A h \in req[q].heard : h \in Requests /\ h # r
      BY <1>1 DEF RequestInv, Heard, Step, Records
  <2> QED BY <1>1, <2>1 DEF RequestInv, Heard, Step
<1>6. Context(q)'
  <2>1. \A m \in Range(req[q].context) : req'[m.of].user = req[m.of].user
    <3>1. SUFFICES ASSUME NEW m \in Range(req[q].context)
                   PROVE  req'[m.of].user = req[m.of].user
        OBVIOUS
    <3>2. m \in messages /\ m.of \in Requests
        BY <3>1 DEF TypeOK, Messages
    <3> QED BY <3>2 DEF MessageInv, Step, Early
  <2>2. \A m \in messages' : m.of \in req[q].heard => m \in messages
      BY <1>1 DEF RequestInv, Heard, Step
  <2> QED BY <1>1, <2>1, <2>2 DEF RequestInv, Context
<1>7. Later(q)'
  <2>1. \A m \in messages' : m.of \in req[q].heard => m \in messages
      BY <1>1 DEF RequestInv, Heard, Step
  <2> QED BY <1>1, <2>1 DEF RequestInv, Later
<1> QED BY <1>2, <1>3, <1>4, <1>5, <1>6, <1>7 DEF RequestInv

\* A step keeps the invariant if it keeps the types, and what it says of r
\* and of the messages it adds.
LEMMA StepInv ==
    ASSUME IInv, NEW r \in Requests, Step(r), TypeOK', IsFiniteSet(messages'),
           RequestInv(r)', \A m \in messages' \ messages : MessageInv(m)'
    PROVE  IInv'
<1>1. \A m \in messages' : MessageInv(m)'
    BY OldMessagesInv
<1>2. \A q \in Requests : RequestInv(q)'
    BY OtherRequestsInv
<1> QED BY <1>1, <1>2 DEF IInv

LEMMA StepTypes ==
    ASSUME IInv, NEW r \in Requests, Step(r), account' \in Users,
           req' \in [Requests -> Records], messages' \subseteq Messages,
           stored' \in [Tabs -> conversations' \cup {None}],
           awaited' \in [Tabs -> Requests \cup {None}],
           faults' \in 0 .. MaxFaults, proposed' \subseteq executed',
           Range(req'[r].context) \subseteq messages',
           \A m \in messages' \ messages :
               req'[m.of].conv \in conversations' /\ m.at <= clock'
    PROVE  TypeOK'
<1> USE DEF IInv
<1>1. conversations' \subseteq Requests /\ executed' \subseteq Requests
    BY DEF Step, TypeOK
<1>2. \A q \in Requests : Range(req'[q].context) \subseteq messages'
    BY DEF Step, TypeOK
<1>3. \A m \in messages : req'[m.of].conv \in conversations' /\ m.at <= clock'
  <2>1. SUFFICES ASSUME NEW m \in messages
                 PROVE  req'[m.of].conv \in conversations' /\ m.at <= clock'
      OBVIOUS
  <2>2. /\ m.of \in Requests /\ req[m.of].place \notin Early /\ m.at \in Nat
        /\ req[m.of].conv \in conversations /\ m.at <= clock /\ clock \in Nat
      BY DEF TypeOK, Messages, MessageInv
  <2>3. req'[m.of].conv = req[m.of].conv
      BY <2>2 DEF Step, Early
  <2> QED BY <2>2, <2>3 DEF Step
<1> QED BY <1>1, <1>2, <1>3 DEF TypeOK, Step

\* A step that stores no row.
LEMMA QuietInv ==
    ASSUME IInv, NEW r \in Requests, NEW w \in Records, Set(r, w), UNCHANGED rows,
           clock' \in Nat, clock <= clock', account' \in Users,
           stored' \in [Tabs -> conversations \cup {None}],
           awaited' \in [Tabs -> Requests \cup {None}], faults' \in 0 .. MaxFaults,
           req[r].place # "done",
           req[r].place \notin {"unsent", "arrived"} =>
               /\ w.user = req[r].user /\ w.conv = req[r].conv
               /\ w.began = req[r].began /\ w.heard = req[r].heard,
           req[r].place \notin Early => w.place \notin Early,
           w.reply \in Refusals => req[r].place \in Early \/ req[r].reply = w.reply,
           Range(w.context) \subseteq messages, RequestInv(r)'
    PROVE  IInv'
<1>1. /\ req' \in [Requests -> Records] /\ req'[r] = w
      /\ \A q \in Requests \ {r} : req'[q] = req[q]
    BY DEF IInv, TypeOK, Set
<1>2. Step(r)
    BY <1>1 DEF Step, rows
<1>3. TypeOK'
    BY <1>1, <1>2, StepTypes DEF rows, IInv, TypeOK
<1> QED BY <1>2, <1>3, StepInv DEF rows, IInv

LEMMA SendInv ==
    ASSUME IInv, NEW t \in Tabs, NEW r \in Requests, Send(t, r) PROVE IInv'
<1> USE DEF IInv
<1> DEFINE heard == {q \in Answered : req[q].conv = stored[t]}
           w == [Unsent EXCEPT !.place = "arrived", !.user = account,
                     !.conv = stored[t], !.heard = heard]
<1>1. /\ Set(r, w) /\ UNCHANGED <<account, stored, rows, clock, faults>>
      /\ awaited' = [awaited EXCEPT ![t] = r]
      /\ req[r].place = "unsent" /\ stored[t] \in conversations \cup {None}
    BY DEF Send, TypeOK
<1>2. /\ w \in Records /\ w.place = "arrived" /\ w.reply = None /\ w.context = <<>>
      /\ w.began = 0 /\ w.conv = stored[t] /\ w.heard = heard
  <2>1. heard \in SUBSET Requests /\ account \in Users /\ conversations \subseteq Requests
      BY DEF Answered, TypeOK
  <2> HIDE DEF heard
  <2>2. <<>> \in Seq(Messages)
      OBVIOUS
  <2> QED BY <1>1, <2>1, <2>2 DEF Unsent, Records, Serving
<1> HIDE DEF w
<1>3. req'[r] = w /\ \A q \in Requests \ {r} : req'[q] = req[q]
    BY <1>1 DEF Set, TypeOK
<1>4. Admitted(r)' /\ Progress(r)'
  <2>0. None \notin Success /\ clock \in Nat
      BY QueryFlowAssumption DEF Success, Replies, TypeOK
  <2>1. None \notin Success /\ 0 <= clock
      BY <2>0
  <2>2. clock' = clock /\ conversations' = conversations
      BY <1>1 DEF rows
  <2>3. Admitted(r)'
      BY <1>2, <1>3 DEF Admitted
  <2>4. req'[r] = w /\ w.conv \in conversations \cup {None}
      BY <1>1, <1>2, <1>3
  <2>5. Progress(r)'
      BY <1>2, <2>1, <2>2, <2>4 DEF Progress
  <2> QED BY <2>3, <2>5
<1>5. Unwritten(r)'
    BY <1>1 DEF RequestInv, Unwritten, Early, rows
<1>6. Heard(r)'
    BY <1>1, <1>2, <1>3 DEF Heard, Answered, Success
<1>7. Context(r)'
    BY <1>2, <1>3 DEF Context, Ordered, Range
<1>8. RequestInv(r)'
  <2>1. Later(r)'
      BY <1>2, <1>3 DEF Later
  <2> QED BY <1>4, <1>5, <1>6, <1>7, <2>1 DEF RequestInv
<1>9. Range(w.context) \subseteq messages
    BY <1>2 DEF Range
<1>10. /\ req[r].place # "done" /\ req[r].place \in Early /\ w.reply \notin Refusals
       /\ clock' \in Nat /\ clock <= clock' /\ account' \in Users
       /\ stored' \in [Tabs -> conversations \cup {None}] /\ faults' \in 0 .. MaxFaults
       /\ awaited' \in [Tabs -> Requests \cup {None}]
  <2>1. w.reply \notin Refusals
      BY <1>2, QueryFlowAssumption DEF Refusals, Replies
  <2>2. clock' = clock /\ account' = account /\ stored' = stored /\ faults' = faults
      BY <1>1
  <2>3. clock <= clock
      BY DEF TypeOK
  <2>4. awaited' \in [Tabs -> Requests \cup {None}]
      BY <1>1 DEF TypeOK
  <2> QED BY <1>1, <2>1, <2>2, <2>3, <2>4 DEF TypeOK, Early
<1> QED BY <1>1, <1>2, <1>8, <1>9, <1>10, QuietInv

\* A request that is answered, or whose answer reaches its tab.
LEMMA LeaveInv ==
    ASSUME IInv, NEW r \in Requests, NEW w \in Records, Set(r, w),
           UNCHANGED <<account, rows, clock>>, faults' \in 0 .. MaxFaults,
           stored' \in [Tabs -> conversations \cup {None}],
           awaited' \in [Tabs -> Requests \cup {None}],
           req[r].place \notin {"unsent", "done"}, w.place \in {"replying", "done"},
           w.reply \in Refusals =>
               req[r].place \in Early \/ req[r].reply = w.reply,
           w.reply \in Success => req[r].reply = w.reply,
           w.context = req[r].context, w.heard = req[r].heard,
           w.user = req[r].user, w.conv = req[r].conv, w.began = req[r].began,
           w.began <= clock
    PROVE  IInv'
<1> USE DEF IInv
<1>1. req'[r] = w /\ \A q \in Requests \ {r} : req'[q] = req[q]
    BY DEF Set, TypeOK
<1>2. /\ RequestInv(r) /\ messages' = messages /\ conversations' = conversations
      /\ executed' = executed /\ proposed' = proposed /\ clock' = clock
    BY DEF rows
<1>3. Admitted(r)'
    BY <1>1 DEF Admitted, Serving
<1>4. Unwritten(r)'
    BY <1>1, <1>2 DEF RequestInv, Unwritten, Early
<1>5. Progress(r)'
    BY <1>1, <1>2 DEF RequestInv, Progress, Serving
<1>6. Heard(r)'
  <2>1. \A q \in req[r].heard : q \in Requests \ {r}
      BY <1>2 DEF RequestInv, Heard, TypeOK, Records
  <2> QED BY <1>1, <1>2, <2>1 DEF RequestInv, Heard
<1>7. Context(r)'
  <2>1. \A m \in Range(w.context) : req'[m.of].user = req[m.of].user
    <3>1. \A m \in Range(w.context) : m.of \in Requests
        BY DEF TypeOK, Messages
    <3> QED BY <1>1, <3>1
  <2> QED BY <1>1, <1>2, <2>1 DEF RequestInv, Context, Serving
<1>8. RequestInv(r)'
  <2>1. Later(r)'
      BY <1>1 DEF Later, Serving
  <2> QED BY <1>3, <1>4, <1>5, <1>6, <1>7, <2>1 DEF RequestInv
<1>9. clock \in Nat /\ clock <= clock /\ account' \in Users
      /\ Range(w.context) \subseteq messages
    BY DEF TypeOK
<1> QED BY <1>2, <1>8, <1>9, QuietInv DEF Early

LEMMA RefuseInv ==
    ASSUME IInv, NEW r \in Requests, Refuse(r) PROVE IInv'
<1> DEFINE w == [req[r] EXCEPT !.place = "replying", !.reply = "refusal"]
<1>1. /\ req[r] \in Records /\ req[r].place = "interpreting" /\ Set(r, w)
      /\ UNCHANGED <<browser, rows, clock, faults>> /\ req[r].began <= clock
    BY DEF IInv, TypeOK, Refuse, Reply, RequestInv, Progress
<1>2. /\ w \in Records /\ w.place = "replying" /\ w.reply = "refusal"
      /\ w.context = req[r].context /\ w.heard = req[r].heard
      /\ w.user = req[r].user /\ w.conv = req[r].conv /\ w.began = req[r].began
    BY <1>1 DEF Records, Replies
<1> HIDE DEF w
<1> QED BY <1>1, <1>2, LeaveInv DEF IInv, TypeOK, Success, Early

LEMMA FailInv ==
    ASSUME IInv, NEW r \in Requests, Fail(r) PROVE IInv'
<1> DEFINE w == [req[r] EXCEPT !.place = "replying", !.reply = "error"]
<1>1. /\ req[r] \in Records /\ req[r].place \in Serving /\ Set(r, w)
      /\ UNCHANGED <<browser, rows, clock>>
    BY DEF IInv, TypeOK, Fail, Reply
<1>2. faults' \in 0 .. MaxFaults
    BY QueryFlowAssumption DEF IInv, TypeOK, Fail, Fault
<1>3. /\ w \in Records /\ w.place = "replying" /\ w.reply = "error"
      /\ w.context = req[r].context /\ w.heard = req[r].heard
      /\ w.user = req[r].user /\ w.conv = req[r].conv /\ w.began = req[r].began
    BY <1>1 DEF Records, Replies
<1> HIDE DEF w
<1> QED BY <1>1, <1>2, <1>3, LeaveInv
        DEF IInv, TypeOK, Success, Refusals, Serving, RequestInv, Progress

LEMMA ReceiveInv ==
    ASSUME IInv, NEW t \in Tabs, Receive(t) PROVE IInv'
<1> DEFINE r == awaited[t]
           w == [req[r] EXCEPT !.place = "done"]
<1>1. /\ r \in Requests /\ req[r] \in Records /\ req[r].place = "replying" /\ Set(r, w)
      /\ UNCHANGED <<account, rows, clock, faults>> /\ req[r].began <= clock
    BY DEF IInv, TypeOK, Receive, Loading, Goto, RequestInv, Progress
<1>2. stored' \in [Tabs -> conversations \cup {None}]
    BY <1>1 DEF IInv, TypeOK, Receive, Keeps, RequestInv, Progress, Success
<1>3. awaited' \in [Tabs -> Requests \cup {None}]
    BY DEF IInv, TypeOK, Receive
<1>4. /\ w \in Records /\ w.place = "done" /\ w.reply = req[r].reply
      /\ w.context = req[r].context /\ w.heard = req[r].heard
      /\ w.user = req[r].user /\ w.conv = req[r].conv /\ w.began = req[r].began
    BY <1>1 DEF Records
<1> HIDE DEF w, r
<1> QED BY <1>1, <1>2, <1>3, <1>4, LeaveInv DEF IInv, TypeOK

-----------------------------------------------------------------------------
\* The request enters a conversation of its user, or its own.
LEMMA LoadInv ==
    ASSUME IInv, NEW r \in Requests, Load(r) PROVE IInv'
<1> USE DEF IInv
<1>1. /\ req[r] \in Records /\ req[r].place = "arrived" /\ RequestInv(r)
      /\ UNCHANGED <<browser, rows, faults>>
      /\ clock \in Nat /\ clock' = clock + 1 /\ account \in Users
      /\ stored \in [Tabs -> conversations \cup {None}] /\ faults \in 0 .. MaxFaults
      /\ awaited \in [Tabs -> Requests \cup {None}]
      /\ conversations \subseteq Requests /\ req[r].context = <<>> /\ req[r].began <= clock
      /\ req[r].reply = None
    BY DEF TypeOK, Load, RequestInv, Progress, Serving
<1>2. None \notin Success /\ None \notin Refusals /\ None \notin Requests
    BY QueryFlowAssumption DEF Success, Refusals, Replies
<1>3. ASSUME NEW w \in Records, Set(r, w), w.context = <<>>, w.heard = req[r].heard,
             w.user = req[r].user,
             \/ /\ w.place = "loaded" /\ w.reply = None /\ w.began = clock + 1
                /\ w.conv = IF req[r].conv = None THEN r ELSE req[r].conv
                /\ req[r].conv = None \/ Owned(req[r].conv, req[r].user)
             \/ /\ w.place = "replying" /\ w.reply = "not found"
                /\ w.conv = req[r].conv /\ w.began = req[r].began
      PROVE  IInv'
  <2>1. req'[r] = w /\ \A q \in Requests \ {r} : req'[q] = req[q]
      BY <1>3 DEF Set, TypeOK
  <2>2. messages' = messages /\ conversations' = conversations
        /\ executed' = executed /\ proposed' = proposed
      BY <1>1 DEF rows
  <2>11. w.context = <<>> /\ w.heard = req[r].heard
      BY <1>3
  <2>12. w.place \in {"loaded", "replying"} /\ w.reply \in {None, "not found"}
        /\ (w.place = "loaded" => w.reply = None)
      BY <1>3
  <2>3. Admitted(r)'
    <3>1. CASE w.place = "loaded"
      <4>1. CASE w.conv = r
          BY <2>1, <4>1 DEF Admitted
      <4>2. CASE w.conv # r
        <5>1. /\ w.conv \in conversations /\ w.conv \in Requests \ {r}
              /\ req[w.conv].user = w.user
            BY <1>1, <1>3, <3>1, <4>2 DEF Owned
        <5> QED BY <2>1, <2>2, <5>1 DEF Admitted
      <4> QED BY <4>1, <4>2
    <3>2. CASE w.place = "replying"
        BY <2>1, <3>2 DEF Admitted, Serving
    <3> QED BY <1>3, <3>1, <3>2
  <2>4. Unwritten(r)'
      BY <1>1, <2>2 DEF RequestInv, Unwritten, Early
  <2>5. Progress(r)'
    <3>1. w.began <= clock'
      <4>1. w.began = clock + 1 \/ w.began = req[r].began
          BY <1>3
      <4>2. req[r].began \in Nat
          BY <1>1 DEF Records
      <4> QED BY <1>1, <4>1, <4>2
    <3>3. w.reply \notin Success
        BY <1>2, <2>12 DEF Success
    <3> QED BY <2>1, <2>11, <2>12, <3>1, <3>3 DEF Progress, Serving
  <2>6. Heard(r)'
    <3>1. \A q \in req[r].heard : q \in Requests \ {r} /\ req[q].conv \in conversations
        BY <1>1 DEF RequestInv, Heard, Progress, Records
    <3>2. req[r].heard # {} => w.conv = req[r].conv
      <4>1. req[r].heard # {} => req[r].conv # None
          BY <1>1, <1>2, <3>1 DEF RequestInv, Heard
      <4>2. w.conv = req[r].conv \/ req[r].conv = None
          BY <1>3
      <4> QED BY <4>1, <4>2
    <3> QED BY <1>1, <2>1, <2>11, <3>1, <3>2 DEF RequestInv, Heard
  <2>7. Context(r)'
    <3>1. Ordered(w.context) /\ Range(w.context) = {}
        BY <2>11 DEF Ordered, Range
    <3>2. w.place \notin Serving \ {"arrived", "loaded"}
        BY <2>12 DEF Serving
    <3> QED BY <2>1, <3>1, <3>2 DEF Context
  <2>13. Later(r)'
    <3>1. w.place = "loaded" => \A m \in messages : m.at < w.began
        BY <1>1, <1>2, <1>3 DEF TypeOK, Messages
    <3> QED BY <2>1, <2>2, <2>12, <3>1 DEF Later, Serving
  <2>8. RequestInv(r)'
      BY <2>3, <2>4, <2>5, <2>6, <2>7, <2>13 DEF RequestInv
  <2>9. Range(w.context) \subseteq messages
      BY <2>11 DEF Range
  <2>10. clock' \in Nat /\ clock <= clock'
      BY <1>1
  <2> QED BY <1>1, <1>3, <2>8, <2>9, <2>10, QuietInv DEF Early
<1>4. CASE req[r].conv = None \/ Owned(req[r].conv, req[r].user)
  <2> DEFINE conv == IF req[r].conv = None THEN r ELSE req[r].conv
             w == [req[r] EXCEPT !.place = "loaded", !.began = clock + 1, !.conv = conv]
  <2>1. Set(r, w)
      BY <1>4 DEF Load
  <2>2. /\ w \in Records /\ w.place = "loaded" /\ w.reply = None /\ w.began = clock + 1
        /\ w.conv = conv /\ w.context = <<>> /\ w.heard = req[r].heard
        /\ w.user = req[r].user
    <3>1. conv \in Requests \cup {None} /\ clock + 1 \in Nat
        BY <1>1 DEF Records
    <3> HIDE DEF conv
    <3> QED BY <1>1, <3>1 DEF Records, Serving
  <2> HIDE DEF w
  <2> QED BY <1>3, <1>4, <2>1, <2>2
<1>5. CASE ~ (req[r].conv = None \/ Owned(req[r].conv, req[r].user))
  <2> DEFINE w == [req[r] EXCEPT !.place = "replying", !.reply = "not found"]
  <2>1. Set(r, w)
      BY <1>5 DEF Load, Reply
  <2>2. /\ w \in Records /\ w.place = "replying" /\ w.reply = "not found"
        /\ w.conv = req[r].conv /\ w.began = req[r].began
        /\ w.context = <<>> /\ w.heard = req[r].heard
        /\ w.user = req[r].user
      BY <1>1 DEF Records, Replies
  <2> HIDE DEF w
  <2> QED BY <1>3, <2>1, <2>2
<1> QED BY <1>4, <1>5

\* What is cut from a conversation is older than what is shown of it.
LEMMA RecentCovers ==
    ASSUME NEW S, S \subseteq Messages, IsFiniteSet(S), NEW s \in Recent(S)
    PROVE  /\ s \in Seq(Messages) /\ Range(s) \subseteq S /\ Ordered(s)
           /\ \A m \in S : Shows(s, m)
<1>1. Cardinality(S) \in Nat /\ Limit \in Nat /\ Cut(S) \in Nat
    BY FS_CardinalityType, QueryFlowAssumption DEF Cut
<1>2. s \in [1 .. Cut(S) -> S] /\ Ordered(s)
    BY DEF Recent
<1>3. s \in Seq(S) /\ Len(s) = Cut(S) /\ Range(s) \subseteq S
    BY <1>1, <1>2 DEF Range
<1>4. s \in Seq(Messages)
  <2>1. s \in [1 .. Cut(S) -> Messages]
      BY <1>2
  <2> QED BY <1>1, <2>1
<1> SUFFICES ASSUME NEW m \in S PROVE Shows(s, m)
    BY <1>2, <1>3, <1>4
<1>5. CASE Cut(S) = Limit
    BY <1>3, <1>5 DEF Recent, Shows
<1>6. CASE Cut(S) = Cardinality(S)
  <2>1. \A i, k \in 1 .. Cut(S) : i # k => s[i] # s[k]
      BY <1>1, <1>2 DEF Ordered
  <2>2. s \in Injection(1 .. Cut(S), S)
      BY <1>2, <2>1 DEF Injection, IsInjective
  <2>3. Cardinality(1 .. Cut(S)) = Cardinality(S)
      BY <1>1, <1>6, FS_Interval
  <2>4. s \in Surjection(1 .. Cut(S), S)
      BY <2>2, <2>3, FS_Injection
  <2>5. S \subseteq Range(s)
      BY <1>2, <2>4 DEF Surjection, Range
  <2> QED BY <2>5 DEF Shows
<1> QED BY <1>5, <1>6 DEF Cut

LEMMA RecallInv ==
    ASSUME IInv, NEW r \in Requests, Recall(r) PROVE IInv'
<1> USE DEF IInv
<1> DEFINE S == In(req[r].conv)
<1>1. PICK s \in Recent(S) : Set(r, [req[r] EXCEPT !.place = "interpreting", !.context = s])
    BY DEF Recall
<1>2. S \subseteq messages /\ S \subseteq Messages /\ IsFiniteSet(S)
    BY FS_Subset DEF In, TypeOK
<1>3. /\ s \in Seq(Messages) /\ Range(s) \subseteq S /\ Ordered(s)
      /\ \A m \in S : Shows(s, m)
  <2> HIDE DEF S
  <2> QED BY <1>2, RecentCovers
<1> DEFINE w == [req[r] EXCEPT !.place = "interpreting", !.context = s]
<1>4. /\ req[r] \in Records /\ req[r].place = "loaded" /\ Set(r, w) /\ RequestInv(r)
      /\ UNCHANGED <<browser, rows, clock, faults>>
    BY <1>1 DEF TypeOK, Recall
<1>5. /\ w \in Records /\ w.place = "interpreting" /\ w.context = s
      /\ w.reply = req[r].reply /\ w.heard = req[r].heard
      /\ w.user = req[r].user /\ w.conv = req[r].conv /\ w.began = req[r].began
    BY <1>3, <1>4 DEF Records, Serving
<1> HIDE DEF w
<1>6. req'[r] = w /\ \A q \in Requests \ {r} : req'[q] = req[q]
    BY <1>4 DEF Set, TypeOK
<1>7. messages' = messages /\ conversations' = conversations
      /\ executed' = executed /\ proposed' = proposed /\ clock' = clock
    BY <1>4 DEF rows
<1>8. \A q \in Requests : req'[q].user = req[q].user /\ req'[q].conv = req[q].conv
    BY <1>5, <1>6
<1>9. req[r].conv \in Requests /\ req[req[r].conv].user = req[r].user
    BY <1>4 DEF RequestInv, Admitted, Serving, TypeOK
<1>10. Admitted(r)'
    BY <1>4, <1>5, <1>6, <1>7, <1>8, <1>9 DEF RequestInv, Admitted, Serving
<1>11. Unwritten(r)' /\ Progress(r)'
    BY <1>4, <1>5, <1>6, <1>7 DEF RequestInv, Unwritten, Progress, Early, Serving
<1>12. Heard(r)'
  <2>1. \A q \in req[r].heard : q \in Requests \ {r}
      BY <1>4 DEF RequestInv, Heard, Records
  <2> QED BY <1>4, <1>5, <1>6, <2>1 DEF RequestInv, Heard
<1>13. Context(r)'
  <2>1. \A m \in Range(s) : req'[m.of].user = w.user
    <3>1. SUFFICES ASSUME NEW m \in Range(s) PROVE req'[m.of].user = w.user
        OBVIOUS
    <3>2. m \in messages /\ req[m.of].conv = req[r].conv /\ m.of \in Requests
        BY <1>3 DEF In, TypeOK, Messages
    <3> QED BY <1>5, <1>8, <1>9, <3>2 DEF MessageInv
  <2>2. \A m \in messages : m.of \in w.heard => m \in S
      BY <1>4, <1>5 DEF RequestInv, Heard, In
  <2> QED BY <1>3, <1>5, <1>6, <1>7, <2>1, <2>2 DEF Context
<1>14. RequestInv(r)'
  <2>1. Later(r)'
      BY <1>4, <1>5, <1>6, <1>7 DEF RequestInv, Later, Serving
  <2> QED BY <1>10, <1>11, <1>12, <1>13, <2>1 DEF RequestInv
<1>15. clock \in Nat /\ clock <= clock /\ Range(w.context) \subseteq messages
       /\ account' \in Users /\ stored' \in [Tabs -> conversations \cup {None}]
       /\ awaited' \in [Tabs -> Requests \cup {None}] /\ faults' \in 0 .. MaxFaults
    BY <1>2, <1>3, <1>4, <1>5 DEF TypeOK
<1>16. w.reply \in Refusals => req[r].reply = w.reply
    BY <1>5
<1> QED BY <1>4, <1>5, <1>7, <1>14, <1>15, <1>16, QuietInv DEF Early

LEMMA AnswerInv ==
    ASSUME IInv, NEW r \in Requests, Answer(r) PROVE IInv'
<1> USE DEF IInv
<1> DEFINE w == [req[r] EXCEPT !.place = "closing", !.ended = Stamp(r)]
<1>1. /\ req[r] \in Records /\ req[r].place = "answering" /\ Set(r, w) /\ RequestInv(r)
      /\ UNCHANGED <<browser, rows, faults>> /\ clock' = clock + 1 /\ clock \in Nat
    BY DEF TypeOK, Answer
<1>2. /\ w \in Records /\ w.place = "closing" /\ w.ended = clock + 1
      /\ w.context = req[r].context
      /\ w.reply = req[r].reply /\ w.heard = req[r].heard
      /\ w.user = req[r].user /\ w.conv = req[r].conv /\ w.began = req[r].began
  <2>1. Stamp(r) \in Nat /\ Stamp(r) = clock + 1
      BY <1>1 DEF Stamp
  <2> QED BY <1>1, <2>1 DEF Records, Serving
<1> HIDE DEF w
<1>3. req'[r] = w /\ \A q \in Requests \ {r} : req'[q] = req[q]
    BY <1>1 DEF Set, TypeOK
<1>4. messages' = messages /\ conversations' = conversations
      /\ executed' = executed /\ proposed' = proposed
    BY <1>1 DEF rows
<1>5. \A q \in Requests : req'[q].user = req[q].user /\ req'[q].conv = req[q].conv
    BY <1>2, <1>3
<1>6. Admitted(r)'
  <2>1. req[r].conv \in Requests
      BY <1>1 DEF RequestInv, Admitted, Serving, TypeOK
  <2> QED BY <1>1, <1>2, <1>3, <1>4, <1>5, <2>1 DEF RequestInv, Admitted, Serving
<1>7. Unwritten(r)'
    BY <1>1, <1>2, <1>3, <1>4 DEF RequestInv, Unwritten, Early
<1>8. Progress(r)'
  <2>1. req[r].began \in Nat /\ req[r].began <= clock
      BY <1>1 DEF Records, RequestInv, Progress
  <2>2. w.began < w.ended /\ w.ended <= clock' /\ w.began <= clock'
      BY <1>1, <1>2, <2>1
  <2>3. w.conv \in conversations /\ w.reply = None
      BY <1>1, <1>2 DEF RequestInv, Progress, Serving
  <2> QED BY <1>2, <1>3, <1>4, <2>2, <2>3 DEF Progress
<1>9. Heard(r)'
  <2>1. \A q \in req[r].heard : q \in Requests \ {r}
      BY <1>1 DEF RequestInv, Heard, Records
  <2> QED BY <1>1, <1>2, <1>3, <2>1 DEF RequestInv, Heard
<1>10. Context(r)'
  <2>1. \A m \in Range(w.context) : m.of \in Requests
      BY <1>2 DEF TypeOK, Messages
  <2> QED BY <1>1, <1>2, <1>3, <1>4, <1>5, <2>1 DEF RequestInv, Context, Serving
<1>11. RequestInv(r)'
  <2>1. Later(r)'
      BY <1>1, <1>2, <1>3, <1>4 DEF RequestInv, Later, Serving
  <2> QED BY <1>6, <1>7, <1>8, <1>9, <1>10, <2>1 DEF RequestInv
<1>12. /\ clock' \in Nat /\ clock <= clock' /\ account' \in Users
       /\ stored' \in [Tabs -> conversations \cup {None}] /\ faults' \in 0 .. MaxFaults
       /\ awaited' \in [Tabs -> Requests \cup {None}]
    BY <1>1 DEF TypeOK
<1>13. Range(w.context) \subseteq messages /\ w.place \notin Early
    BY <1>2 DEF TypeOK, Early
<1> QED BY <1>1, <1>2, <1>4, <1>11, <1>12, <1>13, QuietInv

-----------------------------------------------------------------------------
\* A step that stores messages of its request, none of which it has heard.
LEMMA StoreInv ==
    ASSUME IInv, NEW r \in Requests, NEW w \in Records, Set(r, w), NEW M,
           UNCHANGED <<browser, clock, faults>>,
           messages' = messages \cup M, M \subseteq Messages, IsFiniteSet(messages'),
           conversations' = conversations \cup {req[r].conv},
           req[r].place \in {"interpreting", "closing"},
           w.place \in {"answering", "replying"}, w.reply \in Success \cup {None},
           w.place = "answering" => w.reply = None,
           w.user = req[r].user, w.conv = req[r].conv, w.began = req[r].began,
           w.context = req[r].context, w.heard = req[r].heard,
           \/ UNCHANGED <<executed, proposed>>
           \/ /\ req[r].place = "interpreting" /\ executed' = executed \cup {r}
              /\ proposed' \in {proposed, proposed \cup {r}},
           \A m \in M : /\ m.of = r /\ m.at <= clock /\ w.began <= m.at
                        /\ m.role = "user" => m.at = w.began
                        /\ m.role = "assistant" /\ r \in executed' => m.at > w.began
    PROVE  IInv'
<1> USE DEF IInv
<1>1. /\ req[r] \in Records /\ RequestInv(r) /\ clock \in Nat /\ None \notin Refusals
      /\ Success \cap Refusals = {} /\ conversations \subseteq Requests
    BY QueryFlowAssumption DEF TypeOK, Refusals, Success, Replies
<1>2. req'[r] = w /\ (\A q \in Requests \ {r} : req'[q] = req[q])
      /\ req' \in [Requests -> Records]
    BY DEF Set, TypeOK
<1>3. \A q \in Requests : req'[q].user = req[q].user /\ req'[q].conv = req[q].conv
    BY <1>2
<1>4. /\ req[r].conv \in conversations \cup {r} /\ req[r].conv \in Requests
      /\ req[req[r].conv].user = req[r].user
    BY <1>1 DEF RequestInv, Admitted, Serving
<1>5. Step(r)
  <2>1. w.reply \notin Refusals /\ w.place \notin Early
      BY <1>1 DEF Early
  <2>2. /\ messages \subseteq messages' /\ \A m \in messages' \ messages : m.of = r
        /\ conversations \subseteq conversations'
        /\ conversations' \subseteq conversations \cup {r}
      BY <1>4
  <2>3. /\ executed \subseteq executed' /\ executed' \subseteq executed \cup {r}
        /\ proposed' \subseteq proposed \cup {r}
        /\ executed' # executed => req[r].place \in Early
      BY DEF Early
  <2>4. clock' \in Nat /\ clock <= clock'
      BY <1>1
  <2> QED BY <1>2, <2>1, <2>2, <2>3, <2>4 DEF Step
<1>6. TypeOK'
  <2>1. /\ account' \in Users /\ messages' \subseteq Messages /\ faults' \in 0 .. MaxFaults
        /\ stored' \in [Tabs -> conversations' \cup {None}]
        /\ awaited' \in [Tabs -> Requests \cup {None}]
        /\ Range(req'[r].context) \subseteq messages'
      BY <1>2 DEF TypeOK
  <2>2. proposed' \subseteq executed'
      BY DEF TypeOK
  <2>3. \A m \in messages' \ messages :
            req'[m.of].conv \in conversations' /\ m.at <= clock'
      BY <1>2
  <2> QED BY <1>2, <1>5, <2>1, <2>2, <2>3, StepTypes
<1>7. RequestInv(r)'
  <2>1. Admitted(r)'
      BY <1>2, <1>3, <1>4 DEF Admitted
  <2>2. Unwritten(r)'
      BY <1>1, <1>2 DEF Unwritten, Early
  <2>3. Progress(r)'
    <3>1. w.conv \in conversations' /\ w.began <= clock'
        BY <1>1 DEF RequestInv, Progress
    <3> QED BY <1>2, <3>1 DEF Progress, Serving
  <2>4. \A q \in req[r].heard : q \in Requests \ {r}
      BY <1>1 DEF RequestInv, Heard, Records
  <2>5. Heard(r)'
      BY <1>1, <1>2, <2>4 DEF RequestInv, Heard
  <2>6. Context(r)'
    <3>1. \A m \in Range(w.context) : m.of \in Requests
        BY DEF TypeOK, Messages
    <3>2. \A m \in messages' : m.of \in w.heard => m \in messages
        BY <2>4
    <3> QED BY <1>1, <1>2, <1>3, <3>1, <3>2 DEF RequestInv, Context, Serving
  <2>7. Later(r)'
    <3>1. \A m \in messages' : m.of \in w.heard => m \in messages
        BY <2>4
    <3> QED BY <1>1, <1>2, <3>1 DEF RequestInv, Later, Serving
  <2> QED BY <2>1, <2>2, <2>3, <2>5, <2>6, <2>7 DEF RequestInv
<1>8. ASSUME NEW m \in messages' \ messages PROVE MessageInv(m)'
  <2>1. m \in M /\ m.of = r
      OBVIOUS
  <2>2. w.place \notin Early /\ w.reply \notin Refusals
      BY <1>1 DEF Early
  <2>3. ASSUME NEW n \in messages', n.of \in w.heard PROVE n.at < m.at
    <3>1. n \in messages
        BY <1>1, <2>3 DEF RequestInv, Heard, Records
    <3>2. n.at < w.began /\ n.at \in Nat
        BY <1>1, <2>3, <3>1 DEF RequestInv, Later, Serving, TypeOK, Messages
    <3>3. w.began <= m.at /\ w.began \in Nat /\ m.at \in Nat
        BY <1>1, <2>1 DEF Records, Messages
    <3> QED BY <3>2, <3>3
  <2> QED BY <1>2, <1>3, <1>4, <2>1, <2>2, <2>3 DEF MessageInv
<1> QED BY <1>5, <1>6, <1>7, <1>8, StepInv

LEMMA ClarifyInv ==
    ASSUME IInv, NEW r \in Requests, Clarify(r) PROVE IInv'
<1> USE DEF IInv
<1> DEFINE w == [req[r] EXCEPT !.place = "replying", !.reply = "clarification"]
           M == {Question(r), Message(r, req[r].began)}
<1>1. /\ req[r] \in Records /\ req[r].place = "interpreting" /\ Set(r, w)
      /\ UNCHANGED <<browser, executed, proposed, clock, faults>>
      /\ messages' = messages \cup M
      /\ conversations' = conversations \cup {req[r].conv}
      /\ req[r].began <= clock /\ r \notin executed
    BY DEF TypeOK, Clarify, Reply, RequestInv, Progress, Unwritten, Early
<1>2. /\ w \in Records /\ w.place = "replying" /\ w.reply = "clarification"
      /\ w.context = req[r].context /\ w.heard = req[r].heard
      /\ w.user = req[r].user /\ w.conv = req[r].conv /\ w.began = req[r].began
    BY <1>1 DEF Records, Replies
<1>3. M \subseteq Messages
    BY <1>1 DEF Question, Message, Messages, Records
<1>4. \A m \in M : m.of = r /\ m.at = req[r].began
    BY DEF Question, Message
<1>5. IsFiniteSet(messages')
  <2>1. messages' = (messages \cup {Question(r)}) \cup {Message(r, req[r].began)}
      BY <1>1
  <2> QED BY <2>1, FS_AddElement
<1>6. UNCHANGED <<browser, clock, faults>> /\ UNCHANGED <<executed, proposed>>
    BY <1>1
<1>7. \A m \in M : /\ m.of = r /\ m.at <= clock /\ m.at = w.began /\ w.began <= m.at
                  /\ ~ (r \in executed')
    BY <1>1, <1>2, <1>4 DEF Records
<1> HIDE DEF w, M
<1> QED BY <1>1, <1>2, <1>3, <1>5, <1>6, <1>7, StoreInv DEF Success

LEMMA ExecuteInv ==
    ASSUME IInv, NEW r \in Requests, Execute(r) PROVE IInv'
<1> USE DEF IInv
<1> DEFINE w == [req[r] EXCEPT !.place = "answering"]
           M == {Question(r)}
<1>1. /\ req[r] \in Records /\ req[r].place = "interpreting" /\ Set(r, w)
      /\ UNCHANGED <<browser, clock, faults>>
      /\ executed' = executed \cup {r} /\ proposed' \in {proposed, proposed \cup {r}}
      /\ messages' = messages \cup M
      /\ conversations' = conversations \cup {req[r].conv}
      /\ req[r].began <= clock /\ req[r].reply = None
    BY DEF TypeOK, Execute, Goto, RequestInv, Progress, Serving
<1>2. /\ w \in Records /\ w.place = "answering" /\ w.reply = None
      /\ w.context = req[r].context /\ w.heard = req[r].heard
      /\ w.user = req[r].user /\ w.conv = req[r].conv /\ w.began = req[r].began
    BY <1>1 DEF Records, Serving
<1>3. M \subseteq Messages
    BY <1>1 DEF Question, Messages, Records
<1>4. \A m \in M : /\ m.of = r /\ m.at = w.began /\ m.at <= clock /\ m.role = "user"
                  /\ w.began <= m.at
    BY <1>1, <1>2 DEF Question, Records
<1>5. IsFiniteSet(messages')
    BY <1>1, FS_AddElement
<1> HIDE DEF w, M
<1> QED BY <1>1, <1>2, <1>3, <1>4, <1>5, StoreInv

LEMMA CloseInv ==
    ASSUME IInv, NEW r \in Requests, Close(r) PROVE IInv'
<1> USE DEF IInv
<1> DEFINE w == [req[r] EXCEPT !.place = "replying", !.reply = "answer"]
           M == {Message(r, req[r].ended)}
<1>1. /\ req[r] \in Records /\ req[r].place = "closing" /\ Set(r, w)
      /\ UNCHANGED <<browser, conversations, executed, proposed, clock, faults>>
      /\ messages' = messages \cup M /\ req[r].conv \in conversations
      /\ req[r].began < req[r].ended /\ req[r].ended <= clock
    BY DEF TypeOK, Close, Reply, RequestInv, Progress
<1>2. /\ w \in Records /\ w.place = "replying" /\ w.reply = "answer"
      /\ w.context = req[r].context /\ w.heard = req[r].heard
      /\ w.user = req[r].user /\ w.conv = req[r].conv /\ w.began = req[r].began
    BY <1>1 DEF Records, Replies
<1>3. M \subseteq Messages
    BY <1>1 DEF Message, Messages, Records
<1>4. \A m \in M : m.of = r /\ m.at = req[r].ended /\ m.role = "assistant"
    BY DEF Message
<1>5. req[r].began \in Nat /\ req[r].ended \in Nat
    BY <1>1 DEF Records
<1>6. \A m \in M : /\ m.of = r /\ m.at <= clock /\ m.role = "assistant" /\ m.at > w.began
                  /\ w.began <= m.at
    BY <1>1, <1>2, <1>4, <1>5
<1>7. IsFiniteSet(messages')
    BY <1>1, FS_AddElement
<1>8. conversations' = conversations \cup {req[r].conv}
    BY <1>1
<1> HIDE DEF w, M
<1> QED BY <1>1, <1>2, <1>3, <1>6, <1>7, <1>8, StoreInv DEF Success

\* What only the browser does.
LEMMA BrowserInv ==
    ASSUME IInv, UNCHANGED <<req, rows, clock, faults>>, account' \in Users,
           stored' \in [Tabs -> conversations \cup {None}],
           awaited' \in [Tabs -> Requests \cup {None}]
    PROVE  IInv'
    BY DEF rows, IInv, TypeOK, RequestInv, MessageInv, Admitted, Unwritten, Progress,
           Heard, Context, Shows, Later

LEMMA SignInInv ==
    ASSUME IInv, NEW u \in Users, SignIn(u) PROVE IInv'
    BY BrowserInv DEF SignIn, IInv, TypeOK

LEMMA AbandonInv ==
    ASSUME IInv, NEW t \in Tabs, Abandon(t) PROVE IInv'
    BY BrowserInv DEF Abandon, IInv, TypeOK

LEMMA DuplicateInv ==
    ASSUME IInv, NEW t \in Tabs, NEW u \in Tabs, Duplicate(t, u) PROVE IInv'
    BY BrowserInv DEF Duplicate, IInv, TypeOK

-----------------------------------------------------------------------------
THEOREM Invariance == Spec => []IInv
<1>1. Init => IInv
    BY InitInv
<1>2. IInv /\ [Next]_vars => IInv'
  <2> SUFFICES ASSUME IInv, [Next]_vars PROVE IInv'
      OBVIOUS
  <2>1. CASE UNCHANGED vars
      BY <2>1 DEF vars, IInv, TypeOK, RequestInv, MessageInv, Admitted, Unwritten,
                  Progress, Heard, Context, Shows, Later, rows
  <2>2. ASSUME NEW u \in Users, SignIn(u) PROVE IInv'
      BY <2>2, SignInInv
  <2>3. ASSUME NEW t \in Tabs, NEW r \in Requests, Send(t, r) PROVE IInv'
      BY <2>3, SendInv
  <2>4. ASSUME NEW r \in Requests, Serve(r) \/ Fail(r) PROVE IInv'
      BY <2>4, LoadInv, RecallInv, ClarifyInv, RefuseInv, ExecuteInv, AnswerInv,
         CloseInv, FailInv DEF Serve
  <2>5. ASSUME NEW t \in Tabs, Receive(t) \/ Abandon(t) PROVE IInv'
      BY <2>5, ReceiveInv, AbandonInv
  <2>6. ASSUME NEW t \in Tabs, NEW u \in Tabs, Duplicate(t, u) PROVE IInv'
      BY <2>6, DuplicateInv
  <2> QED BY <2>1, <2>2, <2>3, <2>4, <2>5, <2>6 DEF Next
<1> QED BY <1>1, <1>2, PTL DEF Spec

(***************************************************************************)
(* The types of requests, conversations and messages.                      *)
(***************************************************************************)
THEOREM TypeCorrect == Spec => []TypeOK
    BY Invariance, Consequences, PTL

(***************************************************************************)
(* Whatever accounts use a browser and whatever ids its tabs still hold,   *)
(* no message enters a conversation of another account, and none is shown  *)
(* to the models for one.                                                  *)
(***************************************************************************)
THEOREM ConversationsStayPrivate == Spec => []ConversationsArePrivate
    BY Invariance, Consequences, PTL

(***************************************************************************)
(* A refused request has left no row, for any number of requests.          *)
(***************************************************************************)
THEOREM RefusalsAreUndone == Spec => []RefusalsLeaveNothing
    BY Invariance, Consequences, PTL

(***************************************************************************)
(* For any limit, and however many requests of a conversation overlap: the *)
(* context of a request has the exchanges its browser had heard, or is     *)
(* full of newer messages; exchanges that did not overlap are in order,    *)
(* and no answer precedes its question.                                    *)
(***************************************************************************)
THEOREM ContextsTellConversations == Spec => []ContextTellsConversation
    BY Invariance, Consequences, PTL
=============================================================================
