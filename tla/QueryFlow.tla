------------------------------ MODULE QueryFlow ------------------------------
(***************************************************************************)
(* A question asked in the chat: the client (frontend/src/App.tsx), which  *)
(* keeps the conversation id of each tab in sessionStorage, and the query  *)
(* endpoint (src/app/api/routes/query.py), whose request runs in two       *)
(* database transactions.  The first reads the context, stores the         *)
(* question and ends with the executor's commit (or with the commit of a   *)
(* clarification); the second stores the answer.                           *)
(*                                                                         *)
(* A message carries created_at, which PostgreSQL's now() sets to the      *)
(* start of its transaction: "clock" counts transaction starts.  What the  *)
(* classifier, the planner and the executor do is theirs (Interpretation,  *)
(* Executor); here they answer, ask back, refuse or fail.  A conversation  *)
(* has the name of the request that created it.                            *)
(***************************************************************************)
EXTENDS Integers, FiniteSets, Sequences, Functions

CONSTANTS Requests, Tabs, Users, None,
          Limit,      \* messages of context, 5 in _recent_context
          MaxFaults   \* bound of the model: failures of the database and server

Replies == {"answer", "clarification", "refusal", "not found", "error"}

ASSUME QueryFlowAssumption ==
    /\ None \notin Requests \cup Tabs \cup Users \cup Replies
    /\ Limit \in Nat \ {0} /\ MaxFaults \in Nat

VARIABLES account,        \* whose session cookie the browser holds
          stored,         \* each tab's conversation id
          awaited,        \* the request each tab waits for ("loading")
          req,            \* the requests, as far as the server is with them
          conversations,  \* committed, with the messages and executions below
          messages,
          executed,       \* the requests that have an execution record
          proposed,       \* those of them with an action awaiting approval
          clock,
          faults

browser == <<account, stored, awaited>>
rows == <<conversations, messages, executed, proposed>>
vars == <<browser, req, rows, clock, faults>>

Unsent == [place |-> "unsent", user |-> None, conv |-> None, began |-> 0, ended |-> 0,
           context |-> <<>>, reply |-> None, heard |-> {}]

\* Between these places the server works on the request.
Serving == {"arrived", "loaded", "interpreting", "answering", "closing"}

Init ==
    /\ account \in Users
    /\ stored = [t \in Tabs |-> None] /\ awaited = [t \in Tabs |-> None]
    /\ req = [r \in Requests |-> Unsent]
    /\ conversations = {} /\ messages = {} /\ executed = {} /\ proposed = {}
    /\ clock = 0 /\ faults = 0

Set(r, w) == req' = [req EXCEPT ![r] = w]
Goto(r, p) == Set(r, [req[r] EXCEPT !.place = p])
Reply(r, kind) == Set(r, [req[r] EXCEPT !.place = "replying", !.reply = kind])
Fault == faults < MaxFaults /\ faults' = faults + 1

\* The requests whose answer has reached the tab that waited for it.
Answered == {r \in Requests : req[r].place = "done"
                              /\ req[r].reply \in {"answer", "clarification"}}
Loading(t) == awaited[t] # None

Question(r) == [of |-> r, role |-> "user", at |-> req[r].began]
Message(r, at) == [of |-> r, role |-> "assistant", at |-> at]
In(c) == {m \in messages : req[m.of].conv = c}

-----------------------------------------------------------------------------
\* The browser.

\* A sign-in replaces the cookie of every tab and leaves sessionStorage alone.
SignIn(u) ==
    /\ account' = u /\ u # account
    /\ UNCHANGED <<stored, awaited, req, rows, clock, faults>>

Send(t, r) ==
    /\ req[r].place = "unsent" /\ ~Loading(t)
    /\ Set(r, [Unsent EXCEPT !.place = "arrived", !.user = account, !.conv = stored[t],
                             !.heard = {q \in Answered : req[q].conv = stored[t]}])
    /\ awaited' = [awaited EXCEPT ![t] = r]
    /\ UNCHANGED <<account, stored, rows, clock, faults>>

\* Only an answer brings a conversation id; a mutant takes it from any reply.
MutKeeps(r) == TRUE
Keeps(r) == req[r].reply \in {"answer", "clarification"}

Receive(t) ==
    LET r == awaited[t] IN
    /\ Loading(t) /\ req[r].place = "replying"
    /\ Goto(r, "done")
    /\ stored' = IF Keeps(r) THEN [stored EXCEPT ![t] = req[r].conv] ELSE stored
    /\ awaited' = [awaited EXCEPT ![t] = None]
    /\ UNCHANGED <<account, rows, clock, faults>>

\* The page is reloaded, or fetch fails.  Either way the tab may send again,
\* with the id it has stored, while the server, which does not notice, goes
\* on with the request or has long finished it; its reply reaches nobody.
Abandon(t) ==
    /\ Loading(t)
    /\ awaited' = [awaited EXCEPT ![t] = None]
    /\ UNCHANGED <<account, stored, req, rows, clock, faults>>

\* A duplicated tab starts with a copy of the other's sessionStorage.
Duplicate(t, u) ==
    /\ stored[t] # None /\ stored[u] = None /\ ~Loading(u)
    /\ stored' = [stored EXCEPT ![u] = stored[t]]
    /\ UNCHANGED <<account, awaited, req, rows, clock, faults>>

-----------------------------------------------------------------------------
\* The endpoint, first transaction.

\* Whether the conversation is one of the caller's, and a mutant that forgets
\* whose it is.
MutOwned(c, u) == c \in conversations
Owned(c, u) == c \in conversations /\ req[c].user = u

Load(r) ==
    LET w == req[r] IN
    /\ w.place = "arrived"
    /\ IF w.conv = None \/ Owned(w.conv, w.user)
       THEN Set(r, [w EXCEPT !.place = "loaded", !.began = clock + 1,
                             !.conv = IF @ = None THEN r ELSE @])
       ELSE Reply(r, "not found")
    /\ clock' = clock + 1
    /\ UNCHANGED <<browser, rows, faults>>

\* The newest messages, oldest first; equal timestamps come in either order.
\* A mutant sorts the other way before it cuts.
Ordered(s) == \A i, k \in DOMAIN s : i < k => s[i] # s[k] /\ s[i].at <= s[k].at
Cut(S) == IF Cardinality(S) < Limit THEN Cardinality(S) ELSE Limit
MutRecent(S) ==
    {s \in [1 .. Cut(S) -> S] :
        Ordered(s) /\ \A m \in S \ Range(s), i \in DOMAIN s : s[i].at <= m.at}
Recent(S) ==
    {s \in [1 .. Cut(S) -> S] :
        Ordered(s) /\ \A m \in S \ Range(s), i \in DOMAIN s : s[i].at >= m.at}

\* A mutant commits the question at once instead of flushing it.
MutRecall(r) ==
    /\ req[r].place = "loaded"
    /\ \E s \in Recent(In(req[r].conv)) :
          Set(r, [req[r] EXCEPT !.place = "interpreting", !.context = s])
    /\ messages' = messages \cup {Question(r)}
    /\ conversations' = conversations \cup {req[r].conv}
    /\ UNCHANGED <<browser, executed, proposed, clock, faults>>
Recall(r) ==
    /\ req[r].place = "loaded"
    /\ \E s \in Recent(In(req[r].conv)) :
          Set(r, [req[r] EXCEPT !.place = "interpreting", !.context = s])
    /\ UNCHANGED <<browser, rows, clock, faults>>

Clarify(r) ==
    /\ req[r].place = "interpreting"
    /\ conversations' = conversations \cup {req[r].conv}
    /\ messages' = messages \cup {Question(r), Message(r, req[r].began)}
    /\ Reply(r, "clarification")
    /\ UNCHANGED <<browser, executed, proposed, clock, faults>>

\* LLMProviderError or ValueError: 502 or 400, and the transaction is undone.
Refuse(r) ==
    /\ req[r].place = "interpreting"
    /\ Reply(r, "refusal")
    /\ UNCHANGED <<browser, rows, clock, faults>>

Execute(r) ==
    /\ req[r].place = "interpreting"
    /\ conversations' = conversations \cup {req[r].conv}
    /\ messages' = messages \cup {Question(r)}
    /\ executed' = executed \cup {r}
    /\ proposed' \in {proposed, proposed \cup {r}}
    /\ Goto(r, "answering")
    /\ UNCHANGED <<browser, clock, faults>>

-----------------------------------------------------------------------------
\* Second transaction: the response is synthesised, by the model or from the
\* results, and stored.

Stamp(r) == clock + 1

Answer(r) ==
    /\ req[r].place = "answering"
    /\ Set(r, [req[r] EXCEPT !.place = "closing", !.ended = Stamp(r)])
    /\ clock' = clock + 1
    /\ UNCHANGED <<browser, rows, faults>>

Close(r) ==
    /\ req[r].place = "closing"
    /\ messages' = messages \cup {Message(r, req[r].ended)}
    /\ Reply(r, "answer")
    /\ UNCHANGED <<browser, conversations, executed, proposed, clock, faults>>

\* The database or the server fails: the open transaction is lost.
Fail(r) ==
    /\ req[r].place \in Serving /\ Fault
    /\ Reply(r, "error")
    /\ UNCHANGED <<browser, rows, clock>>

Serve(r) == Load(r) \/ Recall(r) \/ Clarify(r) \/ Refuse(r) \/ Execute(r)
            \/ Answer(r) \/ Close(r)

Next ==
    \/ \E u \in Users : SignIn(u)
    \/ \E t \in Tabs : Receive(t) \/ Abandon(t)
    \/ \E t, u \in Tabs : Duplicate(t, u)
    \/ \E t \in Tabs, r \in Requests : Send(t, r)
    \/ \E r \in Requests : Serve(r) \/ Fail(r)

Spec == Init /\ [][Next]_vars

-----------------------------------------------------------------------------
Messages == [of : Requests, role : {"user", "assistant"}, at : Nat]
Records ==
    [place : Serving \cup {"unsent", "replying", "done"}, user : Users \cup {None},
     conv : Requests \cup {None}, began : Nat, ended : Nat, context : Seq(Messages),
     reply : Replies \cup {None}, heard : SUBSET Requests]

TypeOK ==
    /\ account \in Users
    /\ stored \in [Tabs -> conversations \cup {None}]
    /\ awaited \in [Tabs -> Requests \cup {None}]
    /\ req \in [Requests -> Records]
    /\ conversations \subseteq Requests /\ messages \subseteq Messages
    /\ proposed \subseteq executed /\ executed \subseteq Requests
    /\ clock \in Nat /\ faults \in 0 .. MaxFaults
    /\ \A r \in Requests : Range(req[r].context) \subseteq messages
    /\ \A m \in messages : req[m.of].conv \in conversations /\ m.at <= clock

(***************************************************************************)
(* README.md:192, "Conversations ... are scoped by user_id": every message *)
(* of a conversation, and so every message of a context the models are     *)
(* shown, comes from the owner, although the tab offers the id it stored   *)
(* under whatever account the browser holds by then.                       *)
(***************************************************************************)
ConversationsArePrivate ==
    /\ \A m \in messages : req[m.of].user = req[req[m.of].conv].user
    /\ \A r \in Requests : \A m \in Range(req[r].context) : req[m.of].user = req[r].user

(***************************************************************************)
(* A request that was refused (400, 404, 502) has left nothing in the      *)
(* database: no question that a later context would show, no conversation, *)
(* no execution, no proposal.                                              *)
(***************************************************************************)
RefusalsLeaveNothing ==
    \A r \in Requests :
        req[r].reply \in {"refusal", "not found"} =>
            /\ r \notin conversations \cup executed \cup proposed
            /\ \A m \in messages : m.of # r

\* Every exchange whose answer the browser had is in the context, or Limit
\* messages at least as new are.
FollowUpSeesExchange ==
    \A r \in Requests :
        req[r].place \in Serving \ {"arrived", "loaded"} =>
            \A m \in messages : m.of \in req[r].heard =>
                LET s == req[r].context IN
                \/ m \in Range(s)
                \/ Len(s) = Limit /\ \A i \in DOMAIN s : s[i].at >= m.at

\* No answer of the executor precedes its question.  (A clarification shares
\* the transaction of its question, hence created_at: either order may be read.)
AnswersFollowQuestions ==
    \A r \in Requests : \A i, k \in DOMAIN req[r].context :
        LET a == req[r].context[i]
            b == req[r].context[k]
        IN a.of = b.of /\ a.of \in executed /\ a.role = "user" /\ b.role = "assistant"
              => i < k

\* An exchange that was over when a question was asked comes before it.
ExchangesInOrder ==
    \A r \in Requests : \A i, k \in DOMAIN req[r].context :
        req[r].context[i].of \in req[req[r].context[k].of].heard => i < k

(***************************************************************************)
(* API.md:86, "reuse the returned ID for follow-up context": a request     *)
(* sees every exchange of its conversation whose answer the browser had    *)
(* when it was sent, unless newer messages fill the limit; the exchanges   *)
(* come in the order they were held, and no answer before its question.    *)
(* All this although a tab that was reloaded, lost its connection or was   *)
(* duplicated asks again in a conversation that still works on an earlier  *)
(* question, whose rows then appear between and under the newer ones.      *)
(***************************************************************************)
ContextTellsConversation ==
    FollowUpSeesExchange /\ AnswersFollowQuestions /\ ExchangesInOrder
=============================================================================
