------------------------------ MODULE ListPanels ------------------------------
(***************************************************************************)
(* A list of the browser application: the answers to a search or to a      *)
(* ranking, page after page, as the user asks for them.  Requests are not  *)
(* cancelled and not numbered, so the answers may arrive in any order, and *)
(* what an answer does depends only on what is shown when it arrives.      *)
(* The lists of the page share nothing but the token; this is one of them. *)
(***************************************************************************)
EXTENDS Naturals, Sequences

CONSTANTS
    Question,       \* endpoint and parameters of a list
    Entries,        \* [Question -> Nat]    how many entries the server has for it
    PageSize,       \* services/market.py: PAGE_SIZE, the 20 of load
    Slot,           \* bound: loads under way at once
    None            \* no load, no question

ASSUME EntriesAssumption == Entries \in [Question -> Nat]
ASSUME PageSizeAssumption == PageSize \in Nat \ {0}
ASSUME NoneAssumption == None \notin Question /\ None \notin Slot

VARIABLES
    token,          \* whether the access token is stored
    shown,          \* the parts of the list, from top to bottom
    button,         \* the button for more: none, live, or dead (shown, without listener)
    entry,          \* state.get(targetId): the question and page of the last answer
    loads,          \* [Slot -> load under way or None]
    late,           \* history: the loads under way that a later question has overtaken
    mixed           \* history: one of them was answered since the last question was

vars == <<token, shown, button, entry, loads, late, mixed>>

Rows(q, n) == [kind |-> "rows", question |-> q, page |-> n]
Message(kind) == [kind |-> kind, question |-> None, page |-> 0]
Asked(q, n) == [question |-> q, page |-> n]
NoEntry == Asked(None, 0)
NoLoad == [question |-> None, page |-> 0, append |-> FALSE]

\* How many entries the server answers with.
Count(q, n) ==
    LET before == PageSize * (n - 1)
    IN IF Entries[q] <= before THEN 0
       ELSE IF Entries[q] - before < PageSize THEN Entries[q] - before ELSE PageSize

Init ==
    /\ token = FALSE
    /\ shown = <<>> /\ button = "none" /\ entry = NoEntry
    /\ loads = [s \in Slot |-> NoLoad] /\ late = {} /\ mixed = FALSE

--------------------------------------------------------------------------------
(* load *)

\* Mutation: a failure is not reported.
ShowNothing == UNCHANGED <<shown, button, entry>>

\* Mutation: the message is put below the rows.
ShowErrorBelow ==
    /\ shown' = Append(shown, Message("error"))
    /\ UNCHANGED <<button, entry>>

\* The message replaces the list; the entry stays.
ShowError ==
    /\ shown' = <<Message("error")>> /\ button' = "none"
    /\ UNCHANGED entry

Send(s, load) ==
    /\ loads' = [loads EXCEPT ![s] = load]
    /\ UNCHANGED <<token, entry, mixed>>

UnderWay == {s \in Slot : loads[s] # NoLoad}

FirstPage == 1

\* The first page of a question, from a search form or a sort control.
Ask(s, q) ==
    /\ token /\ loads[s] = NoLoad
    /\ Send(s, [question |-> q, page |-> FirstPage, append |-> FALSE])
    /\ late' = UnderWay
    /\ shown' = <<Message("loading")>> /\ button' = "none"

\* Mutation: the button keeps its listener while its page is loaded.
StillAlive == "live"

\* innerHTML is assigned to itself: new elements, without the listener.
Reassigned == "dead"

\* The next page; the listener looks up what was answered last.
AskMore(s) ==
    /\ token /\ loads[s] = NoLoad
    /\ button = "live"
    /\ Send(s, [question |-> entry.question, page |-> entry.page + 1, append |-> TRUE])
    /\ button' = Reassigned
    /\ UNCHANGED <<shown, late>>

\* Without a token the load fails at once.
AskWithoutToken ==
    /\ ~token
    /\ ShowError
    /\ late' = UnderWay /\ mixed' = FALSE
    /\ UNCHANGED <<token, loads>>

ShownWith(load) ==
    IF load.append THEN Append(shown, Rows(load.question, load.page))
    ELSE IF Count(load.question, load.page) = 0 THEN <<Message("empty")>>
    ELSE <<Rows(load.question, load.page)>>

\* Mutation: more is offered only for more than a page.
HasMoreThanPage(load) == Count(load.question, load.page) > PageSize

HasMore(load) == Count(load.question, load.page) = PageSize

Answered(s) ==
    /\ loads' = [loads EXCEPT ![s] = NoLoad]
    /\ \/ /\ s \in late
          /\ late' = late \ {s} /\ mixed' = TRUE
       \/ /\ s \notin late /\ loads[s].append
          /\ UNCHANGED <<late, mixed>>
       \/ /\ s \notin late /\ ~loads[s].append
          /\ late' = UnderWay \ {s} /\ mixed' = FALSE
    /\ UNCHANGED token

Receive(s) ==
    /\ loads[s] # NoLoad
    /\ Answered(s)
    /\ shown' = ShownWith(loads[s])
    /\ entry' = Asked(loads[s].question, loads[s].page)
    /\ button' = IF HasMore(loads[s]) THEN "live" ELSE "none"

Fail(s) ==
    /\ loads[s] # NoLoad
    /\ Answered(s)
    /\ ShowError

--------------------------------------------------------------------------------
(* authenticate, and the listener of the logout button *)

LogIn ==
    /\ ~token /\ token' = TRUE
    /\ UNCHANGED <<shown, button, entry, loads, late, mixed>>

LogOut ==
    /\ token /\ token' = FALSE
    /\ UNCHANGED <<shown, button, entry, loads, late, mixed>>

--------------------------------------------------------------------------------
Answer(s) == Receive(s) \/ Fail(s)

Next ==
    \/ \E s \in Slot : (\E q \in Question : Ask(s, q)) \/ AskMore(s) \/ Answer(s)
    \/ AskWithoutToken \/ LogIn \/ LogOut

Spec == Init /\ [][Next]_vars

\* A browser ends every request, if only with an error.
FairSpec == Spec /\ \A s \in Slot : WF_vars(Answer(s))

--------------------------------------------------------------------------------
(* Properties *)

Part == [kind : {"rows", "loading", "error", "empty"}, question : Question \cup {None}, page : Nat]

\* Every variable has its type; only rows and loads under way name a question.
TypeOK ==
    /\ token \in BOOLEAN /\ mixed \in BOOLEAN
    /\ shown \in Seq(Part) /\ button \in {"none", "live", "dead"}
    /\ \A i \in DOMAIN shown : shown[i].kind = "rows" => shown[i].question \in Question
    /\ entry = NoEntry \/ entry \in [question : Question, page : Nat]
    /\ loads \in [Slot -> [question : Question \cup {None}, page : Nat, append : BOOLEAN]]
    /\ \A s \in Slot : loads[s] # NoLoad => loads[s].question \in Question /\ loads[s].page > 0
    /\ late \subseteq UnderWay

Pages(q, n) == [i \in 1..n |-> Rows(q, i)]

\* Unless the answer to an earlier question has come in late, the list shows the pages of
\* one question, from the first on, each once, however fast the user clicks
\* (app.js:133-163).
OneQuestionInOrder ==
    ~mixed /\ (\E i \in DOMAIN shown : shown[i].kind = "rows") =>
        shown = Pages(entry.question, entry.page)

\* The button goes on after the last rows shown, whatever has been overtaken: what its
\* listener looks up is what stands above it (app.js:148-149, 158-160).
ButtonContinuesRows ==
    button # "none" =>
        shown # <<>> /\ shown[Len(shown)] = Rows(entry.question, entry.page)

\* A button without a listener is only shown while its page is on the way, which then
\* replaces it: the user is never left with one that does nothing (app.js:137, 146).
DeadButtonIsReplaced == button = "dead" => \E s \in Slot : loads[s].append

\* Rows with no button below them are the last of their question (app.js:148-149;
\* PAGE_SIZE in services/market.py).
NothingLeftBehind ==
    button = "none" /\ shown # <<>> /\ shown[Len(shown)].kind = "rows" =>
        Entries[entry.question] < PageSize * (entry.page - 1) + PageSize

\* A list does not stay "loading", however often its question is changed (app.js:137-152).
Loading == shown # <<>> /\ shown[1].kind = "loading"
LoadingEnds == Loading ~> ~Loading
================================================================================
