--------------------------- MODULE ListPanelsProofs ---------------------------
(***************************************************************************)
(* Theorems about ListPanels, for any questions, sizes of pages and number *)
(* of loads under way.  The inductive invariant says what the list can     *)
(* look like while no late answer has mixed it, and that at most one load  *)
(* can then still change it in earnest.                                    *)
(***************************************************************************)
EXTENDS ListPanels, TLAPS

Last == shown[Len(shown)]
EntryRows == Rows(entry.question, entry.page)

\* Rows at the end are those of the entry; without a button there are no more.
EndInv ==
    shown # <<>> /\ Last.kind = "rows" =>
        /\ entry.question \in Question /\ entry.page > 0
        /\ Last = EntryRows
        /\ button = "none" => Count(entry.question, entry.page) # PageSize

Whole == entry.question \in Question /\ entry.page > 0 /\ shown = Pages(entry.question, entry.page)
NoRows == shown = <<>> \/ \E m \in {"loading", "error", "empty"} : shown = <<Message(m)>>

Fresh == UnderWay \ late

\* The one load that is not late, while the list is not mixed.
FreshInv ==
    ~mixed =>
        /\ NoRows \/ Whole
        /\ \A s \in Fresh :
            /\ \A t \in Fresh : t = s
            /\ ~loads[s].append => shown = <<Message("loading")>>
            /\ loads[s].append =>
                 /\ Whole /\ button = "dead"
                 /\ loads[s].question = entry.question /\ loads[s].page = entry.page + 1

FirstInv == \A s \in UnderWay : ~loads[s].append => loads[s].page = 1

IInv ==
    TypeOK /\ ButtonContinuesRows /\ DeadButtonIsReplaced /\ EndInv /\ FirstInv /\ FreshInv

--------------------------------------------------------------------------------
LEMMA PagesGrow ==
    ASSUME NEW q \in Question, NEW n \in Nat
    PROVE  Append(Pages(q, n), Rows(q, n + 1)) = Pages(q, n + 1)
BY DEF Pages, Rows

LEMMA PagesSeq ==
    ASSUME NEW q \in Question, NEW n \in Nat
    PROVE  Pages(q, n) \in Seq(Part) /\ Len(Pages(q, n)) = n
BY DEF Pages, Rows, Part

\* How a list ends after rows are appended, and a list of a single part.
LEMMA Appended ==
    ASSUME NEW list \in Seq(Part), NEW part \in Part
    PROVE  /\ Append(list, part) \in Seq(Part) /\ Append(list, part) # <<>>
           /\ Append(list, part)[Len(Append(list, part))] = part
           /\ \A i \in DOMAIN Append(list, part) :
                Append(list, part)[i] = part \/ (i \in DOMAIN list /\ Append(list, part)[i] = list[i])
OBVIOUS

LEMMA Single ==
    ASSUME NEW part \in Part
    PROVE  /\ <<part>> \in Seq(Part) /\ <<part>> # <<>> /\ Len(<<part>>) = 1
           /\ <<part>>[Len(<<part>>)] = part /\ DOMAIN <<part>> = {1} /\ <<part>>[1] = part
OBVIOUS

LEMMA PartsTyped ==
    /\ \A q \in Question, n \in Nat : Rows(q, n) \in Part /\ Rows(q, n).kind = "rows"
    /\ \A m \in {"loading", "error", "empty"} :
         Message(m) \in Part /\ Message(m).kind = m /\ Message(m).kind # "rows"
BY DEF Rows, Message, Part

LEMMA CountTyped ==
    ASSUME NEW q \in Question, NEW n \in Nat \ {0}
    PROVE  Count(q, n) \in Nat /\ (Count(q, n) # PageSize => Entries[q] < PageSize * (n - 1) + PageSize)
<1>1. PageSize * (n - 1) \in Nat /\ PageSize \in Nat \ {0} /\ Entries[q] \in Nat
  BY PageSizeAssumption, EntriesAssumption
<1> QED  BY <1>1 DEF Count

--------------------------------------------------------------------------------
(* Steps *)

LEMMA Steps ==
    ASSUME [Next]_vars
    PROVE  \/ \E s \in Slot : (\E q \in Question : Ask(s, q)) \/ AskMore(s) \/ Receive(s) \/ Fail(s)
           \/ AskWithoutToken \/ LogIn \/ LogOut
           \/ UNCHANGED vars
BY DEF Next, Answer

\* What a single message on the list makes of the invariants that depend on it.
LEMMA Messages ==
    ASSUME NEW m \in {"loading", "error", "empty"}, shown' = <<Message(m)>>, button' = "none"
    PROVE  /\ shown' \in Seq(Part) /\ button' \in {"none", "live", "dead"}
           /\ \A i \in DOMAIN shown' : shown'[i].kind # "rows"
           /\ ButtonContinuesRows' /\ DeadButtonIsReplaced' /\ EndInv' /\ NoRows'
<1> DEFINE part == Message(m)
<1>1. part \in Part /\ part.kind # "rows"
  BY PartsTyped
<1> HIDE DEF part
<1>2. /\ <<part>> \in Seq(Part) /\ Len(<<part>>) = 1
      /\ <<part>>[Len(<<part>>)] = part /\ DOMAIN <<part>> = {1} /\ <<part>>[1] = part
  BY <1>1, Single
<1>3. shown' = <<part>>
  BY DEF part
<1>4. ButtonContinuesRows' /\ DeadButtonIsReplaced' /\ EndInv'
  BY <1>1, <1>2, <1>3 DEF ButtonContinuesRows, DeadButtonIsReplaced, EndInv, Last
<1>5. NoRows'
  BY DEF NoRows
<1> QED  BY <1>1, <1>2, <1>3, <1>4, <1>5

LEMMA InitHolds == Init => IInv
<1> SUFFICES ASSUME Init PROVE IInv
  OBVIOUS
<1>1. shown \in Seq(Part) /\ DOMAIN shown = {}
  BY DEF Init
<1>2. TypeOK
  BY <1>1 DEF Init, TypeOK, NoEntry, NoLoad, Asked
<1>3. ButtonContinuesRows /\ DeadButtonIsReplaced /\ EndInv
  BY DEF Init, ButtonContinuesRows, DeadButtonIsReplaced, EndInv
<1>4. FreshInv
  BY DEF Init, FreshInv, NoRows, Fresh, UnderWay
<1>5. FirstInv
  BY DEF Init, FirstInv, UnderWay
<1> QED  BY <1>2, <1>3, <1>4, <1>5 DEF IInv

\* A new question: it is the only load that is not late.
LEMMA AskKeeps ==
    ASSUME IInv, NEW s \in Slot, NEW q \in Question, Ask(s, q)
    PROVE  IInv'
<1> DEFINE load == [question |-> q, page |-> FirstPage, append |-> FALSE]
<1>0. load.question \in Question /\ load.page = 1 /\ ~load.append /\ load # NoLoad
  BY NoneAssumption DEF FirstPage, NoLoad
<1>a. load \in [question : Question \cup {None}, page : Nat, append : BOOLEAN]
  BY DEF FirstPage
<1>1. loads' = [loads EXCEPT ![s] = load]
  BY DEF Ask, Send
<1> HIDE DEF load
<1>2. loads \in [Slot -> [question : Question \cup {None}, page : Nat, append : BOOLEAN]]
  BY DEF IInv, TypeOK
<1>3. loads'[s] = load /\ \A t \in Slot \ {s} : loads'[t] = loads[t]
  BY <1>1, <1>2
<1>4. loads[s] = NoLoad /\ late' = UnderWay
  BY DEF Ask
<1>5. UnderWay' = UnderWay \cup {s} /\ s \notin UnderWay
  BY <1>0, <1>3, <1>4 DEF UnderWay
<1>6. shown' = <<Message("loading")>> /\ button' = "none"
  BY DEF Ask
<1>7. TypeOK'
  BY <1>0, <1>a, <1>1, <1>2, <1>3, <1>4, <1>5, <1>6, Messages DEF IInv, TypeOK, Ask, Send
<1>8. FreshInv'
  BY <1>0, <1>3, <1>4, <1>5, <1>6, Messages DEF FreshInv, Fresh
<1>9. FirstInv'
  BY <1>0, <1>3, <1>5 DEF IInv, FirstInv, UnderWay
<1> QED  BY <1>6, <1>7, <1>8, <1>9, Messages DEF IInv

\* A further page: the list was whole, and no other load that counts was under way.
LEMMA AskMoreKeeps ==
    ASSUME IInv, NEW s \in Slot, AskMore(s)
    PROVE  IInv'
<1> DEFINE load == [question |-> entry.question, page |-> entry.page + 1, append |-> TRUE]
<1>1. /\ shown # <<>> /\ shown \in Seq(Part) /\ Last = EntryRows
      /\ entry.question \in Question /\ entry.page \in Nat /\ entry.page > 0
  <2>1. shown # <<>> /\ shown \in Seq(Part) /\ Last = EntryRows
    BY DEF IInv, TypeOK, AskMore, ButtonContinuesRows, Last, EntryRows
  <2>2. Last.kind = "rows"
    BY <2>1 DEF EntryRows, Rows
  <2>3. entry.question \in Question /\ entry.page > 0
    BY <2>1, <2>2 DEF IInv, EndInv
  <2>4. entry.page \in Nat
    BY <2>3 DEF IInv, TypeOK, NoEntry, Asked
  <2> QED  BY <2>1, <2>3, <2>4
<1>2. /\ load \in [question : Question \cup {None}, page : Nat, append : BOOLEAN]
      /\ load.question \in Question /\ load.page > 0 /\ load.append /\ load # NoLoad
      /\ load.question = entry.question /\ load.page = entry.page + 1
  BY <1>1 DEF NoLoad
<1>3. loads' = [loads EXCEPT ![s] = load] /\ loads[s] = NoLoad /\ button = "live"
  BY DEF AskMore, Send
<1>4. UNCHANGED <<shown, late, token, entry, mixed>> /\ button' = "dead"
  BY DEF AskMore, Send, Reassigned
<1> HIDE DEF load
<1>5. loads \in [Slot -> [question : Question \cup {None}, page : Nat, append : BOOLEAN]]
  BY DEF IInv, TypeOK
<1>6. loads'[s] = load /\ \A t \in Slot \ {s} : loads'[t] = loads[t]
  BY <1>3, <1>5
<1>7. UnderWay' = UnderWay \cup {s} /\ s \notin UnderWay
  BY <1>2, <1>3, <1>6 DEF UnderWay
<1>8. TypeOK'
  BY <1>2, <1>3, <1>4, <1>5, <1>6, <1>7 DEF IInv, TypeOK
<1>9. ButtonContinuesRows' /\ DeadButtonIsReplaced' /\ EndInv'
  BY <1>1, <1>2, <1>4, <1>6
     DEF ButtonContinuesRows, DeadButtonIsReplaced, EndInv, Last, EntryRows
<1>10. ASSUME ~mixed PROVE Whole /\ Fresh = {}
  <2>1. ~NoRows
    <3>1. \A m \in {"loading", "error", "empty"} : shown # <<Message(m)>>
      BY <1>1, PartsTyped, Single DEF Last, EntryRows, Rows
    <3> QED  BY <1>1, <3>1 DEF NoRows
  <2>2. Whole
    BY <1>10, <2>1 DEF IInv, FreshInv
  <2>3. ASSUME NEW t \in Fresh PROVE FALSE
    BY <1>3, <1>10, <2>1, <2>3 DEF IInv, FreshInv, NoRows
  <2> QED  BY <2>2, <2>3
<1>11. FreshInv'
  <2> SUFFICES ASSUME ~mixed' PROVE Whole' /\ Fresh' \subseteq {s}
    BY <1>2, <1>4, <1>6 DEF FreshInv
  <2>1. Whole /\ Fresh = {}
    BY <1>4, <1>10
  <2>2. Whole'
    BY <1>4, <2>1 DEF Whole
  <2> QED  BY <1>4, <1>7, <2>1, <2>2 DEF Fresh
<1>12. FirstInv'
  BY <1>2, <1>6, <1>7 DEF IInv, FirstInv, UnderWay
<1> QED  BY <1>8, <1>9, <1>11, <1>12 DEF IInv

\* Without a token: the loads under way are late, and the message stands alone.
LEMMA AskWithoutTokenKeeps ==
    ASSUME IInv, AskWithoutToken
    PROVE  IInv'
<1>1. shown' = <<Message("error")>> /\ button' = "none"
  BY DEF AskWithoutToken, ShowError
<1>2. late' = UnderWay /\ UNCHANGED <<token, loads, entry>> /\ mixed' = FALSE
  BY DEF AskWithoutToken, ShowError
<1>3. UnderWay' = UnderWay
  BY <1>2 DEF UnderWay
<1>4. TypeOK'
  BY <1>1, <1>2, <1>3, Messages DEF IInv, TypeOK
<1>5. FreshInv'
  BY <1>1, <1>2, <1>3, Messages DEF FreshInv, Fresh
<1>6. FirstInv'
  BY <1>2, <1>3 DEF IInv, FirstInv
<1> QED  BY <1>1, <1>4, <1>5, <1>6, Messages DEF IInv

\* An answer ends its load; if it is not late, the others are late or do not count.
LEMMA Ending ==
    ASSUME IInv, NEW s \in Slot, loads[s] # NoLoad, Answered(s)
    PROVE  /\ token' \in BOOLEAN /\ mixed' \in BOOLEAN /\ late' \subseteq UnderWay'
           /\ loads' \in [Slot -> [question : Question \cup {None}, page : Nat, append : BOOLEAN]]
           /\ \A t \in Slot : loads'[t] # NoLoad => loads'[t].question \in Question /\ loads'[t].page > 0
           /\ FirstInv'
           /\ ~mixed' => Fresh' = {} /\ (loads[s].append => ~mixed /\ s \in Fresh)
<1>1. loads \in [Slot -> [question : Question \cup {None}, page : Nat, append : BOOLEAN]]
  BY DEF IInv, TypeOK
<1>2. NoLoad \in [question : Question \cup {None}, page : Nat, append : BOOLEAN]
  BY DEF NoLoad
<1>3. loads'[s] = NoLoad /\ \A t \in Slot \ {s} : loads'[t] = loads[t]
  BY <1>1 DEF Answered
<1>4. UnderWay' = UnderWay \ {s} /\ s \in UnderWay
  BY <1>3 DEF UnderWay
<1>5. token' \in BOOLEAN /\ mixed' \in BOOLEAN /\ late' \subseteq UnderWay'
  BY <1>4 DEF Answered, IInv, TypeOK
<1>6. loads' \in [Slot -> [question : Question \cup {None}, page : Nat, append : BOOLEAN]]
  BY <1>1, <1>2 DEF Answered
<1>7. \A t \in Slot : loads'[t] # NoLoad => loads'[t].question \in Question /\ loads'[t].page > 0
  BY <1>3 DEF IInv, TypeOK
<1>8. ASSUME ~mixed' PROVE Fresh' = {} /\ (loads[s].append => ~mixed /\ s \in Fresh)
  <2>1. CASE loads[s].append
    <3>1. s \notin late /\ ~mixed /\ late' = late
      BY <1>8, <2>1 DEF Answered
    <3>2. s \in Fresh /\ \A t \in Fresh : t = s
      BY <1>4, <3>1 DEF IInv, FreshInv, Fresh
    <3> QED  BY <1>4, <3>1, <3>2 DEF Fresh
  <2>2. CASE ~loads[s].append
    <3>1. late' = UnderWay \ {s}
      BY <1>8, <2>2 DEF Answered
    <3> QED  BY <1>4, <2>2, <3>1 DEF Fresh
  <2> QED  BY <2>1, <2>2
<1>9. FirstInv'
  BY <1>3, <1>4 DEF IInv, FirstInv, UnderWay
<1> QED  BY <1>5, <1>6, <1>7, <1>8, <1>9

LEMMA FailKeeps ==
    ASSUME IInv, NEW s \in Slot, Fail(s)
    PROVE  IInv'
<1>1. shown' = <<Message("error")>> /\ button' = "none" /\ entry' = entry
  BY DEF Fail, ShowError
<1>2. loads[s] # NoLoad /\ Answered(s)
  BY DEF Fail
<1>3. TypeOK'
  BY <1>1, <1>2, Ending, Messages DEF IInv, TypeOK
<1>4. FreshInv'
  BY <1>1, <1>2, Ending, Messages DEF FreshInv
<1> QED  BY <1>1, <1>2, <1>3, <1>4, Ending, Messages DEF IInv

\* An answer with entries. Appended to a whole list, its page is the next one.
LEMMA ReceiveKeeps ==
    ASSUME IInv, NEW s \in Slot, Receive(s)
    PROVE  IInv'
<1> DEFINE load == loads[s]
           part == Rows(load.question, load.page)
<1>1. load # NoLoad /\ Answered(s)
  BY DEF Receive
<1>2. load.question \in Question /\ load.page \in Nat /\ load.page > 0 /\ load.append \in BOOLEAN
  BY <1>1 DEF IInv, TypeOK
<1>3. part \in Part /\ part.kind = "rows" /\ part.question = load.question /\ part.page = load.page
  BY <1>2, PartsTyped DEF Rows
<1>4. entry' = [question |-> load.question, page |-> load.page]
  BY DEF Receive, Asked
<1>5. entry'.question = load.question /\ entry'.page = load.page /\ part = EntryRows'
  BY <1>4 DEF EntryRows
<1>6. Count(load.question, load.page) \in Nat
  BY <1>2, CountTyped
<1>7. button' = IF Count(load.question, load.page) = PageSize THEN "live" ELSE "none"
  BY DEF Receive, HasMore
<1>8. shown \in Seq(Part)
  BY DEF IInv, TypeOK
<1>9. CASE ~load.append /\ Count(load.question, load.page) = 0
  <2>1. shown' = <<Message("empty")>> /\ button' = "none"
    BY <1>7, <1>9, PageSizeAssumption DEF Receive, ShownWith
  <2>2. TypeOK'
    BY <1>1, <1>2, <1>4, <2>1, Ending, Messages DEF IInv, TypeOK
  <2>3. FreshInv'
    BY <1>1, <2>1, Ending, Messages DEF FreshInv
  <2> QED  BY <1>1, <2>1, <2>2, <2>3, Ending, Messages DEF IInv
<1>10. CASE load.append \/ Count(load.question, load.page) # 0
  <2>1. shown' = IF load.append THEN Append(shown, part) ELSE <<part>>
    BY <1>10 DEF Receive, ShownWith
  <2> HIDE DEF part, load
  <2>2. /\ shown' \in Seq(Part) /\ shown' # <<>> /\ shown'[Len(shown')] = part
        /\ \A i \in DOMAIN shown' :
             shown'[i] = part \/ (i \in DOMAIN shown /\ shown'[i] = shown[i])
    BY <1>3, <1>8, <2>1, Appended, Single
  <2>3. TypeOK'
    <3>1. \A i \in DOMAIN shown' : shown'[i].kind = "rows" => shown'[i].question \in Question
      BY <1>2, <1>3, <2>2 DEF IInv, TypeOK
    <3>2. entry' \in [question : Question, page : Nat]
      BY <1>2, <1>4
    <3> QED  BY <1>1, <1>7, <2>2, <3>1, <3>2, Ending DEF TypeOK, load
  <2>4. ButtonContinuesRows' /\ DeadButtonIsReplaced' /\ EndInv'
    BY <1>2, <1>5, <1>7, <2>2
       DEF ButtonContinuesRows, DeadButtonIsReplaced, EndInv, Last, EntryRows
  <2>5. ASSUME ~mixed' PROVE Whole'
    <3>1. CASE load.append
      <4>1. ~mixed /\ s \in Fresh
        BY <1>1, <2>5, <3>1, Ending DEF load
      <4>2. Whole /\ load.question = entry.question /\ load.page = entry.page + 1
        BY <3>1, <4>1 DEF IInv, FreshInv, load
      <4>3. entry.question \in Question /\ entry.page \in Nat
        BY <1>2, <4>2 DEF IInv, TypeOK, NoEntry, Asked, Whole
      <4>4. shown' = Pages(entry.question, entry.page + 1)
        BY <2>1, <3>1, <4>2, <4>3, PagesGrow DEF Whole, part
      <4> QED  BY <1>2, <1>5, <4>2, <4>4 DEF Whole
    <3>2. CASE ~load.append
      <4>1. shown' = <<part>> /\ load.page = 1
        BY <1>1, <2>1, <3>2 DEF IInv, FirstInv, UnderWay, load
      <4> QED  BY <1>2, <1>5, <4>1 DEF Whole, Pages, part
    <3> QED  BY <1>2, <3>1, <3>2
  <2>6. FreshInv'
    BY <1>1, <2>5, Ending DEF FreshInv, load
  <2> QED  BY <1>1, <2>3, <2>4, <2>6, Ending DEF IInv, load
<1> QED  BY <1>2, <1>9, <1>10

\* Logging in and out changes the token alone.
LEMMA TokenKeeps ==
    ASSUME IInv, LogIn \/ LogOut \/ UNCHANGED vars
    PROVE  IInv'
<1>1. UNCHANGED <<shown, button, entry, loads, late, mixed>> /\ token' \in BOOLEAN
  BY DEF LogIn, LogOut, vars, IInv, TypeOK
<1>2. UnderWay' = UnderWay
  BY <1>1 DEF UnderWay
<1>3. TypeOK'
  BY <1>1, <1>2 DEF IInv, TypeOK
<1>4. ButtonContinuesRows' /\ DeadButtonIsReplaced' /\ EndInv' /\ FirstInv'
  BY <1>1, <1>2
     DEF IInv, ButtonContinuesRows, DeadButtonIsReplaced, EndInv, Last, EntryRows, FirstInv
<1>5. FreshInv'
  BY <1>1, <1>2 DEF IInv, FreshInv, NoRows, Whole, Fresh
<1> QED  BY <1>3, <1>4, <1>5 DEF IInv

LEMMA Invariance == Spec => []IInv
<1>1. IInv /\ [Next]_vars => IInv'
  BY Steps, AskKeeps, AskMoreKeeps, AskWithoutTokenKeeps, ReceiveKeeps, FailKeeps, TokenKeeps
<1> QED  BY InitHolds, <1>1, PTL DEF Spec

--------------------------------------------------------------------------------
(* Theorems *)

\* The variables of a list keep their types (app.js:2, 133-163).
THEOREM Typing == Spec => []TypeOK
<1>1. IInv => TypeOK
  BY DEF IInv
<1> QED  BY <1>1, Invariance, PTL

\* Unless a late answer has mixed it, a list shows the pages of one question, each once
\* and in order, however often the button is clicked (app.js:133-163).
THEOREM ListsAnswerOneQuestion == Spec => []OneQuestionInOrder
<1>1. IInv => OneQuestionInOrder
  <2> SUFFICES ASSUME IInv, ~mixed, NEW i \in DOMAIN shown, shown[i].kind = "rows"
               PROVE  shown = Pages(entry.question, entry.page)
    BY DEF OneQuestionInOrder
  <2>1. ~NoRows
    <3>1. shown # <<>>
      OBVIOUS
    <3>2. ASSUME NEW m \in {"loading", "error", "empty"}, shown = <<Message(m)>> PROVE FALSE
      BY <3>2, PartsTyped, Single
    <3> QED  BY <3>1, <3>2 DEF NoRows
  <2> QED  BY <2>1 DEF IInv, FreshInv, Whole
<1> QED  BY <1>1, Invariance, PTL

\* The button goes on below the last rows shown, also in a mixed list (app.js:148-160).
THEOREM ButtonsContinue == Spec => []ButtonContinuesRows
<1>1. IInv => ButtonContinuesRows
  BY DEF IInv
<1> QED  BY <1>1, Invariance, PTL

\* A button without listener is replaced by an answer under way (app.js:137, 146).
THEOREM DeadButtonsAreReplaced == Spec => []DeadButtonIsReplaced
<1>1. IInv => DeadButtonIsReplaced
  BY DEF IInv
<1> QED  BY <1>1, Invariance, PTL

\* Where the button is missing below rows, the question has no more (app.js:148-149).
THEOREM NothingIsLeftBehind == Spec => []NothingLeftBehind
<1>1. IInv => NothingLeftBehind
  <2> SUFFICES ASSUME IInv, button = "none", shown # <<>>, Last.kind = "rows"
               PROVE  Entries[entry.question] < PageSize * (entry.page - 1) + PageSize
    BY DEF NothingLeftBehind, Last
  <2>1. /\ entry.question \in Question /\ entry.page > 0
        /\ Count(entry.question, entry.page) # PageSize
    BY DEF IInv, EndInv
  <2>2. entry.page \in Nat \ {0}
    BY <2>1 DEF IInv, TypeOK, NoEntry, Asked
  <2> QED  BY <2>1, <2>2, CountTyped
<1> QED  BY <1>1, Invariance, PTL
================================================================================
