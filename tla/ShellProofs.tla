---------------------------- MODULE ShellProofs -----------------------------
(***************************************************************************)
(* Proofs about Shell and the evaluator of Control: types, the handler a   *)
(* status lands at, and the code a program exits with, for any nesting of  *)
(* calls, length of scripts, number of options and set of exit codes.      *)
(***************************************************************************)
EXTENDS Shell, SequenceTheorems, FiniteSetTheorems, TLAPS

-----------------------------------------------------------------------------
(* Frames.                                                                 *)

LEMMA BoundIsNat == Bound \in Nat /\ 0 \in 0..Bound /\ 0..MaxItems \subseteq 0..Bound
                      /\ 0..MaxCommands \subseteq 0..Bound
  BY ControlAssumption DEF Bound

\* The fields of a call in progress.
LEMMA FrameFields ==
    ASSUME NEW f \in Frames
    PROVE  /\ f.kind \in DOMAIN Places /\ f.at \in Places[f.kind]
           /\ f.left \in 0..Bound /\ f.held \in Statuses
           /\ f = [kind |-> f.kind, at |-> f.at, left |-> f.left, held |-> f.held]
<1>1. PICK k \in DOMAIN Places :
        f \in [kind : {k}, at : Places[k], left : 0..Bound, held : Statuses]
  BY DEF Frames
<1> HIDE DEF Places, Bound, Statuses
<1> QED BY <1>1

LEMMA FrameIsFrame ==
    ASSUME NEW k \in DOMAIN Places, NEW p \in Places[k], NEW n \in 0..Bound,
           NEW s \in Statuses
    PROVE  [kind |-> k, at |-> p, left |-> n, held |-> s] \in Frames
<1>1. [kind |-> k, at |-> p, left |-> n, held |-> s]
        \in [kind : {k}, at : Places[k], left : 0..Bound, held : Statuses]
  OBVIOUS
<1> QED BY <1>1 DEF Frames

LEMMA NewFrame ==
    ASSUME NEW k \in DOMAIN Places, NEW p \in Places[k], NEW n \in 0..Bound
    PROVE  Frame(k, p, n) \in Frames
  BY FrameIsFrame DEF Frame, Statuses

\* A call in progress goes to another place of its kind, with no more left.
LEMMA FrameChanged ==
    ASSUME NEW f \in Frames, NEW p \in Places[f.kind]
    PROVE  /\ [f EXCEPT !.at = p] \in Frames
           /\ \A s \in Statuses : [f EXCEPT !.at = p, !.held = s] \in Frames
           /\ f.left > 0 => /\ [f EXCEPT !.left = @ - 1] \in Frames
                            /\ [f EXCEPT !.at = p, !.left = @ - 1] \in Frames
<1> DEFINE Kin == [kind : {f.kind}, at : Places[f.kind], left : 0..Bound, held : Statuses]
<1>1. f \in Kin /\ f.left \in 0..Bound /\ f.kind \in DOMAIN Places
  BY FrameFields
<1>2. Kin \subseteq Frames
  BY <1>1 DEF Frames
<1>3. f.left > 0 => f.left - 1 \in 0..Bound
  BY <1>1, BoundIsNat
<1>4. [f EXCEPT !.at = p] \in Kin
  BY <1>1
<1>5. \A s \in Statuses : [f EXCEPT !.at = p, !.held = s] \in Kin
  BY <1>1
<1>6. f.left > 0 => [f EXCEPT !.left = @ - 1] \in Kin
  BY <1>1, <1>3
<1>7. f.left > 0 => [f EXCEPT !.at = p, !.left = @ - 1] \in Kin
  BY <1>1, <1>3
<1> HIDE DEF Kin
<1> QED BY <1>2, <1>4, <1>5, <1>6, <1>7

LEMMA KindsAndPlaces ==
    /\ DOMAIN Places = {"script", "guard", "while", "for", "foreach", "if", "catch",
                        "call", "eval", "ifhash", "logic", "repl"}
    /\ Places["script"] = {"command", "bracket", "expanded"}
    /\ Places["guard"] = {"expand", "bracket"}
    /\ Places["while"] = {"guard", "body"}
    /\ Places["for"] = {"init", "guard", "body", "step", "decide"}
    /\ Places["foreach"] = {"body"}
    /\ Places["if"] = {"guard", "elseif", "branch"}
    /\ Places["catch"] = {"script"}
    /\ Places["call"] = {"script"}
    /\ Places["eval"] = {"script"}
    /\ Places["ifhash"] = {"guard", "branch"}
    /\ Places["logic"] = {"script"}
    /\ Places["repl"] = {"read", "script"}
  BY DEF Places

\* The scripts and the guards that the commands call.
LEMMA CalledFrames == /\ Guard \in Frames /\ Scripts \subseteq Frames
                      /\ Sources \subseteq Frames /\ Frame("repl", "read", 0) \in Frames
<1>1. Guard \in Frames /\ Frame("repl", "read", 0) \in Frames
  BY NewFrame, KindsAndPlaces, BoundIsNat DEF Guard
<1>2. Scripts \subseteq Frames
  BY NewFrame, KindsAndPlaces, BoundIsNat DEF Scripts
<1>3. 0..1 \subseteq 0..MaxCommands
  BY ControlAssumption
<1>4. Sources \subseteq Frames
  BY <1>3, NewFrame, KindsAndPlaces, BoundIsNat DEF Sources
<1> QED BY <1>1, <1>2, <1>4

-----------------------------------------------------------------------------
(* The ways in which the innermost call goes on.                           *)

LEMMA InnermostCall ==
    ASSUME NEW calls \in Seq(Frames), calls # << >>
    PROVE  /\ Len(calls) \in Nat \ {0}
           /\ Last(calls) = calls[Len(calls)] /\ Last(calls) \in Frames
           /\ Front(calls) \in Seq(Frames)
           /\ Len(Front(calls)) = Len(calls) - 1
           /\ \A i \in 1..Len(Front(calls)) : Front(calls)[i] = calls[i]
<1>1. Len(calls) \in Nat \ {0}
  BY EmptySeq, LenProperties
<1>2. Last(calls) = calls[Len(calls)] /\ Last(calls) \in Frames
  BY <1>1, ElementOfSeq DEF Last
<1>3. Front(calls) = SubSeq(calls, 1, Len(calls) - 1)
  BY DEF Front
<1>4. /\ Front(calls) \in Seq(Frames) /\ Len(Front(calls)) = Len(calls) - 1
      /\ \A i \in 1..(Len(calls) - 1) : Front(calls)[i] = calls[i]
  <2> DEFINE n == Len(calls) - 1
  <2>1. /\ 1 \in Int /\ n \in Int /\ n = n - 1 + 1
        /\ \A i \in 1..n : i \in 1..Len(calls)
        /\ n \in Nat
    BY <1>1
  <2>2. \A i \in 1..n : calls[i] \in Frames
    BY <2>1, ElementOfSeq
  <2> HIDE DEF n
  <2>3. SubSeq(calls, 1, n) \in Seq(Frames)
    BY <2>1, <2>2, SubSeqProperties
  <2>4. Len(SubSeq(calls, 1, n)) = n
    BY <2>1, <2>2, SubSeqProperties
  <2>5. \A i \in 1..n : SubSeq(calls, 1, n)[i] = calls[i]
    BY <2>1, <2>2, SubSeqProperties
  <2> QED BY <1>3, <2>3, <2>4, <2>5 DEF n
<1> QED BY <1>1, <1>2, <1>4

Depth == stack \in Seq(Frames) /\ Len(stack) <= MaxDepth

\* Where a step of the evaluator leads to.
Leads == /\ stack' \in Seq(Frames) /\ Len(stack') <= MaxDepth
         /\ status' \in Statuses \cup {"RUN"} /\ value' \in BOOLEAN
         /\ status' # "OK" => ~value'

LEMMA BecomesLeads ==
    ASSUME Depth, stack # << >>, NEW f \in Frames, NEW s \in Statuses \cup {"RUN"},
           Becomes(f, s)
    PROVE  Leads /\ status' = s
<1>1. stack' = [stack EXCEPT ![Len(stack)] = f]
  BY DEF Becomes
<1>2. stack' \in Seq(Frames) /\ Len(stack') = Len(stack)
  BY <1>1, InnermostCall, ExceptSeq DEF Depth
<1> QED BY <1>2 DEF Leads, Depth, Becomes

LEMMA CallsLeads ==
    ASSUME Depth, stack # << >>, NEW f \in Frames, NEW g \in Frames, Calls(f, g)
    PROVE  Leads /\ status' = "RUN"
<1> DEFINE t == [stack EXCEPT ![Len(stack)] = f]
<1>1. t \in Seq(Frames) /\ Len(t) = Len(stack)
  BY InnermostCall, ExceptSeq DEF Depth
<1>2. stack' = Append(t, g) /\ Len(stack) < MaxDepth /\ status' = "RUN" /\ value' = FALSE
  BY DEF Calls
<1> HIDE DEF t
<1>3. stack' \in Seq(Frames) /\ Len(stack') = Len(stack) + 1
  BY <1>1, <1>2, AppendProperties
<1>4. Len(stack') <= MaxDepth
  BY <1>2, <1>3, InnermostCall, ControlAssumption DEF Depth
<1> QED BY <1>2, <1>3, <1>4 DEF Leads

LEMMA ReturnsLeads ==
    ASSUME Depth, stack # << >>, NEW s \in Statuses, Returns(s)
    PROVE  Leads /\ status' = s /\ stack' = Front(stack)
<1>1. stack' = Front(stack) /\ status' = s /\ value' = FALSE
  BY DEF Returns
<1>2. stack' \in Seq(Frames) /\ Len(stack') <= MaxDepth
  BY <1>1, InnermostCall, ControlAssumption DEF Depth
<1> QED BY <1>1, <1>2 DEF Leads

LEMMA ValueLeads ==
    ASSUME Depth, stack # << >>, Value, truth \in BOOLEAN
    PROVE  Leads /\ status' = "OK"
<1>1. stack' = Front(stack) /\ status' = "OK" /\ value' \in BOOLEAN
  BY DEF Value
<1> QED BY <1>1, InnermostCall, ControlAssumption DEF Leads, Depth, Statuses

LEMMA EvaluatesLeads ==
    ASSUME Depth, stack # << >>, NEW p \in Places[Top.kind], Evaluates(p)
    PROVE  Leads /\ status' = "RUN"
<1>1. PICK g \in Scripts : Calls([Top EXCEPT !.at = p], g)
  BY DEF Evaluates
<1>2. [Top EXCEPT !.at = p] \in Frames
  BY InnermostCall, FrameChanged DEF Depth, Top, Statuses
<1> QED BY <1>1, <1>2, CalledFrames, CallsLeads

LEMMA GuardLeads ==
    ASSUME Depth, stack # << >>, NEW p \in Places[Top.kind], EvaluatesGuard(p)
    PROVE  Leads /\ status' = "RUN"
<1>1. [Top EXCEPT !.at = p] \in Frames
  BY InnermostCall, FrameChanged DEF Depth, Top, Statuses
<1> QED BY <1>1, CalledFrames, CallsLeads DEF EvaluatesGuard

LEMMA NextItemLeads ==
    ASSUME Depth, stack # << >>, NEW s \in Statuses, NextItem(s)
    PROVE  /\ Leads
           /\ \/ Top.left > 0 /\ status' = "RUN"
              \/ ~(Top.left > 0) /\ status' = s /\ stack' = Front(stack)
<1>0. Top \in Frames
  BY InnermostCall DEF Depth, Top
<1>1. CASE Top.left > 0
  <2>1. PICK g \in Scripts : Calls([Top EXCEPT !.left = @ - 1], g)
    BY <1>1 DEF NextItem
  <2>2. [Top EXCEPT !.left = @ - 1] \in Frames
    BY <1>0, <1>1, FrameChanged, FrameFields
  <2> QED BY <1>1, <2>1, <2>2, CalledFrames, CallsLeads
<1>2. CASE ~(Top.left > 0)
  BY <1>2, ReturnsLeads DEF NextItem
<1> QED BY <1>1, <1>2

LEMMA OtherwiseLeads ==
    ASSUME Depth, stack # << >>, Top.kind = "if", status \in Statuses, IfOtherwise
    PROVE  /\ Leads
           /\ \/ Top.left > 0 /\ status' = "RUN"
              \/ ~(Top.left > 0) /\ status' = status /\ stack' = Front(stack)
<1>0. Top \in Frames
  BY InnermostCall DEF Depth, Top
<1>1. CASE /\ Top.left > 0
           /\ Calls([Top EXCEPT !.at = "elseif", !.left = @ - 1], Guard)
  <2>1. [Top EXCEPT !.at = "elseif", !.left = @ - 1] \in Frames
    BY <1>0, <1>1, FrameChanged, FrameFields, KindsAndPlaces
  <2> QED BY <1>1, <2>1, CalledFrames, CallsLeads
<1>2. CASE Top.left > 0 /\ Evaluates("branch")
  BY <1>2, EvaluatesLeads, KindsAndPlaces
<1>3. CASE Top.left = 0 /\ Returns(status)
  BY <1>3, ReturnsLeads
<1> QED BY <1>1, <1>2, <1>3 DEF IfOtherwise

-----------------------------------------------------------------------------
(* Every step of the evaluator leads to calls and a status, and a status   *)
(* that has been raised goes on if and only if the innermost call does not *)
(* stop it.                                                                *)

Sane == /\ Depth /\ status \in Statuses \cup {"RUN"}
        /\ value \in BOOLEAN /\ truth \in BOOLEAN
        /\ stack # << >> /\ status # "OK" => ~value

Passes == status' = status /\ stack' = Front(stack)

Rightly == /\ stack # << >> /\ Leads
           /\ status \in Raised => IF Stops(Top, status) THEN status' # status
                                                        ELSE Passes

LEMMA CalledIsFrame ==
    ASSUME Sane, Ready
    PROVE  stack # << >> /\ status = "RUN" /\ Called \in Frames
<1>1. stack # << >> /\ status = "RUN" /\ Top.kind = "script" /\ Top.left > 0
  BY DEF Ready, Works
<1>2. Top \in Frames
  BY <1>1, InnermostCall DEF Sane, Depth, Top
<1>3. Called \in Frames
  BY <1>1, <1>2, FrameChanged, KindsAndPlaces DEF Called, Statuses
<1> QED BY <1>1, <1>3

LEMMA ControlRight ==
    ASSUME Sane, Control
    PROVE  Rightly
<1> DEFINE Started ==
      {Frame("while", "guard", 0), Frame("for", "init", 0),
       Frame("ifhash", "guard", 0), Frame("repl", "read", 0)}
        \cup {Frame("foreach", "body", n) : n \in 1..MaxItems}
        \cup {Frame("logic", "script", n) : n \in 1..MaxItems}
        \cup {Frame("if", "guard", n) : n \in 0..MaxItems}
        \cup {Frame(k, "script", 0) : k \in {"catch", "call", "eval"}}
<1>1. PICK f \in Started : Calls(Called, f)
  BY DEF Control
<1>2. \A n \in 0..MaxItems : n \in 0..Bound
  BY BoundIsNat
<1>3. Started \subseteq Frames
  <2>1. /\ Frame("while", "guard", 0) \in Frames /\ Frame("for", "init", 0) \in Frames
        /\ Frame("ifhash", "guard", 0) \in Frames /\ Frame("repl", "read", 0) \in Frames
    BY NewFrame, KindsAndPlaces, BoundIsNat
  <2>2. \A n \in 0..MaxItems : /\ Frame("foreach", "body", n) \in Frames
                               /\ Frame("logic", "script", n) \in Frames
                               /\ Frame("if", "guard", n) \in Frames
    BY <1>2, NewFrame, KindsAndPlaces
  <2>3. \A k \in {"catch", "call", "eval"} : Frame(k, "script", 0) \in Frames
    BY NewFrame, KindsAndPlaces, BoundIsNat
  <2>4. \A n \in 1..MaxItems : n \in 0..MaxItems
    BY ControlAssumption
  <2> QED BY <2>1, <2>2, <2>3, <2>4
<1>4. Ready
  BY DEF Control
<1> HIDE DEF Started
<1> QED BY <1>1, <1>3, <1>4, CalledIsFrame, CallsLeads DEF Rightly, Sane, Raised

LEMMA WorksRight ==
    ASSUME NEW k, NEW p, Works(k, p), Sane, Leads
    PROVE  Rightly
  BY DEF Works, Rightly, Raised

LEMMA GetsTop ==
    ASSUME NEW k, NEW p, Gets(k, p), Sane
    PROVE  /\ stack # << >> /\ Depth /\ Top \in Frames /\ Top.kind = k /\ Top.at = p
           /\ status \in Statuses /\ (status \in Raised => status # "OK" /\ ~value)
           /\ Top.left \in Nat
<1>1. stack # << >> /\ Top.kind = k /\ Top.at = p /\ status # "RUN" /\ Depth
  BY DEF Gets, Sane
<1>2. Top \in Frames
  BY <1>1, InnermostCall DEF Depth, Top
<1>3. Top.left \in 0..Bound
  BY <1>2, FrameFields
<1> QED BY <1>1, <1>2, <1>3, BoundIsNat DEF Sane, Raised

LEMMA WorksTop ==
    ASSUME NEW k, NEW p, Works(k, p), Sane
    PROVE  /\ stack # << >> /\ Depth /\ Top \in Frames /\ Top.kind = k /\ Top.at = p
           /\ status = "RUN" /\ Top.left \in Nat /\ truth \in BOOLEAN
<1>1. stack # << >> /\ Top.kind = k /\ Top.at = p /\ status = "RUN" /\ Depth
  BY DEF Works, Sane
<1>2. Top \in Frames
  BY <1>1, InnermostCall DEF Depth, Top
<1>3. Top.left \in 0..Bound
  BY <1>2, FrameFields
<1> QED BY <1>1, <1>2, <1>3, BoundIsNat DEF Sane

LEMMA ScriptsRight ==
    ASSUME Sane,
           \/ EmptyScript \/ OpenBracket \/ CloseBracket
           \/ \E s \in Statuses : Simple(s)
           \/ NextCommand
    PROVE  Rightly
<1>1. CASE EmptyScript
  BY <1>1, WorksTop, ReturnsLeads DEF EmptyScript, Rightly, Raised, Statuses
<1>2. CASE OpenBracket
  BY <1>2, WorksTop, EvaluatesLeads, KindsAndPlaces DEF OpenBracket, Rightly, Raised
<1>3. CASE CloseBracket
  <2>1. Gets("script", "bracket")
    BY <1>3 DEF CloseBracket
  <2>2. [Top EXCEPT !.at = "expanded"] \in Frames
    <3>1. Top \in Frames /\ "expanded" \in Places[Top.kind]
      BY <2>1, GetsTop, KindsAndPlaces
    <3> QED BY <3>1, FrameChanged
  <2>3. CASE status = "OK"
    BY <1>3, <2>1, <2>2, <2>3, GetsTop, BecomesLeads DEF CloseBracket, Rightly, Raised
  <2>4. CASE status # "OK"
    BY <1>3, <2>1, <2>4, GetsTop, ReturnsLeads DEF CloseBracket, Rightly, Passes, Stops
  <2> QED BY <2>3, <2>4
<1>4. CASE \E s \in Statuses : Simple(s)
  BY <1>4, CalledIsFrame, BecomesLeads DEF Simple, Rightly, Raised, Sane
<1>5. CASE NextCommand
  <2>1. Gets("script", "command")
    BY <1>5 DEF NextCommand
  <2>2. CASE status = "OK" /\ Top.left > 0
    BY <1>5, <2>1, <2>2, GetsTop, BecomesLeads DEF NextCommand, Rightly, Raised
  <2>3. CASE ~(status = "OK" /\ Top.left > 0)
    BY <1>5, <2>1, <2>3, GetsTop, ReturnsLeads DEF NextCommand, Rightly, Passes, Stops
  <2> QED BY <2>2, <2>3
<1> QED BY <1>1, <1>2, <1>3, <1>4, <1>5

LEMMA GuardsRight ==
    ASSUME Sane, GuardBracket \/ GuardValue \/ GuardFails \/ GuardExpanded
    PROVE  Rightly
<1>1. CASE GuardBracket
  BY <1>1, WorksTop, EvaluatesLeads, KindsAndPlaces DEF GuardBracket, Rightly, Raised
<1>2. CASE GuardValue
  BY <1>2, WorksTop, ValueLeads DEF GuardValue, Rightly, Raised
<1>3. CASE GuardFails
  BY <1>3, WorksTop, ReturnsLeads DEF GuardFails, Rightly, Raised, Statuses
<1>4. CASE GuardExpanded
  <2>1. Gets("guard", "bracket")
    BY <1>4 DEF GuardExpanded
  <2>2. CASE status = "OK"
    BY <1>4, <2>1, <2>2, GetsTop, ValueLeads DEF GuardExpanded, Rightly, Raised, Sane
  <2>3. CASE status # "OK"
    BY <1>4, <2>1, <2>3, GetsTop, ReturnsLeads DEF GuardExpanded, Rightly, Passes, Stops
  <2> QED BY <2>2, <2>3
<1> QED BY <1>1, <1>2, <1>3, <1>4

LEMMA WhileRight ==
    ASSUME Sane, WhileStart \/ WhileGuard \/ WhileBody
    PROVE  Rightly
<1>1. CASE WhileStart
  BY <1>1, WorksTop, GuardLeads, KindsAndPlaces DEF WhileStart, Rightly, Raised
<1>2. CASE WhileGuard
  <2>1. Gets("while", "guard")
    BY <1>2 DEF WhileGuard
  <2>2. CASE status = "OK" /\ value
    BY <1>2, <2>1, <2>2, GetsTop, EvaluatesLeads, KindsAndPlaces
       DEF WhileGuard, Rightly, Raised
  <2>3. CASE ~(status = "OK" /\ value)
    BY <1>2, <2>1, <2>3, GetsTop, ReturnsLeads DEF WhileGuard, Rightly, Passes, Stops
  <2> QED BY <2>2, <2>3
<1>3. CASE WhileBody
  <2>1. Gets("while", "body")
    BY <1>3 DEF WhileBody
  <2>2. Stops(Top, status) <=> status \notin {"EXCEPTION", "RETURN"}
    BY <2>1, GetsTop DEF Stops
  <2>3. CASE status = "BREAK"
    BY <1>3, <2>1, <2>2, <2>3, GetsTop, ReturnsLeads DEF WhileBody, Rightly, Statuses
  <2>4. CASE status \in {"EXCEPTION", "RETURN"}
    BY <1>3, <2>1, <2>2, <2>4, GetsTop, ReturnsLeads DEF WhileBody, Rightly, Passes
  <2>5. CASE status \notin {"BREAK", "EXCEPTION", "RETURN"}
    BY <1>3, <2>1, <2>2, <2>5, GetsTop, GuardLeads, KindsAndPlaces
       DEF WhileBody, Rightly, Raised
  <2> QED BY <2>3, <2>4, <2>5
<1> QED BY <1>1, <1>2, <1>3

LEMMA ForRight ==
    ASSUME Sane, ForStart \/ ForInit \/ ForGuard \/ ForBody \/ ForStep \/ ForDecide
    PROVE  Rightly
<1>1. CASE ForStart
  BY <1>1, WorksTop, EvaluatesLeads, KindsAndPlaces DEF ForStart, Rightly, Raised
<1>2. CASE ForInit
  <2>1. Gets("for", "init")
    BY <1>2 DEF ForInit
  <2>2. CASE status = "OK"
    BY <1>2, <2>1, <2>2, GetsTop, GuardLeads, KindsAndPlaces DEF ForInit, Rightly, Raised
  <2>3. CASE status # "OK"
    BY <1>2, <2>1, <2>3, GetsTop, ReturnsLeads DEF ForInit, Rightly, Passes, Stops
  <2> QED BY <2>2, <2>3
<1>3. CASE ForGuard
  <2>1. Gets("for", "guard")
    BY <1>3 DEF ForGuard
  <2>2. CASE value
    BY <1>3, <2>1, <2>2, GetsTop, EvaluatesLeads, KindsAndPlaces DEF ForGuard, Rightly
  <2>3. CASE ~value
    BY <1>3, <2>1, <2>3, GetsTop, ReturnsLeads DEF ForGuard, Rightly, Passes, Stops
  <2> QED BY <2>2, <2>3
<1>4. CASE ForBody
  <2>1. Gets("for", "body")
    BY <1>4 DEF ForBody
  <2>2. PICK g \in Scripts : Calls([Top EXCEPT !.at = "step", !.held = status], g)
    BY <1>4 DEF ForBody
  <2>3. [Top EXCEPT !.at = "step", !.held = status] \in Frames
    <3>1. Top \in Frames /\ "step" \in Places[Top.kind] /\ status \in Statuses
      BY <2>1, GetsTop, KindsAndPlaces
    <3> QED BY <3>1, FrameChanged
  <2> QED BY <2>1, <2>2, <2>3, GetsTop, CallsLeads, CalledFrames DEF Rightly, Raised, Stops
<1>5. CASE ForStep
  <2>1. Gets("for", "step")
    BY <1>5 DEF ForStep
  <2>2. [Top EXCEPT !.at = "decide"] \in Frames
    <3>1. Top \in Frames /\ "decide" \in Places[Top.kind]
      BY <2>1, GetsTop, KindsAndPlaces
    <3> QED BY <3>1, FrameChanged
  <2> QED BY <1>5, <2>1, <2>2, GetsTop, BecomesLeads DEF ForStep, Rightly, Raised, Stops
<1>6. CASE ForDecide
  <2>1. Works("for", "decide")
    BY <1>6 DEF ForDecide
  <2>2. CASE Top.held \in {"BREAK", "RETURN"}
    BY <1>6, <2>1, <2>2, WorksTop, ReturnsLeads DEF ForDecide, Rightly, Raised, Statuses
  <2>3. CASE Top.held = "EXCEPTION"
    BY <1>6, <2>1, <2>3, WorksTop, ReturnsLeads
       DEF ForDecide, Rightly, Raised, Statuses
  <2>4. CASE Top.held \notin {"BREAK", "RETURN", "EXCEPTION"}
    <3>1. PICK g \in Scripts : Calls([Top EXCEPT !.at = "body", !.held = "OK"], g)
      BY <1>6, <2>4 DEF ForDecide
    <3>2. [Top EXCEPT !.at = "body", !.held = "OK"] \in Frames
      <4>1. Top \in Frames /\ "body" \in Places[Top.kind] /\ "OK" \in Statuses
        BY <2>1, WorksTop, KindsAndPlaces DEF Statuses
      <4> QED BY <4>1, FrameChanged
    <3> QED BY <2>1, <3>1, <3>2, WorksTop, CallsLeads, CalledFrames DEF Rightly, Raised
  <2> QED BY <2>2, <2>3, <2>4
<1> QED BY <1>1, <1>2, <1>3, <1>4, <1>5, <1>6

LEMMA ForeachRight ==
    ASSUME Sane, ForeachStart \/ ForeachBody
    PROVE  Rightly
<1>1. CASE ForeachStart
  BY <1>1, WorksTop, NextItemLeads DEF ForeachStart, Rightly, Raised, Statuses
<1>2. CASE ForeachBody
  <2>1. Gets("foreach", "body")
    BY <1>2 DEF ForeachBody
  <2>2. Stops(Top, status) <=> status \in {"BREAK", "CONTINUE", "RETURN"}
                                 \/ (status # "EXCEPTION" /\ Top.left > 0)
    BY <2>1, GetsTop DEF Stops
  <2>3. CASE status \in {"BREAK", "RETURN"}
    BY <1>2, <2>1, <2>2, <2>3, GetsTop, ReturnsLeads DEF ForeachBody, Rightly, Statuses
  <2>4. CASE status = "EXCEPTION"
    BY <1>2, <2>1, <2>2, <2>4, GetsTop, ReturnsLeads DEF ForeachBody, Rightly, Passes
  <2>5. CASE status = "CONTINUE"
    BY <1>2, <2>1, <2>2, <2>5, GetsTop, NextItemLeads DEF ForeachBody, Rightly, Statuses
  <2>6. CASE status \notin {"BREAK", "RETURN", "EXCEPTION", "CONTINUE"}
    <3>1. NextItem(status)
      BY <1>2, <2>6 DEF ForeachBody
    <3> QED BY <2>1, <2>2, <2>6, <3>1, GetsTop, NextItemLeads DEF Rightly, Passes, Raised
  <2> QED BY <2>3, <2>4, <2>5, <2>6
<1> QED BY <1>1, <1>2

LEMMA IfRight ==
    ASSUME Sane, IfStart \/ IfGuard \/ IfElseif \/ IfBranch
    PROVE  Rightly
<1>1. CASE IfStart
  BY <1>1, WorksTop, GuardLeads, KindsAndPlaces DEF IfStart, Rightly, Raised
<1>2. CASE IfGuard
  <2>1. Gets("if", "guard")
    BY <1>2 DEF IfGuard
  <2>2. Stops(Top, status) <=> Top.left > 0
    BY <2>1, GetsTop DEF Stops
  <2>3. CASE value
    BY <1>2, <2>1, <2>3, GetsTop, EvaluatesLeads, KindsAndPlaces DEF IfGuard, Rightly
  <2>4. CASE ~value
    BY <1>2, <2>1, <2>2, <2>4, GetsTop, OtherwiseLeads DEF IfGuard, Rightly, Passes, Raised
  <2> QED BY <2>3, <2>4
<1>3. CASE IfElseif
  <2>1. Gets("if", "elseif")
    BY <1>3 DEF IfElseif
  <2>2. ~Stops(Top, status)
    BY <2>1, GetsTop DEF Stops
  <2>3. CASE status # "OK"
    <3>1. status \in Statuses /\ ~value
      BY <2>1, <2>3, GetsTop DEF Statuses
    <3>2. Returns(status)
      BY <1>3, <2>3, <3>1 DEF IfElseif
    <3> QED BY <2>1, <2>2, <3>1, <3>2, GetsTop, ReturnsLeads DEF Rightly, Passes
  <2>4. CASE status = "OK" /\ value
    BY <1>3, <2>1, <2>4, GetsTop, EvaluatesLeads, KindsAndPlaces
       DEF IfElseif, Rightly, Raised
  <2>5. CASE status = "OK" /\ ~value
    BY <1>3, <2>1, <2>5, GetsTop, OtherwiseLeads DEF IfElseif, Rightly, Raised
  <2> QED BY <2>1, <2>3, <2>4, <2>5
<1>4. CASE IfBranch
  <2>1. Gets("if", "branch")
    BY <1>4 DEF IfBranch
  <2> QED BY <1>4, <2>1, GetsTop, ReturnsLeads DEF IfBranch, Rightly, Passes, Stops
<1> QED BY <1>1, <1>2, <1>3, <1>4

LEMMA OneScriptRight ==
    ASSUME Sane, \/ ScriptStart \/ CatchEnd \/ CallEnd \/ EvalEnd
                 \/ IfHashStart \/ IfHashGuard \/ IfHashEnd
    PROVE  Rightly
<1>1. CASE ScriptStart
  <2>1. PICK k \in {"catch", "call", "eval"} : Works(k, "script")
    BY <1>1 DEF ScriptStart
  <2> QED BY <1>1, <2>1, WorksTop, EvaluatesLeads, KindsAndPlaces
          DEF ScriptStart, Rightly, Raised
<1>2. CASE CatchEnd
  BY <1>2, GetsTop, ReturnsLeads DEF CatchEnd, Rightly, Statuses, Raised, Stops
<1>3. CASE CallEnd
  <2>1. Gets("call", "script")
    BY <1>3 DEF CallEnd
  <2>2. Stops(Top, status) <=> status = "RETURN"
    BY <2>1, GetsTop DEF Stops
  <2>3. CASE status = "RETURN"
    BY <1>3, <2>1, <2>2, <2>3, GetsTop, ReturnsLeads DEF CallEnd, Rightly, Statuses
  <2>4. CASE status # "RETURN"
    BY <1>3, <2>1, <2>2, <2>4, GetsTop, ReturnsLeads DEF CallEnd, Rightly, Passes
  <2> QED BY <2>3, <2>4
<1>4. CASE EvalEnd
  BY <1>4, GetsTop, ReturnsLeads DEF EvalEnd, Rightly, Passes, Stops
<1>5. CASE IfHashStart
  BY <1>5, WorksTop, GuardLeads, KindsAndPlaces DEF IfHashStart, Rightly, Raised
<1>6. CASE IfHashGuard
  <2>1. Gets("ifhash", "guard")
    BY <1>6 DEF IfHashGuard
  <2>2. CASE status = "OK"
    BY <1>6, <2>1, <2>2, GetsTop, EvaluatesLeads, KindsAndPlaces
       DEF IfHashGuard, Rightly, Raised
  <2>3. CASE status # "OK"
    BY <1>6, <2>1, <2>3, GetsTop, ReturnsLeads DEF IfHashGuard, Rightly, Passes, Stops
  <2> QED BY <2>2, <2>3
<1>7. CASE IfHashEnd
  BY <1>7, GetsTop, ReturnsLeads DEF IfHashEnd, Rightly, Passes, Stops
<1> QED BY <1>1, <1>2, <1>3, <1>4, <1>5, <1>6, <1>7

LEMMA LogicAndReadRight ==
    ASSUME Sane, LogicStart \/ LogicNext \/ ReadEnd \/ ReadLine \/ ReadResult
    PROVE  Rightly
<1>1. CASE LogicStart
  BY <1>1, WorksTop, NextItemLeads DEF LogicStart, Rightly, Raised, Statuses
<1>2. CASE LogicNext
  <2>1. Gets("logic", "script") /\ "OK" \in Statuses
    BY <1>2 DEF LogicNext, Statuses
  <2>2. Leads /\ status' \in {"OK", "RUN"}
    BY <1>2, <2>1, GetsTop, NextItemLeads, ReturnsLeads DEF LogicNext
  <2> QED BY <2>1, <2>2, GetsTop DEF Rightly, Raised, Stops
<1>3. CASE ReadEnd
  BY <1>3, WorksTop, ReturnsLeads DEF ReadEnd, Rightly, Raised, Statuses
<1>4. CASE ReadLine
  BY <1>4, WorksTop, EvaluatesLeads, KindsAndPlaces DEF ReadLine, Rightly, Raised
<1>5. CASE ReadResult
  <2>1. Gets("repl", "script") /\ "OK" \in Statuses
    BY <1>5 DEF ReadResult, Statuses
  <2>2. [Top EXCEPT !.at = "read"] \in Frames
    BY <2>1, GetsTop, FrameChanged, KindsAndPlaces
  <2>3. Leads /\ status' \in {"OK", "RUN"}
    BY <1>5, <2>1, <2>2, GetsTop, ReturnsLeads, BecomesLeads DEF ReadResult
  <2> QED BY <2>1, <2>3, GetsTop DEF Rightly, Raised, Stops
<1> QED BY <1>1, <1>2, <1>3, <1>4, <1>5

LEMMA InterpretRight == ASSUME Sane, Interpret PROVE Rightly
  BY ScriptsRight, ControlRight, GuardsRight, WhileRight, ForRight, ForeachRight,
     IfRight, OneScriptRight, LogicAndReadRight DEF Interpret

-----------------------------------------------------------------------------
(* The handler of a status.                                                *)

\* The least element of a set of natural numbers, by the least of the finite
\* sets 0..x.
LEMMA LeastElement ==
    ASSUME NEW T, T \subseteq Nat, T # {}
    PROVE  \E x \in T : \A y \in T : x <= y
<1> DEFINE U == {0..x : x \in T}
           R == StrictSubsetOrdering(Nat)
<1>1. IsWellFoundedOn(R, FiniteSubsetsOf(Nat))
  BY FS_StrictSubsetOrderingWellFounded
<1>2. U \subseteq FiniteSubsetsOf(Nat) /\ U # {}
  <2>1. \A x \in T : 0..x \in SUBSET Nat /\ IsFiniteSet(0..x)
    BY FS_Interval
  <2> QED BY <2>1 DEF FiniteSubsetsOf
<1>3. PICK u \in U : \A v \in U : ~ (<<v, u>> \in R)
  <2> HIDE DEF U, R
  <2> QED BY <1>1, <1>2, WFMin, Zenon
<1>4. PICK x \in T : u = 0..x
  OBVIOUS
<1>5. ASSUME NEW y \in T, y < x PROVE FALSE
  <2>1. 0..y \subseteq 0..x /\ x \in 0..x /\ x \notin 0..y /\ 0..x \subseteq Nat
    BY <1>5
  <2>2. 0..y \in U /\ <<0..y, 0..x>> \in R
    BY <2>1 DEF StrictSubsetOrdering
  <2> QED BY <2>2, <1>3, <1>4
<1> QED BY <1>5

LEMMA InnermostIsGreatest ==
    ASSUME NEW n \in Nat, NEW S, S \subseteq 0..n, S # {}
    PROVE  Innermost(S) \in S /\ \A j \in S : j <= Innermost(S)
<1> DEFINE T == {n - i : i \in S}
<1>1. T \subseteq Nat /\ T # {}
  OBVIOUS
<1>2. PICK x \in T : \A y \in T : x <= y
  <2> HIDE DEF T
  <2> QED BY <1>1, LeastElement
<1>3. PICK i \in S : x = n - i
  OBVIOUS
<1>4. \A j \in S : n - i <= n - j
  BY <1>2, <1>3
<1>5. \A j \in S : j <= i
  BY <1>4
<1> QED BY <1>5 DEF Innermost

\* h is the innermost of the calls that stops s, 0 if none does.
Handles(h, calls, s) ==
    /\ h \in 0..Len(calls)
    /\ h # 0 => Stops(calls[h], s)
    /\ \A i \in (h + 1)..Len(calls) : ~Stops(calls[i], s)

LEMMA HandlerOfHandles ==
    ASSUME NEW calls \in Seq(Frames), NEW s
    PROVE  Handles(HandlerOf(calls, s), calls, s)
<1> DEFINE S == {0} \cup {i \in 1..Len(calls) : Stops(calls[i], s)}
           h == HandlerOf(calls, s)
<1>1. Len(calls) \in Nat /\ S \subseteq 0..Len(calls) /\ S # {}
  BY LenProperties
<1>2. h = Innermost(S)
  BY DEF HandlerOf
<1>3. h \in S /\ \A j \in S : j <= h
  <2> HIDE DEF S, h
  <2> QED BY <1>1, <1>2, InnermostIsGreatest
<1> HIDE DEF h
<1>4. h \in 0..Len(calls) /\ (h # 0 => Stops(calls[h], s))
  BY <1>1, <1>3
<1>5. ASSUME NEW i \in (h + 1)..Len(calls) PROVE ~Stops(calls[i], s)
  BY <1>1, <1>3, <1>4
<1>6. Handles(h, calls, s)
  BY <1>4, <1>5 DEF Handles
<1> QED BY <1>6 DEF h

\* The innermost call stops s if and only if it is the handler; when it does
\* not, the handler is that of the calls around it.
LEMMA HandlerOfOuter ==
    ASSUME NEW calls \in Seq(Frames), calls # << >>, NEW s, NEW h, Handles(h, calls, s)
    PROVE  /\ Stops(Last(calls), s) <=> h = Len(calls)
           /\ ~Stops(Last(calls), s) => Handles(h, Front(calls), s)
<1>1. /\ Len(calls) \in Nat \ {0} /\ Last(calls) = calls[Len(calls)]
      /\ Len(Front(calls)) = Len(calls) - 1
      /\ \A i \in 1..Len(Front(calls)) : Front(calls)[i] = calls[i]
  BY InnermostCall
<1>2. /\ h \in 0..Len(calls) /\ (h # 0 => Stops(calls[h], s))
      /\ \A i \in (h + 1)..Len(calls) : ~Stops(calls[i], s)
  BY DEF Handles
<1>3. Stops(Last(calls), s) <=> h = Len(calls)
  BY <1>1, <1>2
<1>4. ASSUME ~Stops(Last(calls), s) PROVE Handles(h, Front(calls), s)
  <2>1. h \in 0..Len(Front(calls))
    BY <1>1, <1>2, <1>3, <1>4
  <2>2. h # 0 => Stops(Front(calls)[h], s)
    BY <1>1, <1>2, <2>1
  <2>3. \A i \in (h + 1)..Len(Front(calls)) : ~Stops(Front(calls)[i], s)
    BY <1>1, <1>2, <2>1
  <2> QED BY <2>1, <2>2, <2>3 DEF Handles
<1> QED BY <1>3, <1>4

-----------------------------------------------------------------------------
(* The inductive invariant: types, the handler of the status on its way,   *)
(* and what the history says about the code left in returnInfo.            *)

HandlerRight == /\ handler \in 0..MaxDepth
                /\ status \in Raised /\ stack # << >> => Handles(handler, stack, status)

\* The exit on its way, if it had an argument, is the one in returnInfo; an
\* argument in returnInfo is that of this exit unless one was stopped.
ExitRight == /\ given # {} => status = "EXIT" /\ given = {info}
             /\ info # 0 => dropped \/ given = {info}
             /\ doing = "over" /\ status = "EXIT" => code = EightBits(info)
             /\ doing = "failed" => code = 1

IInv == Sane /\ ShellTypeOK /\ HandlerRight /\ ExitRight

LEMMA InitIInv == Init => IInv
<1> SUFFICES ASSUME Init PROVE IInv
  OBVIOUS
<1>1. Depth
  BY ControlAssumption, EmptySeq DEF Init, Depth
<1>2. Sane
  BY <1>1 DEF Init, Sane, Statuses
<1>3. ShellTypeOK
  <2>1. dropped \in BOOLEAN
    BY Zenon DEF Init
  <2>2. handler \in 0..MaxDepth /\ options \in 0..MaxOptions
    BY ShellAssumption, ControlAssumption DEF Init
  <2>3. TypeOK
    BY <1>2, <2>2 DEF Sane, Depth, TypeOK
  <2>4. code \in 0..255 /\ info \in Codes \cup {0} /\ given \in Arguments
    BY DEF Init, Arguments
  <2>5. doing = "options" /\ stack = << >>
    BY DEF Init
  <2> QED BY <2>1, <2>2, <2>3, <2>4, <2>5 DEF ShellTypeOK
<1>4. HandlerRight /\ ExitRight
  BY ControlAssumption DEF Init, HandlerRight, ExitRight
<1> QED BY <1>2, <1>3, <1>4 DEF IInv

\* What the history does in a step that leaves the exit code alone.
LEMMA FollowedExit ==
    ASSUME IInv, info' = info, Followed(given),
           doing' = "over" /\ status' = "EXIT" => code' = EightBits(info),
           doing' = "failed" => code' = 1
    PROVE  ExitRight' /\ given' \in Arguments /\ dropped' \in BOOLEAN
<1>1. given \in Arguments /\ {} \in Arguments /\ dropped \in BOOLEAN
  BY DEF IInv, ShellTypeOK, Arguments
<1>2. CASE status' = "EXIT"
  BY <1>1, <1>2 DEF IInv, ExitRight, Followed
<1>3. CASE status' # "EXIT"
  BY <1>1, <1>3 DEF IInv, ExitRight, Followed
<1> QED BY <1>2, <1>3

\* A raised status goes on to its handler.
LEMMA LandsRightly ==
    ASSUME IInv, Rightly, status \in Raised
    PROVE  /\ status' = status <=> Len(stack) # handler
           /\ status' = status => Handles(handler, stack', status')
<1>1. /\ stack \in Seq(Frames) /\ stack # << >> /\ Handles(handler, stack, status)
      /\ IF Stops(Top, status) THEN status' # status ELSE Passes
  BY DEF IInv, Sane, Depth, HandlerRight, Rightly
<1>2. /\ Stops(Top, status) <=> handler = Len(stack)
      /\ ~Stops(Top, status) => Handles(handler, Front(stack), status)
  BY <1>1, HandlerOfOuter DEF Top
<1> QED BY <1>1, <1>2 DEF Passes

LEMMA EvaluateIInv == ASSUME IInv, Evaluate PROVE IInv'
<1>1. Rightly /\ Interpret /\ stack # << >>
  BY InterpretRight DEF Evaluate, IInv, Rightly
<1>2. Leads /\ truth' = truth
  BY <1>1 DEF Rightly, Interpret
<1>3. Sane'
  BY <1>2 DEF Leads, Sane, Depth, IInv
<1>4. doing \notin {"options", "over", "failed"} /\ UNCHANGED <<doing, options, code>>
  BY <1>1 DEF IInv, ShellTypeOK, Evaluate
<1>5. HandlerRight'
  <2>1. handler' = IF status' \notin Raised THEN 0
                   ELSE IF status' = status THEN handler
                   ELSE HandlerOf(stack', status')
    BY <1>1 DEF Interpret
  <2>2. CASE status' \notin Raised
    BY <2>1, <2>2, ControlAssumption DEF HandlerRight
  <2>3. CASE status' \in Raised /\ status' = status
    BY <2>1, <2>3, <1>1, LandsRightly DEF HandlerRight, IInv
  <2>4. CASE status' \in Raised /\ status' # status
    <3>1. handler' = HandlerOf(stack', status')
      BY <2>1, <2>4
    <3>2. stack' \in Seq(Frames) /\ Len(stack') <= MaxDepth
      BY <1>2 DEF Leads
    <3>3. Handles(handler', stack', status')
      BY <3>1, <3>2, HandlerOfHandles
    <3>4. handler' \in 0..MaxDepth
      BY <3>2, <3>3, LenProperties, ControlAssumption DEF Handles
    <3> QED BY <3>3, <3>4 DEF HandlerRight
  <2> QED BY <2>2, <2>3, <2>4
<1>6. /\ ExitRight' /\ info' \in Codes \cup {0}
      /\ given' \in Arguments /\ dropped' \in BOOLEAN
  <2>1. CASE status = "RUN" /\ status' = "EXIT"
    <3>1. PICK a \in Arguments : ExitInfo(a) /\ Followed(a)
      BY <2>1 DEF Evaluate
    <3>2. given = {} /\ (info # 0 => dropped)
      BY <2>1 DEF IInv, ExitRight
    <3>3. dropped \in BOOLEAN /\ info \in Codes \cup {0}
      BY DEF IInv, ShellTypeOK
    <3>4. given' = a /\ dropped' = dropped
      BY <2>1, <3>1 DEF Followed
    <3>5. doing' \notin {"over", "failed"}
      BY <1>4
    <3>6. CASE a = {}
      BY <2>1, <3>1, <3>2, <3>3, <3>4, <3>5, <3>6 DEF ExitInfo, ExitRight
    <3>7. CASE a # {}
      <4>1. PICK n \in Codes : a = {n}
        BY <3>7 DEF Arguments
      <4>2. info' = n
        BY <3>1, <3>7, <4>1 DEF ExitInfo
      <4> QED BY <2>1, <3>3, <3>4, <3>5, <4>1, <4>2 DEF ExitRight
    <3> QED BY <3>6, <3>7
  <2>2. CASE ~(status = "RUN" /\ status' = "EXIT")
    <3>1. info' = info /\ Followed(given)
      BY <2>2 DEF Evaluate
    <3> QED BY <3>1, <1>4, FollowedExit DEF IInv, ShellTypeOK
  <2> QED BY <2>1, <2>2
<1>7. ShellTypeOK'
  BY <1>3, <1>4, <1>5, <1>6
     DEF IInv, ShellTypeOK, TypeOK, Sane, Depth, HandlerRight
<1> QED BY <1>3, <1>5, <1>6, <1>7 DEF IInv

LEMMA RunsType ==
    ASSUME NEW what \in {"source", "include", "script"}, NEW F, F \subseteq Frames, Runs(what, F)
    PROVE  /\ stack' \in Seq(Frames) /\ Len(stack') <= MaxDepth
           /\ status' = "RUN" /\ value' = FALSE
           /\ doing' = what /\ info' = info /\ code' = code
<1>1. PICK f \in F : stack' = <<f>>
  BY DEF Runs
<1>2. stack' \in Seq(Frames) /\ Len(stack') = 1
  BY <1>1
<1> QED BY <1>2, ControlAssumption DEF Runs

LEMMA EightBitsRange == \A n \in Int : EightBits(n) \in 0..255
  BY DEF EightBits

LEMMA ExitsType ==
    ASSUME IInv, stack = << >>, NEW s \in Statuses \cup {"RUN"}, Exits(s)
    PROVE  /\ doing' = "over" /\ code' \in 0..255
           /\ status' = s /\ stack' = << >> /\ value' = value /\ options' = options
           /\ info' = info /\ (status' = "EXIT" => code' = EightBits(info))
<1>1. info \in Int
  BY ShellAssumption DEF IInv, ShellTypeOK
<1>2. StatusToCode(s) \in Int
  BY <1>1 DEF StatusToCode
<1>3. code' = EightBits(StatusToCode(s)) /\ (s = "EXIT" => StatusToCode(s) = info)
  BY DEF Exits, StatusToCode
<1>4. code' \in 0..255
  BY <1>2, <1>3, EightBitsRange
<1>5. s = "EXIT" => code' = EightBits(info)
  BY <1>3
<1> QED BY <1>4, <1>5 DEF Exits

\* What main does to the state of the evaluator and of itself.
MainLeads == /\ Depth' /\ status' \in Statuses \cup {"RUN"} /\ value' \in BOOLEAN
             /\ (stack' # << >> => status' = "RUN" /\ ~value')
             /\ doing' \in {"options", "source", "include", "script", "over", "failed"}
             /\ (doing' \in {"options", "over", "failed"} => stack' = << >>)
             /\ options' \in 0..MaxOptions /\ code' \in 0..255
             /\ info' = info /\ (doing' = "over" /\ status' = "EXIT" => code' = EightBits(info))
             /\ (doing' = "failed" => code' = 1)

LEMMA MainLeadsOn == ASSUME IInv, Main PROVE stack = << >> /\ MainLeads
<1>1. /\ Depth /\ status \in Statuses \cup {"RUN"} /\ value \in BOOLEAN
      /\ options \in 0..MaxOptions /\ code \in 0..255
      /\ (doing \in {"options", "over", "failed"} => stack = << >>)
      /\ MaxOptions \in Nat
  BY ShellAssumption DEF IInv, Sane, ShellTypeOK
<1>2. stack = << >>
  BY <1>1 DEF Main, Source, EndOfSource, Include, EndOfInclude, Ignored, Help, BadOption,
                  Option, Script, EndOfScript
<1> SUFFICES MainLeads
  BY <1>2
<1>3. ASSUME NEW s \in Statuses \cup {"RUN"}, Exits(s) PROVE MainLeads
  <2>1. /\ doing' = "over" /\ code' \in 0..255
        /\ status' = s /\ stack' = << >> /\ value' = value /\ options' = options
        /\ info' = info /\ (status' = "EXIT" => code' = EightBits(info))
    BY <1>2, <1>3, ExitsType
  <2>2. Depth'
    BY <1>1, <1>2, <2>1 DEF Depth
  <2> QED BY <1>1, <2>1, <2>2 DEF MainLeads
<1>4. ASSUME Fails PROVE MainLeads
  BY <1>1, <1>2, <1>4 DEF MainLeads, Fails, Depth
<1>5. ASSUME NextOption PROVE MainLeads
  BY <1>1, <1>2, <1>5 DEF MainLeads, NextOption, Depth
<1>6. ASSUME NEW what \in {"include", "script"}, Missing(what), options' \in 0..MaxOptions
      PROVE  MainLeads
  BY <1>1, <1>2, <1>6 DEF MainLeads, Missing, Depth, Statuses, Raised
<1>11. Option => options - 1 \in 0..MaxOptions
  BY <1>1 DEF Option
<1>12. CASE Source
  <2>1. Runs("source", Sources) /\ options' \in 0..MaxOptions
    BY <1>12, <1>11 DEF Source
  <2> QED BY <1>1, <2>1, RunsType, CalledFrames DEF MainLeads, Depth
<1>13. CASE Include
  <2>1. options' \in 0..MaxOptions
    BY <1>13, <1>11 DEF Include
  <2>2. CASE Runs("include", Sources)
    BY <1>1, <2>1, <2>2, RunsType, CalledFrames DEF MainLeads, Depth
  <2>3. CASE Missing("include")
    BY <1>6, <2>1, <2>3
  <2> QED BY <1>13, <2>2, <2>3 DEF Include
<1>14. CASE Ignored
  BY <1>1, <1>2, <1>11, <1>14 DEF Ignored, Option, MainLeads, Depth
<1>15. CASE EndOfSource \/ EndOfInclude
  BY <1>4, <1>5, <1>15 DEF EndOfSource, EndOfInclude
<1>7. CASE Help
  BY <1>1, <1>3, <1>7 DEF Help, Statuses
<1>8. CASE BadOption
  BY <1>3, <1>8 DEF BadOption, Statuses, Raised
<1>9. CASE Script
  <2>1. CASE Runs("script", Scripts \cup {Frame("repl", "read", 0)}) /\ UNCHANGED options
    <3>1. Scripts \cup {Frame("repl", "read", 0)} \subseteq Frames
      BY CalledFrames
    <3> QED BY <1>1, <2>1, <3>1, RunsType DEF MainLeads, Depth
  <2>2. CASE Missing("script")
    BY <1>1, <1>6, <1>9, <2>2 DEF Script
  <2> QED BY <1>9, <2>1, <2>2 DEF Script
<1>10. CASE EndOfScript
  BY <1>1, <1>3, <1>10 DEF EndOfScript
<1> QED BY <1>7, <1>8, <1>9, <1>10, <1>12, <1>13, <1>14, <1>15 DEF Main

LEMMA MainIInv == ASSUME IInv, Main PROVE IInv'
<1>1. MainLeads /\ handler' = 0 /\ truth' = truth /\ Followed(given)
  BY MainLeadsOn DEF Main
<1>2. Sane'
  BY <1>1 DEF MainLeads, Sane, IInv
<1>3. HandlerRight'
  BY <1>1, ControlAssumption DEF HandlerRight, MainLeads, Raised
<1>4. ExitRight' /\ given' \in Arguments /\ dropped' \in BOOLEAN
  BY <1>1, FollowedExit DEF MainLeads
<1>5. ShellTypeOK'
  BY <1>1, <1>2, <1>3, <1>4 DEF IInv, ShellTypeOK, TypeOK, Sane, Depth, HandlerRight, MainLeads
<1> QED BY <1>2, <1>3, <1>4, <1>5 DEF IInv

LEMMA NextIInv == ASSUME IInv, [Next]_<<vars, main>> PROVE IInv'
<1>1. CASE Evaluate
  BY <1>1, EvaluateIInv
<1>2. CASE Main
  BY <1>2, MainIInv
<1>3. CASE TurnFalse /\ UNCHANGED main
  BY <1>3 DEF TurnFalse, main, IInv, Sane, Depth, ShellTypeOK, TypeOK, HandlerRight, ExitRight
<1>4. CASE UNCHANGED <<vars, main>>
  BY <1>4 DEF vars, main, IInv, Sane, Depth, ShellTypeOK, TypeOK, HandlerRight, ExitRight
<1> QED BY <1>1, <1>2, <1>3, <1>4 DEF Next, Done

LEMMA SpecIInv == Spec => []IInv
  BY InitIInv, NextIInv, PTL DEF Spec

\* The calls in progress, the statuses and the codes of a process that has
\* ended are of their types, and the calls are over whenever main works.
THEOREM ShellTypes == Spec => []ShellTypeOK
<1>1. IInv => ShellTypeOK
  BY DEF IInv
<1> QED BY <1>1, SpecIInv, PTL

\* When main returns the status of an exit n the code is n in 8 bits, and that
\* of a plain exit is 0 unless an exit with a code was stopped before; an exit of
\* an included file ends the process with 1 (exit, StatusToCode and main).
THEOREM ExitCodes == Spec => []ExitCodeKept
<1>1. IInv => ExitCodeKept
  <2> SUFFICES ASSUME IInv, status = "EXIT" PROVE ExitCodeKept
    BY DEF ExitCodeKept
  <2>1. \A n \in given : n = info
    BY DEF IInv, ExitRight
  <2>2. given = {} => dropped \/ info = 0
    BY DEF IInv, ExitRight
  <2>3. EightBits(0) = 0
    BY DEF EightBits
  <2> QED BY <2>1, <2>2, <2>3 DEF IInv, ExitRight, ExitCodeKept
<1> QED BY <1>1, SpecIInv, PTL

\* A status goes through every call up to the innermost one that deals with it
\* and no further, for any nesting of loops, procs, brackets and guards.
THEOREM StatusesLand == Spec => LandsAtHandler
<1> DEFINE Lands ==
      (status \in Raised) /\ stack # << >> /\ <<stack, status>>' # <<stack, status>>
         => (status' = status <=> Len(stack) # handler)
<1>1. ASSUME IInv, [Next]_<<vars, main>> PROVE [Lands]_vars
  <2>1. CASE Evaluate
    BY <1>1, <2>1, InterpretRight, LandsRightly DEF Evaluate, IInv
  <2>2. CASE Main
    BY <1>1, <2>2, MainLeadsOn
  <2>3. CASE TurnFalse \/ UNCHANGED <<vars, main>>
    BY <2>3 DEF TurnFalse, vars
  <2> QED BY <1>1, <2>1, <2>2, <2>3 DEF Next, Done
<1> QED BY <1>1, SpecIInv, PTL DEF Spec, LandsAtHandler

=============================================================================
