------------------------------ MODULE MCStudy ------------------------------
(***************************************************************************)
(* The programs around the learner's own machine, each on a small          *)
(* instance: the device sign-in, the subject conformance gate and the      *)
(* schema validator under it, the motivation layer, the site export and    *)
(* the launch gate.  They share no state, so a behaviour is one of the     *)
(* parts at work while the others stay as they start.  All are extended,   *)
(* and their properties are checked under their own names.                 *)
(***************************************************************************)
EXTENDS DeviceLogin, LaunchGate, SiteExport, Conformance, Motivation, SchemaValidator,
        TLC

VARIABLE part    \* the part at work

vars == <<part, loginVars, doctorVars, motivationVars, validatorVars, exportVars,
          gateVars>>

-----------------------------------------------------------------------------
(* The conformance gate: one cloze story with every shape of a blank, and  *)
(* a second story with whole exercises.                                    *)

Blanks(ids, options, answers_) == [id : ids, options : options, answer : answers_]
Exercise(id, text, blanks) ==
    [id |-> id, cloze |-> TRUE, item |-> "word", text |-> text, blanks |-> blanks]

AnyBlank == {Odd} \cup Blanks({Missing, "a", "b"}, {Odd, <<"v">>, <<"v", "w">>},
                              {Missing, "w", "u"})
GoodBlank(id) == [id |-> id, options |-> <<"v", "w">>, answer |-> "w"]
SecondBlank == {Odd, GoodBlank("a"), GoodBlank("b"),
                [GoodBlank("b") EXCEPT !.answer = "u"]}
AnyBlanks == {Missing, Odd, <<>>} \cup {<<b>> : b \in AnyBlank}
                 \cup {<<b, c>> : b \in AnyBlank, c \in SecondBlank}
AnyText == {Missing, Odd, {}, {"a"}, {"b"}, {"a", "b"}}

Good(id) == Exercise(id, {"a"}, <<GoodBlank("a")>>)
Samples == {Good(Missing), Good("e1"), Good("e2"),
            [Good("e1") EXCEPT !.item = Missing],
            [Good("e1") EXCEPT !.cloze = FALSE],
            Exercise("e1", Missing, Missing)}

\* These and other sets are named, and built as {x : x \in S}, for TLC to
\* evaluate them once.
DoctorStoryLists == {<<>>, <<"s1">>, <<"s1", "s2">>, <<"s1", "s1">>}
DoctorOtherContents == {x : x \in {<<>>} \cup {<<e>> : e \in Samples}}
DoctorContents ==
    {x : x \in {<<Exercise("e1", t, b)>> : t \in AnyText, b \in AnyBlanks}
                   \cup {<<e, f>> : e, f \in Samples} \cup DoctorOtherContents}

-----------------------------------------------------------------------------
(* The motivation layer: three outcomes in four days, over two subjects.   *)

Event(subject, item, activity, result, correct, total) ==
    [subject |-> subject, item |-> item, activity |-> activity, result |-> result,
     correct |-> correct, total |-> total]
StudyEvents ==
    {Event(1, 1, "practice", "pass", 0, 0), Event(1, 2, "practice", "pass", 2, 1),
     Event(1, 2, "practice", "partial", 1, 2), Event(2, 1, "story", "pass", 0, 0),
     Event(2, 1, "practice", "partial", 1, 8), Event(2, 1, "lesson", "fail", 1, 3)}

Fact(done, total, mastered) == [done |-> done, total |-> total, mastered |-> mastered]
StudyFacts ==
    {<<NoFact, NoFact>>, <<Fact("yes", 0, 0), NoFact>>,
     <<Fact("unsaid", 1, 1), Fact("yes", 1, 0)>>,
     <<Fact("unsaid", 0, 0), Fact("yes", 1, 1)>>,
     <<Fact("no", 1, 1), Fact("yes", 1, 1)>>,
     <<Fact("no", 1, 1), Fact("unsaid", 1, 0)>>}

-----------------------------------------------------------------------------
(* The schema validator: scalars, arrays and objects of them, and schemas  *)
(* of one keyword or one combination around one.  No two of the values are *)
(* equal to Python without being equal as JSON (True and 1, 2 and 2.0).    *)

Null == [kind |-> "null"]
True == [kind |-> "boolean", truth |-> TRUE]
Whole(n) == [kind |-> "integer", floor |-> n]
Half(n) == [kind |-> "fraction", floor |-> n]
Str(letters) == [kind |-> "string", letters |-> letters]
Arr(elements) == [kind |-> "array", elements |-> elements]
Obj(fields) == [kind |-> "object", fields |-> fields]

Scalars == {Null, True, Whole(2), Whole(3), Half(2), Str(<<>>), Str(<<"a">>),
            Str(<<"a", "b">>)}
Inner == Scalars \cup {Arr(<<>>), Obj(<<>>), Obj([a |-> Whole(3)])}
Values == Inner
    \cup {Arr(<<x>>) : x \in Scalars}
    \cup {Arr(<<Whole(2), x>>) : x \in {Whole(2), Half(2), Null}}
    \cup {Obj([a |-> x]) : x \in Inner}
    \cup {Obj([a |-> x, b |-> y]) : x, y \in {Whole(2), Str(<<"a">>)}}

Integer == [type |-> <<"integer">>]
Ref(local, name) == [ref |-> [local |-> local, name |-> name]]
Leaves ==
    {[type |-> <<t>>] :
        t \in {"integer", "number", "string", "null", "array", "object", "boolean"}}
    \cup {[type |-> <<"null", "string">>], [type |-> <<"integer", "array">>],
          [title |-> <<>>], [enum |-> <<Whole(2), Str(<<"a">>)>>], [const |-> Null],
          [type |-> <<"string">>, pattern |-> {<<"a">>}], [minLength |-> 1],
          [type |-> <<"number">>, minimum |-> 3], [minimum |-> 3],
          [type |-> <<"integer">>, maximum |-> 3],
          Ref(FALSE, "story"), Ref(FALSE, "none")}
Around(s) ==
    {[items |-> s], [type |-> <<"array">>, items |-> s, minItems |-> 1],
     [properties |-> [a |-> s]], [not |-> s], [type |-> <<"object">>, not |-> s],
     [type |-> <<"object">>, properties |-> [a |-> s], required |-> {"a"},
      additionalProperties |-> [allowed |-> FALSE]],
     [additionalProperties |-> [schema |-> s]],
     [properties |-> [b |-> s], required |-> {"b"},
      additionalProperties |-> [schema |-> Integer]],
     Ref(TRUE, "d") @@ [type |-> <<"string">>, defs |-> [d |-> s]],
     Ref(TRUE, "e") @@ [defs |-> [d |-> s]]}
Story == [type |-> <<"object">>, required |-> {"a"},
          properties |-> [a |-> Ref(TRUE, "d")], defs |-> [d |-> Integer]]
SchemaFiles == Leaves
    \cup UNION {Around(s) : s \in Leaves}
    \cup {[anyOf |-> <<x, y>>] :
             x \in Leaves,
             y \in {[type |-> <<"string">>], [minimum |-> 3], Ref(FALSE, "story")}}
    \cup UNION {Around([not |-> s]) : s \in {[type |-> <<"integer">>, maximum |-> 3],
                                            [enum |-> <<Whole(2), Str(<<"a">>)>>]}}
    \cup {[anyOf |-> <<[required |-> {"a"}], [type |-> <<"null">>]>>]}

StudyInstances == {v : v \in Values}
StudySchemas == {s : s \in SchemaFiles}
StudySiblings == [story |-> Story]

\* The schemas anywhere in a file, how deep they nest, and how deep checks do.
StudyParts ==
    LET Sub(s) == {s} \cup WalkInto(s)
        Deep(s) == UNION {Sub(t) : t \in UNION {Sub(u) : u \in Sub(s)}}
    IN  UNION {{Part(t, s) : t \in Deep(s)} : s \in SchemaFiles \cup {Story}}
StudyDepth ==
    LET depth[s \in Schemata] == 1 + Max({0} \cup {depth[t] : t \in WalkInto(s)})
    IN  [s \in Schemata |-> depth[s]]
StudyHeight ==
    LET height[q \in Queries] ==
            1 + Max({0} \cup {height[call] : call \in Calls(q[1], q[2])})
    IN  [q \in Queries |-> height[q]]

-----------------------------------------------------------------------------
(* The site export: two subjects, one of which comes or goes, two exports, *)
(* one of which is killed or cannot write.                                 *)

ExportSubjects == {"french", "spanish"}
ExportRegistries ==
    {[reads |-> "refused", entries |-> <<>>], [reads |-> "raises", entries |-> <<>>],
     [reads |-> "sound", entries |-> <<>>],
     [reads |-> "sound", entries |-> <<"french", "spanish">>]}
ExportListings == {<<"fr1", "dev1", Nameless, NotAStory>>}

-----------------------------------------------------------------------------
(* The launch gate: a producer of each kind, consent_walk.mjs excepted,    *)
(* which does what walk.mjs does with a browser.                           *)

GateProducers == <<"preflight", "bar", "tests", "walk">>
GateKind == [preflight |-> "shell", bar |-> "bar", tests |-> "pytest", walk |-> "browser"]
GateChecks == [preflight |-> {"french"}, bar |-> {"doctor"}, tests |-> {"golden"},
               walk |-> {"landing", "lands"}]
GateSkipListed == {"landing"}
GateFallback == {"fetch"}
GateHarness == "harness"

-----------------------------------------------------------------------------

PartNames == {"login", "doctor", "motivation", "schema", "export", "gate"}

\* A part that is not at work stays at one of its initial states.
StudyInit ==
    /\ part \in PartNames
    /\ IF part = "schema" THEN TRUE
       ELSE instance = Null /\ schema = Integer
    /\ IF part = "export" THEN TRUE
       ELSE registry = [reads |-> "refused", entries |-> <<>>] /\ installed = {}
    /\ Init /\ DoctorInit /\ MotivationInit /\ ValidatorInit /\ ExportInit
    /\ GateInit

StudyNext ==
    \/ /\ part = "login" /\ Next
       /\ UNCHANGED <<part, doctorVars, motivationVars, validatorVars, exportVars, gateVars>>
    \/ /\ part = "doctor" /\ DoctorNext
       /\ UNCHANGED <<part, loginVars, motivationVars, validatorVars, exportVars, gateVars>>
    \/ /\ part = "motivation" /\ MotivationNext
       /\ UNCHANGED <<part, loginVars, doctorVars, validatorVars, exportVars, gateVars>>
    \/ /\ part = "schema" /\ ValidatorNext
       /\ UNCHANGED <<part, loginVars, doctorVars, motivationVars, exportVars, gateVars>>
    \/ /\ part = "export" /\ ExportNext
       /\ UNCHANGED <<part, loginVars, doctorVars, motivationVars, validatorVars, gateVars>>
    \/ /\ part = "gate" /\ GateNext
       /\ UNCHANGED <<part, loginVars, doctorVars, motivationVars, validatorVars, exportVars>>

\* DeviceLogin's fairness, for the behaviours in which it is at work.
StudyFairness == \A l \in Logins : WF_loginVars(part = "login" /\ Login(l))

StudySpec == StudyInit /\ [][StudyNext]_vars /\ StudyFairness

-----------------------------------------------------------------------------
(* What the parts promise, stated in their modules; a part that is not at  *)
(* work is at an initial state of its own and promises nothing more.      *)

\* Every part's state has the type its module gives it.
StudyTypeOK ==
    /\ part \in PartNames
    /\ part = "login" => TypeOK
    /\ part = "doctor" => DoctorTypeOK
    /\ part = "motivation" => MotivationTypeOK
    /\ part = "schema" => ValidatorTypeOK
    /\ part = "export" => ExportTypeOK
    /\ part = "gate" => GateTypeOK

=============================================================================
