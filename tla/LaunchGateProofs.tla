-------------------------- MODULE LaunchGateProofs --------------------------
(***************************************************************************)
(* LaunchGate for every list of producers and every set of checks: what a  *)
(* green verdict stands for.                                               *)
(***************************************************************************)
EXTENDS LaunchGate, TLAPS

Rowed(p, check, where) ==
    \E row \in where : row.producer = p /\ row.check = check

\* A row that says FAIL, which keeps the verdict from being green.
Red(where) == \E row \in where : row.status = "FAIL"

\* Where a check of a producer is, once the producer's turn has come: still to
\* be made, kept, written, lost (in a garbled line, without a row, or with the
\* producer), or spared after another's failure.
Accounted ==
    \A i \in DOMAIN Producers : Producers[i] \notin died /\ ~garbled =>
        \A check \in ChecksMade(Producers[i]) : <<Producers[i], check>> \notin lost =>
            /\ i < turn => Rowed(Producers[i], check, rows) \/ Red(rows)
            /\ i = turn => \/ check \in todo
                           \/ Rowed(Producers[i], check, rows \cup kept)
                           \/ Red(rows \cup kept)

\* A verdict comes after the last producer, and is the one of the rows there.
VerdictInv ==
    verdict = "green" => turn = Len(Producers) + 1 /\ ~garbled /\ ~Red(rows)

\* Only a walk whose turn has come can have found no browser.
BlindInv ==
    \A p \in blind : \E i \in DOMAIN Producers : i <= turn /\ p = Producers[i]

GateInv == GateTypeOK /\ Accounted /\ VerdictInv /\ BlindInv
        /\ (Running => todo \subseteq ChecksMade(Producer))

LEMMA ProducersListed ==
    /\ DOMAIN Producers = 1..Len(Producers) /\ Len(Producers) \in Nat \ {0}
    /\ \A i, j \in DOMAIN Producers : Producers[i] = Producers[j] => i = j
  BY GateAssumption

LEMMA InitGateInv ==
    ASSUME GateInit
    PROVE  GateInv
<1> USE ProducersListed DEF GateInit
<1>1. GateTypeOK /\ BlindInv /\ (Running => todo \subseteq ChecksMade(Producer))
  BY DEF GateTypeOK, Running, Producer, BlindInv, ChecksMade
<1>2. Accounted
  BY DEF Accounted, ChecksMade
<1> QED
  BY <1>1, <1>2 DEF GateInv, VerdictInv

\* What every way to end a producer does to its checks.
LEMMA NextProducerKeeps ==
    ASSUME GateInv, Running, NextProducer, UNCHANGED <<verdict, blind, lost>>,
           garbled => garbled',
           rows \subseteq rows', died \subseteq died',
           Producer \in died' \/ garbled' \/ Red(rows') \/
               \A check \in ChecksMade(Producer) :
                   <<Producer, check>> \notin lost => Rowed(Producer, check, rows'),
           \A row \in rows' : \/ row \in rows \cup kept
                              \/ row = Row(Harness, "FAIL")
    PROVE  GateInv'
<1> USE ProducersListed
<1>1. /\ turn \in 1..Len(Producers) /\ turn' = turn + 1 /\ kept' = {}
      /\ turn' \in DOMAIN Producers => todo' = Checks[Producers[turn']]
  BY DEF NextProducer, Running
<1>2. \A p : ChecksMade(p)' = ChecksMade(p)
  BY DEF ChecksMade
<1>3. BlindInv'
  BY <1>1 DEF GateInv, BlindInv
<1>4. turn' \in DOMAIN Producers => todo' = ChecksMade(Producers[turn'])
  <2>1. turn' \in DOMAIN Producers => Producers[turn'] \notin blind
    BY <1>1 DEF GateInv, BlindInv
  <2> QED
    BY <1>1, <2>1 DEF ChecksMade
<1>5. GateTypeOK'
  <2>1. \A row \in (rows \cup kept)' :
            /\ row.check \in Checks[row.producer] \cup ChecksMade(row.producer) \cup {Harness}
            /\ row.status \in {"PASS", "FAIL", "SKIP"}
            /\ row.status = "SKIP" => row.producer \in blind /\ row.check \in SkipListed
    BY <1>1 DEF GateInv, GateTypeOK, Row
  <2> QED
    BY <1>1, <1>2, <2>1 DEF GateInv, GateTypeOK
<1>6. Accounted'
  <2> SUFFICES ASSUME NEW i \in DOMAIN Producers, Producers[i] \notin died', ~garbled',
                      NEW check \in ChecksMade(Producers[i]),
                      <<Producers[i], check>> \notin lost
               PROVE  /\ i < turn' => Rowed(Producers[i], check, rows') \/ Red(rows')
                      /\ i = turn' => check \in todo'
    BY <1>2 DEF Accounted
  <2>1. CASE i < turn
    <3>1. Rowed(Producers[i], check, rows) \/ Red(rows)
      BY <2>1 DEF GateInv, Accounted
    <3> QED
      BY <1>1, <2>1, <3>1 DEF Rowed, Red
  <2>2. CASE i = turn
    BY <1>1, <2>2 DEF Producer
  <2>3. CASE i > turn
    BY <1>1, <1>4, <2>3
  <2> QED
    BY <1>1, <2>1, <2>2, <2>3
<1>7. VerdictInv'
  BY <1>1 DEF GateInv, VerdictInv
<1>8. Running' => todo' \subseteq ChecksMade(Producer)'
  BY <1>1, <1>2, <1>4 DEF Running, Producer
<1> QED
  BY <1>3, <1>5, <1>6, <1>7, <1>8 DEF GateInv

LEMMA MakeCheckKeeps ==
    ASSUME GateInv, MakeCheck
    PROVE  GateInv'
<1> USE ProducersListed
<1>0. /\ GateTypeOK /\ Accounted /\ VerdictInv /\ BlindInv
      /\ Running => todo \subseteq ChecksMade(Producer)
  BY DEF GateInv
<1>1. PICK check \in todo, status \in {"PASS", "FAIL"}, spared \in SUBSET todo :
          /\ spared # {} => status = "FAIL"
          /\ todo' = todo \ ({check} \cup spared)
          /\ \/ /\ Buffers
                /\ kept' = kept \cup {Row(check, status)} /\ rows' = rows
             \/ ~Buffers /\ rows' = rows \cup {Row(check, status)} /\ kept' = kept
  BY DEF MakeCheck
<1>2. Running /\ UNCHANGED <<turn, garbled, verdict, died, blind, lost>>
  BY DEF MakeCheck
<1>3. /\ (rows \cup kept)' = (rows \cup kept) \cup {Row(check, status)}
      /\ rows \subseteq rows'
  BY <1>1
<1>4. \A p : ChecksMade(p)' = ChecksMade(p)
  BY <1>2 DEF ChecksMade
<1>5. GateTypeOK'
  <2>1. /\ Row(check, status).check \in ChecksMade(Row(check, status).producer)
        /\ Row(check, status).status \in {"PASS", "FAIL"}
    BY <1>0, <1>2 DEF Row
  <2>2. kept' # {} => Running' /\ Buffers'
    BY <1>0, <1>1, <1>2 DEF GateTypeOK, Running, Buffers, Producer
  <2>3. \A row \in (rows \cup kept)' :
            /\ row.check \in Checks[row.producer] \cup ChecksMade(row.producer) \cup {Harness}
            /\ row.status \in {"PASS", "FAIL", "SKIP"}
            /\ row.status = "SKIP" => row.producer \in blind /\ row.check \in SkipListed
    BY <1>0, <1>3, <2>1 DEF GateTypeOK
  <2> QED
    BY <1>0, <1>2, <1>4, <2>2, <2>3 DEF GateTypeOK
<1>6. Accounted'
  <2> SUFFICES ASSUME NEW i \in DOMAIN Producers, Producers[i] \notin died, ~garbled,
                      NEW c \in ChecksMade(Producers[i]),
                      <<Producers[i], c>> \notin lost
               PROVE  /\ i < turn => Rowed(Producers[i], c, rows') \/ Red(rows')
                      /\ i = turn => \/ c \in todo'
                                     \/ Rowed(Producers[i], c, (rows \cup kept)')
                                     \/ Red((rows \cup kept)')
    BY <1>2, <1>4 DEF Accounted
  <2>1. ASSUME i < turn PROVE Rowed(Producers[i], c, rows') \/ Red(rows')
    <3>1. Rowed(Producers[i], c, rows) \/ Red(rows)
      BY <1>0, <2>1 DEF Accounted
    <3> QED
      BY <1>3, <3>1 DEF Rowed, Red
  <2>2. ASSUME i = turn, c \notin todo'
        PROVE  Rowed(Producers[i], c, (rows \cup kept)') \/ Red((rows \cup kept)')
    <3>1. CASE c = check
      <4>1. Row(check, status).producer = Producers[i] /\ Row(check, status).check = c
        BY <2>2, <3>1 DEF Row, Producer
      <4> QED
        BY <1>3, <4>1 DEF Rowed
    <3>2. CASE c \in spared
      <4>1. Row(check, status).status = "FAIL"
        BY <1>1, <3>2 DEF Row
      <4> QED
        BY <1>3, <4>1 DEF Red
    <3>3. CASE c \notin todo
      <4>1. Rowed(Producers[i], c, rows \cup kept) \/ Red(rows \cup kept)
        BY <1>0, <2>2, <3>3 DEF Accounted
      <4> QED
        BY <1>3, <4>1 DEF Rowed, Red
    <3> QED
      BY <1>1, <2>2, <3>1, <3>2, <3>3
  <2> QED
    BY <2>1, <2>2
<1>7. VerdictInv' /\ BlindInv'
  BY <1>0, <1>2 DEF VerdictInv, BlindInv, Running
<1>8. Running' => todo' \subseteq ChecksMade(Producer)'
  BY <1>0, <1>1, <1>2, <1>4 DEF Running, Producer
<1> QED
  BY <1>5, <1>6, <1>7, <1>8 DEF GateInv

LEMMA NoBrowserKeeps ==
    ASSUME GateInv, NoBrowser
    PROVE  GateInv'
<1> USE ProducersListed
<1>0. GateTypeOK /\ Accounted /\ VerdictInv /\ BlindInv
  BY DEF GateInv
<1>1. /\ Running /\ Kind[Producer] = "browser"
      /\ blind' = blind \cup {Producer} /\ todo' = FallbackChecks
      /\ UNCHANGED <<turn, rows, garbled, verdict, died, lost>>
  BY DEF NoBrowser
<1>2. /\ \A row \in kept' : \E check \in SkipListed : row = Row(check, "SKIP")
      /\ \A check \in SkipListed : Row(check, "SKIP") \in kept'
  BY DEF NoBrowser
<1>3. /\ Producer' = Producer /\ Running' /\ Buffers'
      /\ ChecksMade(Producer)' = SkipListed \cup FallbackChecks
      /\ \A p : p # Producer => ChecksMade(p)' = ChecksMade(p)
  BY <1>1 DEF Producer, Running, Buffers, Walks, ChecksMade
<1>4. GateTypeOK'
  <2>1. \A row \in kept' :
            /\ row.check \in ChecksMade(row.producer)'
            /\ row.status = "SKIP" /\ row.producer \in blind' /\ row.check \in SkipListed
    BY <1>1, <1>2, <1>3 DEF Row
  <2>2. \A row \in rows :
            /\ row.check \in Checks[row.producer] \cup ChecksMade(row.producer)' \cup {Harness}
            /\ row.status \in {"PASS", "FAIL", "SKIP"}
            /\ row.status = "SKIP" => row.producer \in blind' /\ row.check \in SkipListed
    BY <1>0, <1>1 DEF GateTypeOK, ChecksMade
  <2> QED
    BY <1>0, <1>1, <1>3, <2>1, <2>2 DEF GateTypeOK
<1>5. Accounted'
  <2> SUFFICES ASSUME NEW i \in DOMAIN Producers, Producers[i] \notin died, ~garbled,
                      NEW c \in ChecksMade(Producers[i])',
                      <<Producers[i], c>> \notin lost
               PROVE  /\ i < turn => Rowed(Producers[i], c, rows) \/ Red(rows)
                      /\ i = turn => \/ c \in todo'
                                     \/ Rowed(Producers[i], c, (rows \cup kept)')
    BY <1>1 DEF Accounted
  <2>1. ASSUME i < turn PROVE Rowed(Producers[i], c, rows) \/ Red(rows)
    <3>1. Producers[i] # Producer
      BY <1>1, <2>1 DEF Producer, Running
    <3> QED
      BY <1>0, <1>3, <2>1, <3>1 DEF Accounted
  <2>2. ASSUME i = turn, c \notin todo' PROVE Rowed(Producers[i], c, (rows \cup kept)')
    <3>1. c \in SkipListed
      BY <1>1, <1>3, <2>2 DEF Producer
    <3>2. Row(c, "SKIP") \in kept'
      BY <1>2, <3>1
    <3>3. Row(c, "SKIP").producer = Producers[i] /\ Row(c, "SKIP").check = c
      BY <2>2 DEF Row, Producer
    <3> QED
      BY <3>2, <3>3 DEF Rowed
  <2> QED
    BY <2>1, <2>2
<1>6. VerdictInv'
  BY <1>0, <1>1 DEF VerdictInv
<1>7. BlindInv'
  <2>1. turn \in DOMAIN Producers /\ turn <= turn
    BY <1>1 DEF Running
  <2> QED
    BY <1>0, <1>1, <2>1 DEF BlindInv, Producer
<1>8. Running' => todo' \subseteq ChecksMade(Producer)'
  BY <1>1, <1>3
<1> QED
  BY <1>4, <1>5, <1>6, <1>7, <1>8 DEF GateInv

LEMMA NextGateInv ==
    ASSUME GateInv, [GateNext]_gateVars
    PROVE  GateInv'
<1> USE ProducersListed
<1>0. /\ GateTypeOK /\ Accounted /\ VerdictInv /\ BlindInv
      /\ Running => todo \subseteq ChecksMade(Producer)
  BY DEF GateInv
<1>1. CASE MakeCheck
  BY <1>1, MakeCheckKeeps
<1>2. CASE NoBrowser
  BY <1>2, NoBrowserKeeps
<1>3. CASE LeaveNoRow
  <2>1. PICK check \in todo : /\ todo' = todo \ {check}
                              /\ lost' = lost \cup {<<Producer, check>>}
    BY <1>3 DEF LeaveNoRow
  <2>2. Running /\ UNCHANGED <<turn, kept, rows, garbled, verdict, died, blind>>
    BY <1>3 DEF LeaveNoRow
  <2>3. Accounted'
    <3>1. \A i \in DOMAIN Producers : \A c :
              /\ <<Producers[i], c>> \notin lost' => <<Producers[i], c>> \notin lost
              /\ i = turn /\ c \in todo /\ <<Producers[i], c>> \notin lost' => c \in todo'
      BY <2>1, <2>2 DEF Producer
    <3> QED
      BY <1>0, <2>2, <3>1 DEF Accounted, ChecksMade
  <2> QED
    BY <1>0, <2>1, <2>2, <2>3
    DEF GateInv, GateTypeOK, VerdictInv, BlindInv, Running, Producer, Buffers, ChecksMade
<1>4. CASE AppendGarbage
  <2>1. /\ Running /\ UNCHANGED <<turn, kept, rows, verdict, died, blind, lost>>
        /\ garbled' = TRUE /\ todo' \subseteq todo
    BY <1>4 DEF AppendGarbage
  <2>2. VerdictInv'
    BY <1>0, <2>1 DEF VerdictInv, Running
  <2> QED
    BY <1>0, <2>1, <2>2
    DEF GateInv, GateTypeOK, Accounted, BlindInv, Running, Producer, Buffers, ChecksMade
<1>5. CASE Finish
  <2>1. /\ Running /\ todo = {} /\ rows' = rows \cup kept
        /\ NextProducer /\ UNCHANGED <<garbled, verdict, died, blind, lost>>
    BY <1>5 DEF Finish, Flushed
  <2>2. \/ Producer \in died \/ garbled \/ Red(rows')
        \/ \A check \in ChecksMade(Producer) :
               <<Producer, check>> \notin lost => Rowed(Producer, check, rows')
    BY <1>0, <2>1 DEF Accounted, Running, Producer
  <2> QED
    BY <2>1, <2>2, NextProducerKeeps
<1>6. CASE Raise \/ Die
  <2>1. PICK own \in {{}, {Row(Harness, "FAIL")}} : EndsEarly(own)
    BY <1>6 DEF Raise, Die
  <2>2. PICK part \in SUBSET kept : rows' = rows \cup part \cup own
    BY <2>1 DEF EndsEarly
  <2>3. /\ Running /\ NextProducer /\ UNCHANGED <<verdict, blind, lost>>
        /\ died' = died \cup {Producer} /\ (garbled => garbled')
    BY <2>1 DEF EndsEarly
  <2>4. /\ rows \subseteq rows' /\ died \subseteq died' /\ Producer \in died'
        /\ \A row \in rows' : row \in rows \cup kept \/ row = Row(Harness, "FAIL")
    BY <2>2, <2>3
  <2> QED
    BY <2>3, <2>4, NextProducerKeeps
<1>7. CASE Report
  <2>1. /\ turn = Len(Producers) + 1
        /\ UNCHANGED <<turn, todo, kept, rows, garbled, died, blind, lost>>
        /\ verdict' \in {"green", "red"}
    BY <1>7 DEF Report
  <2>2. VerdictInv'
    BY <1>7 DEF Report, VerdictInv, Red
  <2> QED
    BY <1>0, <2>1, <2>2
    DEF GateInv, GateTypeOK, Accounted, BlindInv, Running, Producer, Buffers, ChecksMade
<1>8. CASE UNCHANGED gateVars
  BY <1>0, <1>8 DEF gateVars, GateInv, GateTypeOK, Accounted, VerdictInv, BlindInv, Running,
     Producer, Buffers, ChecksMade
<1> QED
  BY <1>1, <1>2, <1>3, <1>4, <1>5, <1>6, <1>7, <1>8 DEF GateNext

\* For every list of producers: the rows are those of the checks each of them
\* makes, a SKIP is one of a walk without a browser, and rows are kept only by
\* a producer that keeps them (run.sh, launch_bar.py, walk.mjs).
THEOREM TypeCorrect == GateSpec => []GateTypeOK
<1>1. GateInv => GateTypeOK
  BY DEF GateInv
<1> QED
  BY <1>1, InitGateInv, NextGateInv, PTL DEF GateSpec

\* For every list of producers: a green gate means that every check of a
\* producer which got through passed and left its row, or was skipped and on
\* the list of a walk without a browser, but for the checks that left no row
\* while their producer went on (run.sh, conftest.py, walk.mjs, report.py).
THEOREM GreenMeansRun == GateSpec => []GreenMeansRunUnlessLost
<1>1. GateInv => GreenMeansRunUnlessLost
  <2> SUFFICES ASSUME GateInv, verdict = "green",
                      NEW i \in DOMAIN Producers, Producers[i] \notin died,
                      NEW check \in ChecksMade(Producers[i]),
                      <<Producers[i], check>> \notin lost
               PROVE  \E row \in rows :
                          /\ row.producer = Producers[i]
                          /\ row.check = check
                          /\ \/ row.status = "PASS"
                             \/ Producers[i] \in blind /\ check \in SkipListed
    BY DEF GreenMeansRunUnlessLost
  <2>1. i < turn /\ ~garbled /\ ~Red(rows)
    BY ProducersListed DEF GateInv, VerdictInv
  <2>2. PICK row \in rows : row.producer = Producers[i] /\ row.check = check
    BY <2>1 DEF GateInv, Accounted, Rowed
  <2>3. row.status = "PASS" \/ (row.status = "SKIP" /\ row.producer \in blind
                                                  /\ row.check \in SkipListed)
    BY <2>1, <2>2 DEF GateInv, GateTypeOK, Red
  <2> QED
    BY <2>2, <2>3
<1> QED
  BY <1>1, InitGateInv, NextGateInv, PTL DEF GateSpec
=============================================================================
