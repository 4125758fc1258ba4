---------------------------- MODULE BridgeProofs ----------------------------
(***************************************************************************)
(* The way from one MpscCrocProto to the other loses, repeats and swaps    *)
(* nothing, for queues, sockets and buffers of any size and any number of  *)
(* messages, and is a Line.                                                *)
(*                                                                         *)
(* The units that p ever says are numbered.  Everything that is on the way *)
(* holds a run of them that begins where what is ahead of it ends: the     *)
(* queue and the task of the one that speaks are numbered from the last    *)
(* message said, the rest from the messages its peer has heard, and the    *)
(* two meet as long as nothing was given up.                               *)
(***************************************************************************)
EXTENDS Bridge, SequenceTheorems, TLAPS

\* The k-th unit that a client says.
UnitAt(k) == <<(k + 1) \div 2, IF k % 2 = 1 THEN "header" ELSE "body">>

\* How many units there are in n messages.
Twice(n) == n + n

\* s holds the units, or messages, that follow the k-th.
Run(s, k) == \A i \in 1..Len(s) : s[i] = UnitAt(k + i)
Numbered(s, k) == \A i \in 1..Len(s) : s[i] = k + i

\* How many units of its peer's p has been handed as messages, and how many are
\* at p and beyond, when those in its frame and its socket are counted as well.
Handed(p) == Twice(Len(heard[p])) + Twice(Len(inQ[p]))
Framed(p) == Handed(p) + Len(frame[p])
Arrived(p) == Framed(p) + Len(down[p])
\* How many of p's are in the hands of the bridge and beyond, or in its socket.
Copied(p) == Arrived(Other(p)) + Len(copy[p])
Sent(p) == Copied(p) + Len(up[p])
\* How many of p's have not left it.
Unsent(p) == Len(writing[p]) + Twice(Len(outQ[p]))

\* What p has still to send is the last that it said, and without its task it
\* has nothing to send.
SenderInv(p) ==
  /\ Numbered(outQ[p], said[p] - Len(outQ[p]))
  /\ Run(writing[p], Twice(said[p]) - Unsent(p))
  /\ "write" \notin tasks[p] => writing[p] = <<>> /\ outQ[p] = <<>>

\* What has come to p, as long as it listens, is all that it was to hear.
ReceiverInv(p) ==
  "read" \in open[p] =>
    /\ Numbered(heard[p], 0) /\ Numbered(inQ[p], Len(heard[p]))
    /\ Run(frame[p], Handed(p)) /\ Run(down[p], Framed(p))

\* So is what the bridge has for the peer of p; nothing is there twice, and
\* nothing is missing unless p has gone or the bridge was broken.
WayInv(p) ==
  "read" \in open[Other(p)] =>
    /\ Run(copy[p], Arrived(Other(p))) /\ Run(up[p], Copied(p))
    /\ Sent(p) + Unsent(p) <= Twice(said[p])
    /\ p \in exited \/ bridge = "broken" \/ Sent(p) + Unsent(p) = Twice(said[p])

\* Who holds a half still has its task while the bridge is up; a task that ends
\* leaves nothing behind, nor does the bridge.
TaskInv(p) ==
  /\ bridge = "up" => open[p] \subseteq tasks[p]
  /\ p \in exited => open[p] = {} /\ tasks[p] = {}
  /\ told[p] => inQ[p] = <<>> /\ "read" \notin tasks[p]
  /\ "read" \in open[p] /\ "read" \notin tasks[p] => frame[p] = <<>> /\ down[p] = <<>>
  /\ p \in eof => /\ "write" \notin open[p] \cup tasks[p]
                  /\ up[p] = <<>> /\ copy[p] = <<>>
  /\ bridge = "over" => p \in eof
  /\ bridge = "broken" => up[p] = <<>> /\ copy[p] = <<>>

IInv ==
  /\ TypeOK
  /\ \A p \in Side : SenderInv(p) /\ ReceiverInv(p) /\ WayInv(p) /\ TaskInv(p)

-----------------------------------------------------------------------------
(* Runs.                                                                   *)

LEMMA RunTail ==
  ASSUME NEW S, NEW s \in Seq(S), s # <<>>, NEW k \in Int, Run(s, k)
  PROVE  /\ Head(s) = UnitAt(k + 1) /\ Head(s) \in S
         /\ Tail(s) \in Seq(S) /\ Len(Tail(s)) = Len(s) - 1 /\ Len(s) \in Nat \ {0}
         /\ Run(Tail(s), k + 1)
<1>1. /\ Len(s) \in Nat \ {0} /\ Head(s) = s[1] /\ Head(s) \in S
      /\ Tail(s) \in Seq(S) /\ Len(Tail(s)) = Len(s) - 1
      /\ \A i \in 1..Len(Tail(s)) : Tail(s)[i] = s[i + 1]
  OBVIOUS
<1>2. ASSUME NEW i \in 1..Len(Tail(s)) PROVE Tail(s)[i] = UnitAt((k + 1) + i)
  <2>1. i + 1 \in 1..Len(s) /\ k + (i + 1) = (k + 1) + i
    BY <1>1
  <2> QED
    BY <2>1, <1>1 DEF Run
<1> QED
  BY <1>1, <1>2 DEF Run

LEMMA RunAppend ==
  ASSUME NEW S, NEW s \in Seq(S), NEW e \in S, NEW k \in Int, Run(s, k),
         e = UnitAt(k + Len(s) + 1)
  PROVE  /\ Append(s, e) \in Seq(S) /\ Len(Append(s, e)) = Len(s) + 1
         /\ Run(Append(s, e), k)
<1>1. /\ Len(s) \in Nat /\ Append(s, e) \in Seq(S) /\ Len(Append(s, e)) = Len(s) + 1
      /\ Append(s, e)[Len(s) + 1] = e
      /\ \A i \in 1..Len(s) : Append(s, e)[i] = s[i]
  OBVIOUS
<1>2. ASSUME NEW i \in 1..(Len(s) + 1) PROVE Append(s, e)[i] = UnitAt(k + i)
  <2>1. CASE i = Len(s) + 1
    <3>1. k + i = k + Len(s) + 1
      BY <1>1, <2>1
    <3> QED
      BY <3>1, <2>1, <1>1
  <2>2. CASE i # Len(s) + 1
    <3>1. i \in 1..Len(s)
      BY <1>1, <2>2
    <3> QED
      BY <3>1, <1>1 DEF Run
  <2> QED
    BY <2>1, <2>2
<1> QED
  BY <1>1, <1>2 DEF Run

LEMMA RunCut ==
  ASSUME NEW S, NEW s \in Seq(S), NEW k \in Int, Run(s, k), NEW n \in 1..Len(s)
  PROVE  /\ SubSeq(s, 1, n) \in Seq(S) /\ Len(SubSeq(s, 1, n)) = n
         /\ SubSeq(s, n + 1, Len(s)) \in Seq(S)
         /\ Len(SubSeq(s, n + 1, Len(s))) = Len(s) - n
         /\ Run(SubSeq(s, 1, n), k) /\ Run(SubSeq(s, n + 1, Len(s)), k + n)
<1>1. Len(s) \in Nat /\ n \in Nat /\ n <= Len(s)
  OBVIOUS
<1>2. /\ SubSeq(s, 1, n) \in Seq(S) /\ Len(SubSeq(s, 1, n)) = n
      /\ \A i \in 1..n : SubSeq(s, 1, n)[i] = s[i]
  BY <1>1
<1>3. /\ SubSeq(s, n + 1, Len(s)) \in Seq(S)
      /\ Len(SubSeq(s, n + 1, Len(s))) = Len(s) - n
      /\ \A i \in 1..(Len(s) - n) : SubSeq(s, n + 1, Len(s))[i] = s[n + i]
  BY <1>1
<1>4. Run(SubSeq(s, 1, n), k)
  BY <1>1, <1>2 DEF Run
<1>5. ASSUME NEW i \in 1..(Len(s) - n)
      PROVE  SubSeq(s, n + 1, Len(s))[i] = UnitAt((k + n) + i)
  <2>1. n + i \in 1..Len(s) /\ k + (n + i) = (k + n) + i
    BY <1>1
  <2> QED
    BY <2>1, <1>3 DEF Run
<1> QED
  BY <1>2, <1>3, <1>4, <1>5 DEF Run

LEMMA NumberedTail ==
  ASSUME NEW S, NEW s \in Seq(S), s # <<>>, NEW k \in Int, Numbered(s, k)
  PROVE  /\ Head(s) = k + 1 /\ Head(s) \in S
         /\ Tail(s) \in Seq(S) /\ Len(Tail(s)) = Len(s) - 1 /\ Len(s) \in Nat \ {0}
         /\ Numbered(Tail(s), k + 1)
<1>1. /\ Len(s) \in Nat \ {0} /\ Head(s) = s[1] /\ Head(s) \in S
      /\ Tail(s) \in Seq(S) /\ Len(Tail(s)) = Len(s) - 1
      /\ \A i \in 1..Len(Tail(s)) : Tail(s)[i] = s[i + 1]
  OBVIOUS
<1> QED
  BY <1>1 DEF Numbered

LEMMA NumberedAppend ==
  ASSUME NEW S, NEW s \in Seq(S), NEW e \in S, NEW k \in Int, Numbered(s, k),
         e = k + Len(s) + 1
  PROVE  /\ Append(s, e) \in Seq(S) /\ Len(Append(s, e)) = Len(s) + 1
         /\ Numbered(Append(s, e), k)
<1>1. /\ Len(s) \in Nat /\ Append(s, e) \in Seq(S) /\ Len(Append(s, e)) = Len(s) + 1
      /\ Append(s, e)[Len(s) + 1] = e
      /\ \A i \in 1..Len(s) : Append(s, e)[i] = s[i]
  OBVIOUS
<1> QED
  BY <1>1 DEF Numbered

LEMMA EmptyRun ==
  ASSUME NEW k
  PROVE  Run(<<>>, k) /\ Numbered(<<>>, k) /\ Len(<<>>) = 0
  BY DEF Run, Numbered

\* A frame is the next two units.
LEMMA FrameIsRun ==
  ASSUME NEW n \in Int
  PROVE  /\ Run(Frame(n + 1), Twice(n)) /\ Len(Frame(n + 1)) = 2
         /\ n + 1 \in 1..MaxSaid => Frame(n + 1) \in Seq(Unit)
<1>1. /\ (Twice(n) + 1 + 1) \div 2 = n + 1 /\ (Twice(n) + 1) % 2 = 1
      /\ (Twice(n) + 2 + 1) \div 2 = n + 1 /\ (Twice(n) + 2) % 2 = 0
  BY DEF Twice
<1>2. UnitAt(Twice(n) + 1) = <<n + 1, "header">> /\ UnitAt(Twice(n) + 2) = <<n + 1, "body">>
  BY <1>1 DEF UnitAt
<1>3. Len(Frame(n + 1)) = 2 /\ Frame(n + 1)[1] = <<n + 1, "header">>
      /\ Frame(n + 1)[2] = <<n + 1, "body">>
  BY DEF Frame
<1>4. n + 1 \in 1..MaxSaid => Frame(n + 1) \in Seq(Unit)
  <2> SUFFICES ASSUME n + 1 \in 1..MaxSaid PROVE Frame(n + 1) \in Seq(Unit)
    OBVIOUS
  <2>1. <<n + 1, "header">> \in Unit /\ <<n + 1, "body">> \in Unit
    BY DEF Unit
  <2> QED
    BY <2>1 DEF Frame
<1> QED
  BY <1>2, <1>3, <1>4 DEF Run

\* The two units of a frame that is read give its message back.
LEMMA RunIsFrame ==
  ASSUME NEW n \in Int, NEW s \in Seq(Unit), Len(s) = 2, Run(s, Twice(n))
  PROVE  Message(s) = n + 1 /\ n + 1 \in 1..MaxSaid
<1>1. /\ (Twice(n) + 1 + 1) \div 2 = n + 1 /\ (Twice(n) + 1) % 2 = 1
      /\ (Twice(n) + 2 + 1) \div 2 = n + 1 /\ (Twice(n) + 2) % 2 = 0
  BY DEF Twice
<1>2. UnitAt(Twice(n) + 1) = <<n + 1, "header">> /\ UnitAt(Twice(n) + 2) = <<n + 1, "body">>
  BY <1>1 DEF UnitAt
<1>3. s[1] = <<n + 1, "header">> /\ s[2] = <<n + 1, "body">> /\ s[1] \in Unit
  BY <1>2 DEF Run
<1>4. n + 1 \in 1..MaxSaid
  BY <1>3 DEF Unit
<1> QED
  BY <1>3, <1>4 DEF Message

\* What follows whole messages begins with a header.
LEMMA HeaderComesNext ==
  ASSUME NEW n \in Int PROVE UnitAt(Twice(n) + 1)[2] = "header"
<1>1. (Twice(n) + 1) % 2 = 1
  BY DEF Twice
<1> QED
  BY <1>1 DEF UnitAt

-----------------------------------------------------------------------------
(* What a step leaves as it was.                                           *)

LEMMA Doubles ==
  ASSUME NEW n \in Nat
  PROVE  /\ Twice(n) \in Nat /\ Twice(n + 1) = Twice(n) + 2
         /\ Twice(n - 1) = Twice(n) - 2 /\ Twice(0) = 0
  BY DEF Twice

LEMMA Sides ==
  ASSUME NEW p \in Side
  PROVE  /\ Other(p) \in Side /\ Other(p) # p /\ Other(Other(p)) = p
         /\ \A r \in Side : r = p \/ r = Other(p)
         /\ Side = {p, Other(p)}
  BY DEF Side, Other

LEMMA Types ==
  ASSUME TypeOK, NEW p \in Side
  PROVE  /\ open[p] \subseteq Half /\ tasks[p] \subseteq Half
         /\ said[p] \in 0..MaxSaid /\ said[p] \in Nat /\ told[p] \in BOOLEAN
         /\ outQ[p] \in Seq(1..MaxSaid) /\ heard[p] \in Seq(1..MaxSaid)
         /\ inQ[p] \in Seq(1..MaxSaid)
         /\ writing[p] \in Seq(Unit) /\ copy[p] \in Seq(Unit) /\ up[p] \in Seq(Unit)
         /\ down[p] \in Seq(Unit) /\ frame[p] \in Seq(Unit)
  BY BridgeAssumption DEF TypeOK

\* Every length and every position is a number.
LEMMA Counts ==
  ASSUME TypeOK, NEW p \in Side
  PROVE  /\ Len(outQ[p]) \in Nat /\ Len(heard[p]) \in Nat /\ Len(inQ[p]) \in Nat
         /\ Len(writing[p]) \in Nat /\ Len(copy[p]) \in Nat /\ Len(up[p]) \in Nat
         /\ Len(down[p]) \in Nat /\ Len(frame[p]) \in Nat
         /\ Handed(p) \in Nat /\ Framed(p) \in Nat /\ Arrived(p) \in Nat
         /\ Copied(p) \in Nat /\ Sent(p) \in Nat /\ Unsent(p) \in Nat
<1>1. ASSUME NEW r \in Side
      PROVE  /\ Len(outQ[r]) \in Nat /\ Len(heard[r]) \in Nat /\ Len(inQ[r]) \in Nat
             /\ Len(writing[r]) \in Nat /\ Len(copy[r]) \in Nat /\ Len(up[r]) \in Nat
             /\ Len(down[r]) \in Nat /\ Len(frame[r]) \in Nat
  <2>1. /\ outQ[r] \in Seq(1..MaxSaid) /\ heard[r] \in Seq(1..MaxSaid)
        /\ inQ[r] \in Seq(1..MaxSaid)
        /\ writing[r] \in Seq(Unit) /\ copy[r] \in Seq(Unit) /\ up[r] \in Seq(Unit)
        /\ down[r] \in Seq(Unit) /\ frame[r] \in Seq(Unit)
    BY Types
  <2> QED
    BY <2>1, SMTT(40)
<1>2. ASSUME NEW r \in Side
      PROVE  Handed(r) \in Nat /\ Framed(r) \in Nat /\ Arrived(r) \in Nat
  <2>1. Handed(r) \in Nat
    <3>1. Len(heard[r]) \in Nat /\ Len(inQ[r]) \in Nat
      BY <1>1
    <3>2. Twice(Len(heard[r])) \in Nat /\ Twice(Len(inQ[r])) \in Nat
      BY <3>1 DEF Twice
    <3> QED
      BY <3>2 DEF Handed
  <2>2. Framed(r) \in Nat
    BY <1>1, <2>1 DEF Framed
  <2>3. Arrived(r) \in Nat
    BY <1>1, <2>2 DEF Arrived
  <2> QED
    BY <2>1, <2>2, <2>3
<1>3. Copied(p) \in Nat
  BY <1>1, <1>2, Sides DEF Copied
<1>4. Sent(p) \in Nat
  BY <1>1, <1>3 DEF Sent
<1>5. Unsent(p) \in Nat
  <2>1. Twice(Len(outQ[p])) \in Nat
    BY <1>1 DEF Twice
  <2> QED
    BY <2>1, <1>1 DEF Unsent
<1> QED
  BY <1>1, <1>2, <1>3, <1>4, <1>5

\* Nor does any number of messages make half a unit.
LEMMA DoubleCounts ==
  ASSUME TypeOK, NEW p \in Side
  PROVE  /\ Twice(said[p]) \in Nat /\ Twice(Len(outQ[p])) \in Nat
         /\ Twice(Len(heard[p])) \in Nat /\ Twice(Len(inQ[p])) \in Nat
<1>1. /\ said[p] \in Nat /\ Len(outQ[p]) \in Nat
      /\ Len(heard[p]) \in Nat /\ Len(inQ[p]) \in Nat
  BY Counts, Types
<1> QED
  BY <1>1 DEF Twice

LEMMA SenderStays ==
  ASSUME NEW p, SenderInv(p), UNCHANGED <<said[p], outQ[p], writing[p]>>,
         "write" \in tasks[p] => "write" \in tasks'[p]
  PROVE  SenderInv(p)'
  BY DEF SenderInv, Unsent

LEMMA ReceiverStays ==
  ASSUME NEW p, ReceiverInv(p), open'[p] \subseteq open[p],
         UNCHANGED <<heard[p], inQ[p], frame[p], down[p]>>
  PROVE  ReceiverInv(p)'
  BY DEF ReceiverInv, Framed, Handed

LEMMA WayStays ==
  ASSUME NEW p, WayInv(p), open'[Other(p)] \subseteq open[Other(p)],
         UNCHANGED <<said[p], outQ[p], writing[p], up[p], copy[p]>>,
         UNCHANGED <<heard[Other(p)], inQ[Other(p)], frame[Other(p)], down[Other(p)]>>,
         p \in exited => p \in exited', bridge = "broken" => bridge' = "broken"
  PROVE  WayInv(p)'
  BY DEF WayInv, Sent, Copied, Arrived, Framed, Handed, Unsent

\* Enough for a step that ends no task, and breaks off nothing.
LEMMA TaskStays ==
  ASSUME NEW p, TaskInv(p), open'[p] \subseteq open[p],
         UNCHANGED <<tasks[p], told[p], inQ[p], frame[p], down[p], exited, eof, bridge>>,
         UNCHANGED <<up[p], copy[p]>>
  PROVE  TaskInv(p)'
  BY DEF TaskInv

\* What is left to show of a step of p.
LEMMA BothSides ==
  ASSUME NEW p \in Side, TypeOK', 
         SenderInv(p)', ReceiverInv(p)', WayInv(p)', TaskInv(p)',
         SenderInv(Other(p))', ReceiverInv(Other(p))', WayInv(Other(p))',
         TaskInv(Other(p))'
  PROVE  IInv'
  BY Sides DEF IInv

LEMMA Given ==
  ASSUME IInv, NEW p \in Side
  PROVE  TypeOK /\ SenderInv(p) /\ ReceiverInv(p) /\ WayInv(p) /\ TaskInv(p)
  BY DEF IInv

-----------------------------------------------------------------------------
(* The steps of a client.                                                  *)

LEMMA WriteKeeps ==
  ASSUME IInv, NEW p \in Side, write(p)
  PROVE  IInv'
<1> DEFINE q == Other(p)
<1>1. q \in Side /\ q # p /\ Other(q) = p /\ \A r \in Side : r = p \/ r = q
  BY Sides
<1>2. /\ TypeOK /\ SenderInv(p) /\ ReceiverInv(p) /\ WayInv(p) /\ TaskInv(p)
      /\ SenderInv(q) /\ ReceiverInv(q) /\ WayInv(q) /\ TaskInv(q)
  BY Given, <1>1
<1>3. /\ "write" \in tasks[p] /\ said[p] + said[q] < MaxSaid /\ Len(outQ[p]) < QueueCap
      /\ said' = [said EXCEPT ![p] = @ + 1]
      /\ outQ' = [outQ EXCEPT ![p] = Append(@, said[p] + 1)]
      /\ UNCHANGED <<open, heard, told, exited, reliable, writing, tasks, up, copy, eof,
                     bridge, down, frame, inQ>>
  BY DEF write, Push, relay, readers
<1>4. /\ said'[p] = said[p] + 1 /\ said'[q] = said[q]
      /\ outQ'[p] = Append(outQ[p], said[p] + 1) /\ outQ'[q] = outQ[q]
  BY <1>1, <1>2, <1>3 DEF TypeOK
<1>5. said[p] \in Nat /\ said[q] \in Nat /\ said[p] + 1 \in 1..MaxSaid
  BY <1>1, <1>2, <1>3, Types, BridgeAssumption, SMTT(40)
<1>6. /\ Append(outQ[p], said[p] + 1) \in Seq(1..MaxSaid)
      /\ Len(outQ'[p]) = Len(outQ[p]) + 1
      /\ Numbered(outQ'[p], said[p] - Len(outQ[p]))
  <2>1. outQ[p] \in Seq(1..MaxSaid) /\ Len(outQ[p]) \in Nat
    BY <1>2, Types, Counts
  <2>2. /\ Numbered(outQ[p], said[p] - Len(outQ[p]))
        /\ said[p] - Len(outQ[p]) \in Int
        /\ said[p] + 1 = (said[p] - Len(outQ[p])) + Len(outQ[p]) + 1
    BY <1>2, <1>5, <2>1 DEF SenderInv
  <2> QED
    BY <2>1, <2>2, <1>4, <1>5, NumberedAppend
<1>7. TypeOK'
  <2>1. said' \in [Side -> 0..MaxSaid] /\ outQ' \in [Side -> Seq(1..MaxSaid)]
    <3>1. said \in [Side -> 0..MaxSaid] /\ outQ \in [Side -> Seq(1..MaxSaid)]
      BY <1>2 DEF TypeOK
    <3>2. said[p] + 1 \in 0..MaxSaid
      BY <1>5
    <3> QED
      BY <3>1, <3>2, <1>3, <1>6
  <2>2. \A r \in Side : Len(outQ'[r]) \in 0..QueueCap
    <3>1. Len(outQ[p]) \in Nat /\ QueueCap \in Nat /\ Len(outQ[q]) \in 0..QueueCap
      BY <1>1, <1>2, Counts, BridgeAssumption DEF TypeOK
    <3> QED
      BY <3>1, <1>1, <1>3, <1>4, <1>6
  <2>3. ASSUME NEW r \in Side
        PROVE  /\ {Len(outQ'[r]), Len(inQ'[r])} \subseteq 0..QueueCap
               /\ {Len(writing'[r]), Len(frame'[r])} \subseteq 0..2
               /\ {Len(up'[r]), Len(down'[r])} \subseteq 0..SocketCap
               /\ Len(copy'[r]) <= CopyCap
    BY <2>2, <1>2, <1>3 DEF TypeOK
  <2>4. /\ {open', tasks'} \subseteq [Side -> SUBSET Half]
        /\ said' \in [Side -> 0..MaxSaid] /\ told' \in [Side -> BOOLEAN]
        /\ {outQ', heard', inQ'} \subseteq [Side -> Seq(1..MaxSaid)]
        /\ {writing', copy', up', down', frame'} \subseteq [Side -> Seq(Unit)]
    <3>1. UNCHANGED <<open, tasks, told, heard, inQ, writing, copy, up, down, frame>>
      BY <1>3
    <3>2. /\ open \in [Side -> SUBSET Half] /\ tasks \in [Side -> SUBSET Half]
          /\ told \in [Side -> BOOLEAN] /\ {heard, inQ} \subseteq [Side -> Seq(1..MaxSaid)]
          /\ {writing, copy, up, down, frame} \subseteq [Side -> Seq(Unit)]
      BY <1>2 DEF TypeOK
    <3> QED
      BY <2>1, <3>1, <3>2
  <2>5. exited' \subseteq Side /\ eof' \subseteq Side /\ reliable' \in BOOLEAN
        /\ bridge' \in {"up", "over", "broken"}
    BY <1>2, <1>3 DEF TypeOK
  <2> QED
    BY <2>3, <2>4, <2>5 DEF TypeOK
<1>8. Unsent(p)' = Unsent(p) + 2 /\ Unsent(p) \in Nat /\ Sent(p)' = Sent(p) /\ Sent(p) \in Nat
  <2>1. Len(outQ[p]) \in Nat /\ Len(writing[p]) \in Nat /\ Unsent(p) \in Nat
        /\ Sent(p) \in Nat
    BY <1>2, Counts
  <2>2. Unsent(p)' = Unsent(p) + 2
    <3>1. /\ Twice(Len(outQ[p])) \in Nat
          /\ Twice(Len(outQ[p]) + 1) = Twice(Len(outQ[p])) + 2
      BY <2>1 DEF Twice
    <3> QED
      BY <2>1, <3>1, <1>3, <1>6, SMTT(40) DEF Unsent
  <2> QED
    BY <2>1, <2>2, <1>3 DEF Sent, Copied, Arrived, Framed, Handed
<1>14. Twice(said'[p]) = Twice(said[p]) + 2 /\ Twice(said[p]) \in Int
  BY <1>4, <1>5 DEF Twice
<1>9. SenderInv(p)'
  <2>1. Twice(said'[p]) - Unsent(p)' = Twice(said[p]) - Unsent(p)
    BY <1>8, <1>14
  <2>2. said'[p] - Len(outQ'[p]) = said[p] - Len(outQ[p])
    <3>1. Len(outQ[p]) \in Nat
      BY <1>2, Counts
    <3> QED
      BY <3>1, <1>4, <1>5, <1>6, SMTT(40)
  <2> QED
    BY <2>1, <2>2, <1>2, <1>3, <1>6 DEF SenderInv
<1>10. WayInv(p)'
  <2>1. /\ Copied(p)' = Copied(p) /\ Arrived(Other(p))' = Arrived(Other(p))
    BY <1>3 DEF Copied, Arrived, Framed, Handed
  <2>2. /\ Sent(p)' + Unsent(p)' = Sent(p) + Unsent(p) + 2
        /\ Twice(said'[p]) = Twice(said[p]) + 2
        /\ Sent(p) + Unsent(p) \in Int /\ Twice(said[p]) \in Int
    BY <1>8, <1>14
  <2> QED
    BY <2>1, <2>2, <1>2, <1>3 DEF WayInv
<1>11. ReceiverInv(p)' /\ ReceiverInv(q)' /\ TaskInv(p)' /\ TaskInv(q)'
  BY <1>2, <1>3, ReceiverStays, TaskStays
<1>12. SenderInv(q)' /\ WayInv(q)'
  BY <1>1, <1>2, <1>3, <1>4, SenderStays, WayStays
<1> QED
  BY <1>1, <1>7, <1>9, <1>10, <1>11, <1>12, BothSides

LEMMA ReadKeeps ==
  ASSUME IInv, NEW p \in Side, read(p)
  PROVE  IInv'
<1> DEFINE q == Other(p)
<1>1. q \in Side /\ q # p /\ Other(q) = p /\ \A r \in Side : r = p \/ r = q
  BY Sides
<1>2. /\ TypeOK /\ SenderInv(p) /\ ReceiverInv(p) /\ WayInv(p) /\ TaskInv(p)
      /\ SenderInv(q) /\ ReceiverInv(q) /\ WayInv(q) /\ TaskInv(q)
  BY Given, <1>1
<1>3. /\ "read" \in open[p] /\ inQ[p] # <<>>
      /\ inQ' = [inQ EXCEPT ![p] = Tail(@)]
      /\ heard' = [heard EXCEPT ![p] = Append(@, Head(inQ[p]))]
      /\ UNCHANGED <<open, said, told, exited, reliable, outQ, writing, tasks, up, copy,
                     eof, bridge, down, frame>>
  BY DEF read, Push, Pop, writers, relay
<1>4. /\ inQ'[p] = Tail(inQ[p]) /\ inQ'[q] = inQ[q]
      /\ heard'[p] = Append(heard[p], Head(inQ[p])) /\ heard'[q] = heard[q]
  BY <1>1, <1>2, <1>3 DEF TypeOK
<1>5. /\ inQ[p] \in Seq(1..MaxSaid) /\ heard[p] \in Seq(1..MaxSaid)
      /\ Len(inQ[p]) \in Nat /\ Len(heard[p]) \in Nat
  BY <1>2, Types, Counts
<1>6. Numbered(heard[p], 0) /\ Numbered(inQ[p], Len(heard[p]))
  BY <1>2, <1>3 DEF ReceiverInv
<1>7. /\ Head(inQ[p]) = Len(heard[p]) + 1 /\ Head(inQ[p]) \in 1..MaxSaid
      /\ Tail(inQ[p]) \in Seq(1..MaxSaid) /\ Len(Tail(inQ[p])) = Len(inQ[p]) - 1
      /\ Numbered(Tail(inQ[p]), Len(heard[p]) + 1)
  <2>1. Len(heard[p]) \in Int
    BY <1>5
  <2> QED
    BY <2>1, <1>3, <1>5, <1>6, NumberedTail
<1>8. /\ heard'[p] \in Seq(1..MaxSaid) /\ Len(heard'[p]) = Len(heard[p]) + 1
      /\ Numbered(heard'[p], 0)
  <2>1. Head(inQ[p]) = 0 + Len(heard[p]) + 1
    BY <1>5, <1>7
  <2>2. LET h == Append(heard[p], Head(inQ[p]))
        IN  h \in Seq(1..MaxSaid) /\ Len(h) = Len(heard[p]) + 1 /\ Numbered(h, 0)
    BY <2>1, <1>5, <1>6, <1>7, NumberedAppend, SMTT(40)
  <2> QED
    BY <2>2, <1>4 DEF Numbered
<1>9. Handed(p)' = Handed(p)
  <2>1. /\ Twice(Len(heard[p]) + 1) = Twice(Len(heard[p])) + 2
        /\ Twice(Len(inQ[p]) - 1) = Twice(Len(inQ[p])) - 2
        /\ Twice(Len(heard[p])) \in Nat /\ Twice(Len(inQ[p])) \in Nat
    BY <1>5 DEF Twice
  <2>2. /\ Twice(Len(heard'[p])) = Twice(Len(heard[p])) + 2
        /\ Twice(Len(inQ'[p])) = Twice(Len(inQ[p])) - 2
    BY <2>1, <1>4, <1>7, <1>8
  <2> QED
    BY <2>1, <2>2 DEF Handed
<1>10. Framed(p)' = Framed(p) /\ Arrived(p)' = Arrived(p) /\ Copied(q)' = Copied(q)
       /\ Sent(q)' = Sent(q) /\ Unsent(q)' = Unsent(q)
  BY <1>1, <1>3, <1>9 DEF Framed, Arrived, Copied, Sent, Unsent
<1>11. ReceiverInv(p)' /\ WayInv(q)'
  <2>1. ReceiverInv(p)'
    BY <1>2, <1>3, <1>4, <1>7, <1>8, <1>9, <1>10 DEF ReceiverInv
  <2>2. WayInv(q)'
    BY <1>1, <1>2, <1>3, <1>10 DEF WayInv
  <2> QED
    BY <2>1, <2>2
<1>12. TypeOK'
  <2>1. heard' \in [Side -> Seq(1..MaxSaid)] /\ inQ' \in [Side -> Seq(1..MaxSaid)]
    <3>1. heard \in [Side -> Seq(1..MaxSaid)] /\ inQ \in [Side -> Seq(1..MaxSaid)]
      BY <1>2 DEF TypeOK
    <3> QED
      BY <3>1, <1>3, <1>4, <1>7, <1>8
  <2>2. \A r \in Side : Len(inQ'[r]) \in 0..QueueCap
    <3>1. Len(inQ[p]) \in 0..QueueCap /\ Len(inQ[q]) \in 0..QueueCap /\ QueueCap \in Nat
      BY <1>1, <1>2, BridgeAssumption DEF TypeOK
    <3>2. Len(Tail(inQ[p])) \in Nat
      BY <1>7
    <3>3. Len(inQ'[p]) \in 0..QueueCap
      BY <3>1, <3>2, <1>4, <1>7
    <3> QED
      BY <3>1, <3>3, <1>1, <1>4
  <2> QED
    BY <2>1, <2>2, <1>2, <1>3, SMTT(40) DEF TypeOK
<1>13. SenderInv(p)' /\ SenderInv(q)' /\ ReceiverInv(q)' /\ WayInv(p)' /\ TaskInv(q)'
  BY <1>1, <1>2, <1>3, <1>4, SenderStays, ReceiverStays, WayStays, TaskStays
<1>14. TaskInv(p)'
  BY <1>2, <1>3 DEF TaskInv
<1> QED
  BY <1>1, <1>11, <1>12, <1>13, <1>14, BothSides

LEMMA ReadClosedKeeps ==
  ASSUME IInv, NEW p \in Side, read_closed(p)
  PROVE  IInv'
<1> SUFFICES ASSUME NEW r \in Side
             PROVE  TypeOK' /\ SenderInv(r)' /\ ReceiverInv(r)' /\ WayInv(r)' /\ TaskInv(r)'
  BY DEF IInv
<1>1. TypeOK /\ SenderInv(r) /\ ReceiverInv(r) /\ WayInv(r) /\ TaskInv(r)
  BY Given
<1>2. /\ inQ[p] = <<>> /\ "read" \notin tasks[p]
      /\ told' = [told EXCEPT ![p] = TRUE]
      /\ UNCHANGED <<open, said, heard, exited, reliable, outQ, writing, tasks, up, copy,
                     eof, bridge, down, frame, inQ>>
  BY DEF read_closed, writers, relay, readers
<1>3. TypeOK'
  BY <1>1, <1>2 DEF TypeOK
<1>4. TaskInv(r)'
  <2>1. told'[r] => inQ'[r] = <<>> /\ "read" \notin tasks'[r]
    <3>1. CASE r = p
      BY <3>1, <1>2
    <3>2. CASE r # p
      <4>1. told'[r] = told[r]
        BY <3>2, <1>1, <1>2 DEF TypeOK
      <4> QED
        BY <4>1, <1>1, <1>2 DEF TaskInv
    <3> QED
      BY <3>1, <3>2
  <2> QED
    BY <2>1, <1>1, <1>2 DEF TaskInv
<1>5. SenderInv(r)' /\ ReceiverInv(r)' /\ WayInv(r)'
  BY <1>1, <1>2, SenderStays, ReceiverStays, WayStays
<1> QED
  BY <1>3, <1>4, <1>5

LEMMA DropHalfKeeps ==
  ASSUME IInv, NEW p \in Side, NEW half \in Half, drop_half(p, half)
  PROVE  IInv'
<1> SUFFICES ASSUME NEW r \in Side
             PROVE  TypeOK' /\ SenderInv(r)' /\ ReceiverInv(r)' /\ WayInv(r)' /\ TaskInv(r)'
  BY DEF IInv
<1>1. TypeOK /\ SenderInv(r) /\ ReceiverInv(r) /\ WayInv(r) /\ TaskInv(r)
  BY Given
<1>2. /\ open' = [open EXCEPT ![p] = @ \ {half}]
      /\ inQ' = IF half = "read" THEN [inQ EXCEPT ![p] = <<>>] ELSE inQ
      /\ UNCHANGED <<said, heard, told, exited, reliable, outQ, writing, tasks, up, copy,
                     eof, bridge, down, frame>>
  BY DEF drop_half, writers, relay
<1>3. \A x \in Side : open'[x] \subseteq open[x]
  BY <1>1, <1>2 DEF TypeOK
<1>4. \A x \in Side : inQ'[x] = inQ[x] \/ (inQ'[x] = <<>> /\ "read" \notin open'[x])
  <2> SUFFICES ASSUME NEW x \in Side
               PROVE  inQ'[x] = inQ[x] \/ (inQ'[x] = <<>> /\ "read" \notin open'[x])
    OBVIOUS
  <2>1. inQ \in [Side -> Seq(1..MaxSaid)] /\ open \in [Side -> SUBSET Half]
    BY <1>1 DEF TypeOK
  <2>2. CASE half = "read" /\ x = p
    <3>1. inQ'[p] = <<>>
      BY <2>1, <2>2, <1>2
    <3>2. open'[p] = open[p] \ {"read"}
      BY <2>1, <2>2, <1>2
    <3> QED
      BY <3>1, <3>2, <2>2
  <2>3. CASE half # "read"
    <3>1. inQ' = inQ
      BY <2>3, <1>2
    <3> QED
      BY <3>1
  <2>4. CASE half = "read" /\ x # p
    <3>1. inQ' = [inQ EXCEPT ![p] = <<>>]
      BY <2>4, <1>2
    <3> QED
      BY <3>1, <2>1, <2>4
  <2> QED
    BY <2>2, <2>3, <2>4
<1>5. TypeOK'
  <2>1. inQ' \in [Side -> Seq(1..MaxSaid)] /\ open' \in [Side -> SUBSET Half]
    BY <1>1, <1>2, SMTT(40) DEF TypeOK
  <2>2. \A x \in Side : Len(inQ'[x]) \in 0..QueueCap
    <3>1. \A x \in Side : Len(inQ[x]) \in 0..QueueCap
      BY <1>1 DEF TypeOK
    <3>2. Len(<<>>) \in 0..QueueCap
      BY EmptyRun, BridgeAssumption
    <3> QED
      BY <3>1, <3>2, <1>4
  <2> QED
    BY <2>1, <2>2, <1>1, <1>2, SMTT(40) DEF TypeOK
<1>6. ReceiverInv(r)' /\ WayInv(r)'
  <2>1. ReceiverInv(r)'
    <3>1. CASE "read" \notin open'[r]
      BY <3>1 DEF ReceiverInv
    <3>2. CASE inQ'[r] = inQ[r]
      BY <3>2, <1>1, <1>2, <1>3, ReceiverStays
    <3> QED
      BY <3>1, <3>2, <1>4
  <2>2. WayInv(r)'
    <3>1. CASE "read" \notin open'[Other(r)]
      BY <3>1 DEF WayInv
    <3>2. CASE inQ'[Other(r)] = inQ[Other(r)]
      BY <3>2, <1>1, <1>2, <1>3, WayStays, Sides
    <3> QED
      BY <3>1, <3>2, <1>4, Sides
  <2> QED
    BY <2>1, <2>2
<1>7. SenderInv(r)' /\ TaskInv(r)'
  <2>1. SenderInv(r)'
    BY <1>1, <1>2, SenderStays
  <2>2. TaskInv(r)'
    BY <1>1, <1>2, <1>3, <1>4 DEF TaskInv
  <2> QED
    BY <2>1, <2>2
<1> QED
  BY <1>5, <1>6, <1>7

LEMMA ExitKeeps ==
  ASSUME IInv, NEW p \in Side, exit(p)
  PROVE  IInv'
<1> DEFINE q == Other(p)
<1>1. q \in Side /\ q # p /\ Other(q) = p /\ \A r \in Side : r = p \/ r = q
  BY Sides
<1>2. /\ TypeOK /\ SenderInv(p) /\ ReceiverInv(p) /\ WayInv(p) /\ TaskInv(p)
      /\ SenderInv(q) /\ ReceiverInv(q) /\ WayInv(q) /\ TaskInv(q)
  BY Given, <1>1
<1>3. /\ exited' = exited \cup {p}
      /\ open' = [open EXCEPT ![p] = {}] /\ tasks' = [tasks EXCEPT ![p] = {}]
      /\ outQ' = [outQ EXCEPT ![p] = <<>>] /\ writing' = [writing EXCEPT ![p] = <<>>]
      /\ inQ' = [inQ EXCEPT ![p] = <<>>] /\ frame' = [frame EXCEPT ![p] = <<>>]
      /\ UNCHANGED <<said, heard, told, reliable, up, copy, eof, bridge, down>>
  BY DEF exit, relay
<1>4. /\ open'[p] = {} /\ tasks'[p] = {} /\ outQ'[p] = <<>> /\ writing'[p] = <<>>
      /\ inQ'[p] = <<>> /\ frame'[p] = <<>>
      /\ open'[q] = open[q] /\ tasks'[q] = tasks[q] /\ outQ'[q] = outQ[q]
      /\ writing'[q] = writing[q] /\ inQ'[q] = inQ[q] /\ frame'[q] = frame[q]
  BY <1>1, <1>2, <1>3 DEF TypeOK
<1>5. TypeOK'
  <2>1. /\ {open', tasks'} \subseteq [Side -> SUBSET Half]
        /\ {outQ', inQ'} \subseteq [Side -> Seq(1..MaxSaid)]
        /\ {writing', frame'} \subseteq [Side -> Seq(Unit)]
        /\ exited' \subseteq Side
    BY <1>2, <1>3 DEF TypeOK
  <2>2. \A r \in Side : /\ {Len(outQ'[r]), Len(inQ'[r])} \subseteq 0..QueueCap
                        /\ {Len(writing'[r]), Len(frame'[r])} \subseteq 0..2
    <3>1. Len(<<>>) \in 0..QueueCap /\ Len(<<>>) \in 0..2
      BY EmptyRun, BridgeAssumption
    <3>2. /\ {Len(outQ[q]), Len(inQ[q])} \subseteq 0..QueueCap
          /\ {Len(writing[q]), Len(frame[q])} \subseteq 0..2
      BY <1>1, <1>2 DEF TypeOK
    <3> QED
      BY <3>1, <3>2, <1>1, <1>4
  <2> QED
    BY <2>1, <2>2, <1>2, <1>3 DEF TypeOK
<1>6. SenderInv(p)' /\ SenderInv(q)'
  <2>1. SenderInv(p)'
    BY <1>4, EmptyRun DEF SenderInv
  <2> QED
    BY <2>1, <1>2, <1>3, <1>4, SenderStays
<1>7. ReceiverInv(p)' /\ ReceiverInv(q)' /\ WayInv(q)'
  <2>1. ReceiverInv(p)' /\ WayInv(q)'
    BY <1>1, <1>4 DEF ReceiverInv, WayInv
  <2> QED
    BY <2>1, <1>2, <1>3, <1>4, ReceiverStays
<1>8. WayInv(p)'
  <2>1. /\ Arrived(q)' = Arrived(q) /\ Copied(p)' = Copied(p) /\ Sent(p)' = Sent(p)
        /\ Sent(p) \in Nat
    <3>1. Arrived(q)' = Arrived(q)
      BY <1>3, <1>4 DEF Arrived, Framed, Handed
    <3>2. Copied(p)' = Copied(p)
      BY <3>1, <1>3 DEF Copied
    <3> QED
      BY <3>1, <3>2, <1>2, <1>3, Counts DEF Sent
  <2>2. Unsent(p)' = 0
    <3>1. Twice(0) = 0
      BY DEF Twice
    <3> QED
      BY <3>1, <1>4, EmptyRun DEF Unsent
  <2>3. Unsent(p) \in Nat /\ Twice(said[p]) \in Nat
    BY <1>2, Counts, DoubleCounts
  <2> QED
    BY <2>1, <2>2, <2>3, <1>1, <1>2, <1>3, <1>4 DEF WayInv
<1>9. TaskInv(p)' /\ TaskInv(q)'
  <2>1. TaskInv(p)'
    BY <1>2, <1>3, <1>4 DEF TaskInv
  <2>2. TaskInv(q)'
    BY <1>1, <1>2, <1>3, <1>4 DEF TaskInv
  <2> QED
    BY <2>1, <2>2
<1> QED
  BY <1>1, <1>5, <1>6, <1>7, <1>8, <1>9, BothSides

-----------------------------------------------------------------------------
(* The steps of a writer task.                                             *)

LEMMA TakeMessageKeeps ==
  ASSUME IInv, NEW p \in Side, take_message(p)
  PROVE  IInv'
<1> DEFINE q == Other(p)
<1>1. q \in Side /\ q # p /\ Other(q) = p /\ \A r \in Side : r = p \/ r = q
  BY Sides
<1>2. /\ TypeOK /\ SenderInv(p) /\ ReceiverInv(p) /\ WayInv(p) /\ TaskInv(p)
      /\ SenderInv(q) /\ ReceiverInv(q) /\ WayInv(q) /\ TaskInv(q)
  BY Given, <1>1
<1>3. /\ "write" \in tasks[p] /\ writing[p] = <<>> /\ outQ[p] # <<>>
      /\ outQ' = [outQ EXCEPT ![p] = Tail(@)]
      /\ writing' = [writing EXCEPT ![p] = Frame(Head(outQ[p]))]
      /\ UNCHANGED <<open, said, heard, told, exited, reliable, tasks, up, copy,
                     eof, bridge, down, frame, inQ>>
  BY DEF take_message, Pop, apps, relay, readers
<1>4. /\ outQ'[p] = Tail(outQ[p]) /\ outQ'[q] = outQ[q]
      /\ writing'[p] = Frame(Head(outQ[p])) /\ writing'[q] = writing[q]
  BY <1>1, <1>2, <1>3 DEF TypeOK
<1>5. /\ outQ[p] \in Seq(1..MaxSaid) /\ said[p] \in Nat /\ Len(outQ[p]) \in Nat
      /\ Numbered(outQ[p], said[p] - Len(outQ[p]))
  BY <1>2, Types, Counts DEF SenderInv
<1> DEFINE n == said[p] - Len(outQ[p])
<1>6. n \in Int
  BY <1>5
<1> HIDE DEF n
<1>7. /\ Head(outQ[p]) = n + 1 /\ n + 1 \in 1..MaxSaid
      /\ Tail(outQ[p]) \in Seq(1..MaxSaid) /\ Len(Tail(outQ[p])) = Len(outQ[p]) - 1
      /\ Len(outQ[p]) \in Nat \ {0} /\ Numbered(Tail(outQ[p]), n + 1)
  <2>1. Numbered(outQ[p], n)
    BY <1>5 DEF n
  <2>2. /\ Head(outQ[p]) = n + 1 /\ Head(outQ[p]) \in 1..MaxSaid
        /\ Tail(outQ[p]) \in Seq(1..MaxSaid) /\ Len(Tail(outQ[p])) = Len(outQ[p]) - 1
        /\ Len(outQ[p]) \in Nat \ {0} /\ Numbered(Tail(outQ[p]), n + 1)
    BY <2>1, <1>3, <1>5, <1>6, NumberedTail
  <2> QED
    BY <2>2
<1>8. /\ Run(writing'[p], Twice(n)) /\ Len(writing'[p]) = 2 /\ writing'[p] \in Seq(Unit)
  BY <1>4, <1>6, <1>7, FrameIsRun
<1>9. Unsent(p)' = Unsent(p) /\ Twice(said[p]) - Unsent(p) = Twice(n)
  <2>1. /\ Twice(Len(outQ[p]) - 1) = Twice(Len(outQ[p])) - 2
        /\ Twice(Len(outQ[p])) \in Nat /\ Twice(said[p]) \in Nat
        /\ Twice(n) = Twice(said[p]) - Twice(Len(outQ[p]))
    BY <1>5 DEF Twice, n
  <2>2. Unsent(p)' = 2 + Twice(Len(outQ[p]) - 1)
    BY <1>4, <1>7, <1>8 DEF Unsent
  <2>3. Unsent(p) = 0 + Twice(Len(outQ[p]))
    BY <1>3, EmptyRun DEF Unsent
  <2> QED
    BY <2>1, <2>2, <2>3
<1>10. SenderInv(p)'
  <2>1. said'[p] - Len(outQ'[p]) = n + 1
    <3>1. Len(outQ'[p]) = Len(outQ[p]) - 1
      BY <1>4, <1>7
    <3> QED
      BY <3>1, <1>3, <1>5 DEF n
  <2>2. Twice(said'[p]) - Unsent(p)' = Twice(n)
    BY <1>3, <1>9
  <2> QED
    BY <2>1, <2>2, <1>3, <1>4, <1>7, <1>8 DEF SenderInv
<1>11. WayInv(p)'
  <2>1. Arrived(q)' = Arrived(q) /\ Copied(p)' = Copied(p) /\ Sent(p)' = Sent(p)
    BY <1>3 DEF Sent, Copied, Arrived, Framed, Handed
  <2> QED
    BY <2>1, <1>2, <1>3, <1>9 DEF WayInv
<1>12. TypeOK'
  <2>1. outQ' \in [Side -> Seq(1..MaxSaid)] /\ writing' \in [Side -> Seq(Unit)]
    <3>1. outQ \in [Side -> Seq(1..MaxSaid)] /\ writing \in [Side -> Seq(Unit)]
      BY <1>2 DEF TypeOK
    <3> QED
      BY <3>1, <1>3, <1>4, <1>7, <1>8
  <2>2. \A r \in Side : Len(outQ'[r]) \in 0..QueueCap /\ Len(writing'[r]) \in 0..2
    <3>1. /\ Len(outQ[p]) \in 0..QueueCap /\ Len(outQ[q]) \in 0..QueueCap
          /\ Len(writing[q]) \in 0..2
      BY <1>1, <1>2 DEF TypeOK
    <3>2. Len(outQ'[p]) \in 0..QueueCap
      <4>1. Len(outQ'[p]) = Len(outQ[p]) - 1 /\ QueueCap \in Nat
        BY <1>4, <1>7, BridgeAssumption
      <4> QED
        BY <4>1, <3>1, <1>7
    <3>3. Len(writing'[p]) \in 0..2
      BY <1>8
    <3> QED
      BY <3>1, <3>2, <3>3, <1>1, <1>4
  <2> QED
    BY <2>1, <2>2, <1>2, <1>3, SMTT(40) DEF TypeOK
<1>13. ReceiverInv(p)' /\ ReceiverInv(q)' /\ TaskInv(p)' /\ TaskInv(q)'
  BY <1>2, <1>3, ReceiverStays, TaskStays
<1>14. SenderInv(q)' /\ WayInv(q)'
  BY <1>1, <1>2, <1>3, <1>4, SenderStays, WayStays
<1> QED
  BY <1>1, <1>10, <1>11, <1>12, <1>13, <1>14, BothSides

\* A unit less to be written.
LEMMA OneUnitLess ==
  ASSUME NEW p \in Side, TypeOK, SenderInv(p), writing[p] # <<>>,
         writing'[p] = Tail(writing[p]),
         UNCHANGED <<said[p], outQ[p], tasks[p]>>
  PROVE  /\ SenderInv(p)'
         /\ Unsent(p)' = Unsent(p) - 1 /\ Unsent(p) \in Nat
         /\ Head(writing[p]) = UnitAt(Twice(said[p]) - Unsent(p) + 1)
         /\ Head(writing[p]) \in Unit /\ Tail(writing[p]) \in Seq(Unit)
         /\ Len(Tail(writing[p])) = Len(writing[p]) - 1 /\ Len(writing[p]) \in Nat \ {0}
         /\ "write" \in tasks[p]
<1> DEFINE k == Twice(said[p]) - Unsent(p)
<1>1. /\ writing[p] \in Seq(Unit) /\ Unsent(p) \in Nat /\ Twice(said[p]) \in Nat
      /\ Twice(Len(outQ[p])) \in Nat
  BY Types, Counts, DoubleCounts
<1>2. k \in Int /\ Run(writing[p], k)
  BY <1>1 DEF SenderInv
<1> HIDE DEF k
<1>3. /\ Head(writing[p]) = UnitAt(k + 1) /\ Head(writing[p]) \in Unit
      /\ Tail(writing[p]) \in Seq(Unit) /\ Len(Tail(writing[p])) = Len(writing[p]) - 1
      /\ Len(writing[p]) \in Nat \ {0} /\ Run(Tail(writing[p]), k + 1)
  BY <1>1, <1>2, RunTail
<1>4. Unsent(p)' = Unsent(p) - 1
  <2>1. /\ Unsent(p)' = (Len(writing[p]) - 1) + Twice(Len(outQ[p]))
        /\ Unsent(p) = Len(writing[p]) + Twice(Len(outQ[p]))
    BY <1>3 DEF Unsent
  <2> QED
    BY <2>1, <1>1, <1>3
<1>5. "write" \in tasks[p]
  BY DEF SenderInv
<1>6. SenderInv(p)'
  <2>1. Twice(said'[p]) - Unsent(p)' = k + 1
    BY <1>1, <1>4 DEF k
  <2> QED
    BY <2>1, <1>3, <1>5 DEF SenderInv
<1> QED
  BY <1>1, <1>3, <1>4, <1>5, <1>6 DEF k

LEMMA WriteAllKeeps ==
  ASSUME IInv, NEW p \in Side, write_all(p)
  PROVE  IInv'
<1> DEFINE q == Other(p)
<1>1. q \in Side /\ q # p /\ Other(q) = p /\ \A r \in Side : r = p \/ r = q
  BY Sides
<1>2. /\ TypeOK /\ SenderInv(p) /\ ReceiverInv(p) /\ WayInv(p) /\ TaskInv(p)
      /\ SenderInv(q) /\ ReceiverInv(q) /\ WayInv(q) /\ TaskInv(q)
  BY Given, <1>1
<1>3. /\ bridge = "up" /\ Len(up[p]) < SocketCap /\ writing[p] # <<>>
      /\ writing' = [writing EXCEPT ![p] = Tail(@)]
      /\ up' = [up EXCEPT ![p] = Append(@, Head(writing[p]))]
      /\ UNCHANGED <<open, said, heard, told, exited, reliable, outQ, tasks, copy,
                     eof, bridge, down, frame, inQ>>
  BY DEF write_all, Push, Pop, apps, relay, readers
<1>4. /\ writing'[p] = Tail(writing[p]) /\ writing'[q] = writing[q]
      /\ up'[p] = Append(up[p], Head(writing[p])) /\ up'[q] = up[q]
  BY <1>1, <1>2, <1>3 DEF TypeOK
<1>5. /\ SenderInv(p)'
      /\ Unsent(p)' = Unsent(p) - 1 /\ Unsent(p) \in Nat
      /\ Head(writing[p]) = UnitAt(Twice(said[p]) - Unsent(p) + 1)
      /\ Head(writing[p]) \in Unit /\ Tail(writing[p]) \in Seq(Unit)
      /\ Len(Tail(writing[p])) = Len(writing[p]) - 1 /\ Len(writing[p]) \in Nat \ {0}
      /\ "write" \in tasks[p]
  BY <1>2, <1>3, <1>4, OneUnitLess
<1>6. p \notin exited /\ p \notin eof
  BY <1>2, <1>5 DEF TaskInv
<1>7. /\ up[p] \in Seq(Unit) /\ Len(up[p]) \in Nat /\ Sent(p) \in Nat /\ Copied(p) \in Nat
      /\ Twice(said[p]) \in Nat
  BY <1>2, Types, Counts, DoubleCounts
<1>8. up'[p] \in Seq(Unit) /\ Len(up'[p]) = Len(up[p]) + 1
  BY <1>4, <1>5, <1>7
<1>9. Sent(p)' = Sent(p) + 1 /\ Copied(p)' = Copied(p) /\ Arrived(q)' = Arrived(q)
  <2>1. Arrived(q)' = Arrived(q) /\ Copied(p)' = Copied(p)
    BY <1>3 DEF Copied, Arrived, Framed, Handed
  <2> QED
    BY <2>1, <1>7, <1>8 DEF Sent
<1>10. WayInv(p)'
  <2> SUFFICES ASSUME "read" \in open[q] PROVE WayInv(p)'
    BY <1>3 DEF WayInv
  <2>1. Sent(p) + Unsent(p) = Twice(said[p]) /\ Run(up[p], Copied(p)) /\ Run(copy[p], Arrived(q))
    BY <1>2, <1>3, <1>6 DEF WayInv
  <2>2. Run(up'[p], Copied(p))
    <3>1. Twice(said[p]) - Unsent(p) + 1 = Copied(p) + Len(up[p]) + 1
      BY <2>1, <1>5, <1>7 DEF Sent
    <3>2. Copied(p) \in Int
      BY <1>7
    <3> QED
      BY <3>1, <3>2, <2>1, <1>4, <1>5, <1>7, RunAppend, SMTT(40)
  <2>3. Sent(p)' + Unsent(p)' = Twice(said[p])
    BY <2>1, <1>5, <1>7, <1>9
  <2> QED
    BY <2>1, <2>2, <2>3, <1>3, <1>7, <1>9 DEF WayInv
<1>11. TypeOK'
  <2>1. up' \in [Side -> Seq(Unit)] /\ writing' \in [Side -> Seq(Unit)]
    <3>1. up \in [Side -> Seq(Unit)] /\ writing \in [Side -> Seq(Unit)]
      BY <1>2 DEF TypeOK
    <3> QED
      BY <3>1, <1>3, <1>4, <1>5, <1>8
  <2>2. Len(up'[p]) \in 0..SocketCap /\ Len(writing'[p]) \in 0..2
    <3>1. Len(writing[p]) \in 0..2 /\ SocketCap \in Nat
      BY <1>2, BridgeAssumption DEF TypeOK
    <3>2. Len(up'[p]) \in 0..SocketCap
      BY <3>1, <1>3, <1>7, <1>8
    <3>3. Len(writing'[p]) \in 0..2
      BY <3>1, <1>4, <1>5
    <3> QED
      BY <3>2, <3>3
  <2>3. \A r \in Side : Len(up'[r]) \in 0..SocketCap /\ Len(writing'[r]) \in 0..2
    <3>1. Len(up[q]) \in 0..SocketCap /\ Len(writing[q]) \in 0..2
      BY <1>1, <1>2 DEF TypeOK
    <3> QED
      BY <3>1, <2>2, <1>1, <1>4
  <2> QED
    BY <2>1, <2>3, <1>2, <1>3, SMTT(40) DEF TypeOK
<1>12. ReceiverInv(p)' /\ ReceiverInv(q)' /\ SenderInv(q)' /\ WayInv(q)' /\ TaskInv(q)'
  BY <1>1, <1>2, <1>3, <1>4, SenderStays, ReceiverStays, WayStays, TaskStays
<1>13. TaskInv(p)'
  BY <1>2, <1>3, <1>6 DEF TaskInv
<1> QED
  BY <1>1, <1>5, <1>10, <1>11, <1>12, <1>13, BothSides

\* Only when the bridge is broken is there still something to be lost.
LEMMA WriteLostKeeps ==
  ASSUME IInv, NEW p \in Side, write_lost(p)
  PROVE  IInv'
<1> DEFINE q == Other(p)
<1>1. q \in Side /\ q # p /\ Other(q) = p /\ \A r \in Side : r = p \/ r = q
  BY Sides
<1>2. /\ TypeOK /\ SenderInv(p) /\ ReceiverInv(p) /\ WayInv(p) /\ TaskInv(p)
      /\ SenderInv(q) /\ ReceiverInv(q) /\ WayInv(q) /\ TaskInv(q)
  BY Given, <1>1
<1>3. /\ bridge # "up" /\ writing[p] # <<>>
      /\ writing' = [writing EXCEPT ![p] = Tail(@)]
      /\ UNCHANGED <<open, said, heard, told, exited, reliable, outQ, tasks, up, copy,
                     eof, bridge, down, frame, inQ>>
  BY DEF write_lost, Pop, apps, relay, readers
<1>4. writing'[p] = Tail(writing[p]) /\ writing'[q] = writing[q]
  BY <1>1, <1>2, <1>3 DEF TypeOK
<1>5. /\ SenderInv(p)' /\ Unsent(p)' = Unsent(p) - 1 /\ Unsent(p) \in Nat
      /\ Tail(writing[p]) \in Seq(Unit)
      /\ Len(Tail(writing[p])) = Len(writing[p]) - 1 /\ Len(writing[p]) \in Nat \ {0}
      /\ "write" \in tasks[p]
  BY <1>2, <1>3, <1>4, OneUnitLess
<1>6. bridge = "broken"
  BY <1>2, <1>3, <1>5 DEF TaskInv, TypeOK
<1>7. WayInv(p)'
  <2>1. Arrived(q)' = Arrived(q) /\ Copied(p)' = Copied(p) /\ Sent(p)' = Sent(p)
    BY <1>3 DEF Sent, Copied, Arrived, Framed, Handed
  <2>2. Sent(p) \in Nat /\ Twice(said[p]) \in Nat
    BY <1>2, Counts, DoubleCounts
  <2> QED
    BY <2>1, <2>2, <1>2, <1>3, <1>5, <1>6 DEF WayInv
<1>8. TypeOK'
  <2>1. writing' \in [Side -> Seq(Unit)]
    <3>1. writing \in [Side -> Seq(Unit)]
      BY <1>2 DEF TypeOK
    <3> QED
      BY <3>1, <1>3, <1>4, <1>5
  <2>2. \A r \in Side : Len(writing'[r]) \in 0..2
    <3>1. Len(writing[q]) \in 0..2 /\ Len(writing[p]) \in 0..2
      BY <1>1, <1>2 DEF TypeOK
    <3>2. Len(writing'[p]) \in 0..2
      BY <3>1, <1>4, <1>5
    <3> QED
      BY <3>1, <3>2, <1>1, <1>4
  <2> QED
    BY <2>1, <2>2, <1>2, <1>3 DEF TypeOK
<1>9. /\ ReceiverInv(p)' /\ ReceiverInv(q)' /\ SenderInv(q)' /\ WayInv(q)'
      /\ TaskInv(p)' /\ TaskInv(q)'
  BY <1>1, <1>2, <1>3, <1>4, SenderStays, ReceiverStays, WayStays, TaskStays
<1> QED
  BY <1>1, <1>5, <1>7, <1>8, <1>9, BothSides

LEMMA WriteErrorKeeps ==
  ASSUME IInv, NEW p \in Side, write_error(p)
  PROVE  IInv'
<1> DEFINE q == Other(p)
<1>1. q \in Side /\ q # p /\ Other(q) = p /\ \A r \in Side : r = p \/ r = q
  BY Sides
<1>2. /\ TypeOK /\ SenderInv(p) /\ ReceiverInv(p) /\ WayInv(p) /\ TaskInv(p)
      /\ SenderInv(q) /\ ReceiverInv(q) /\ WayInv(q) /\ TaskInv(q)
  BY Given, <1>1
<1>3. /\ bridge # "up" /\ writing[p] # <<>>
      /\ writing' = [writing EXCEPT ![p] = <<>>] /\ outQ' = [outQ EXCEPT ![p] = <<>>]
      /\ tasks' = [tasks EXCEPT ![p] = @ \ {"write"}]
      /\ UNCHANGED <<open, said, heard, told, exited, reliable, up, copy,
                     eof, bridge, down, frame, inQ>>
  BY DEF write_error, EndTask, apps, relay, readers
<1>4. /\ writing'[p] = <<>> /\ writing'[q] = writing[q]
      /\ outQ'[p] = <<>> /\ outQ'[q] = outQ[q]
      /\ tasks'[p] = tasks[p] \ {"write"} /\ tasks'[q] = tasks[q]
  BY <1>1, <1>2, <1>3 DEF TypeOK
<1>5. bridge = "broken"
  BY <1>2, <1>3 DEF TaskInv, SenderInv, TypeOK
<1>6. SenderInv(p)' /\ SenderInv(q)'
  <2>1. SenderInv(p)'
    BY <1>4, EmptyRun DEF SenderInv
  <2> QED
    BY <2>1, <1>2, <1>3, <1>4, SenderStays
<1>7. WayInv(p)'
  <2>1. Arrived(q)' = Arrived(q) /\ Copied(p)' = Copied(p) /\ Sent(p)' = Sent(p)
    BY <1>3 DEF Sent, Copied, Arrived, Framed, Handed
  <2>2. Sent(p) \in Nat /\ Unsent(p) \in Nat /\ Twice(said[p]) \in Nat
    BY <1>2, Counts, DoubleCounts
  <2>3. Unsent(p)' = 0
    <3>1. Twice(0) = 0
      BY DEF Twice
    <3> QED
      BY <3>1, <1>4, EmptyRun DEF Unsent
  <2> QED
    BY <2>1, <2>2, <2>3, <1>2, <1>3, <1>5 DEF WayInv
<1>8. TypeOK'
  <2>1. /\ outQ' \in [Side -> Seq(1..MaxSaid)] /\ writing' \in [Side -> Seq(Unit)]
        /\ tasks' \in [Side -> SUBSET Half]
    BY <1>2, <1>3 DEF TypeOK
  <2>2. \A r \in Side : Len(outQ'[r]) \in 0..QueueCap /\ Len(writing'[r]) \in 0..2
    <3>1. Len(<<>>) \in 0..QueueCap /\ Len(<<>>) \in 0..2
      BY EmptyRun, BridgeAssumption
    <3>2. Len(outQ[q]) \in 0..QueueCap /\ Len(writing[q]) \in 0..2
      BY <1>1, <1>2 DEF TypeOK
    <3> QED
      BY <3>1, <3>2, <1>1, <1>4
  <2> QED
    BY <2>1, <2>2, <1>2, <1>3 DEF TypeOK
<1>9. ReceiverInv(p)' /\ ReceiverInv(q)' /\ WayInv(q)' /\ TaskInv(q)'
  BY <1>1, <1>2, <1>3, <1>4, ReceiverStays, WayStays, TaskStays
<1>10. TaskInv(p)'
  BY <1>2, <1>3, <1>4 DEF TaskInv
<1> QED
  BY <1>1, <1>6, <1>7, <1>8, <1>9, <1>10, BothSides

\* A task that ends with nothing to do; who still held its half would miss it.
LEMMA TaskEnds ==
  ASSUME IInv, NEW p \in Side, NEW half \in Half,
         tasks' = [tasks EXCEPT ![p] = @ \ {half}],
         half \notin open[p] \/ bridge # "up",
         half = "write" => writing[p] = <<>> /\ outQ[p] = <<>>,
         half = "read" /\ "read" \in open[p] => frame[p] = <<>> /\ down[p] = <<>>,
         UNCHANGED <<open, said, heard, told, exited, reliable, outQ, writing, up, copy,
                     eof, bridge, down, frame, inQ>>
  PROVE  IInv'
<1> SUFFICES ASSUME NEW r \in Side
             PROVE  TypeOK' /\ SenderInv(r)' /\ ReceiverInv(r)' /\ WayInv(r)' /\ TaskInv(r)'
  BY DEF IInv
<1>1. TypeOK /\ SenderInv(r) /\ ReceiverInv(r) /\ WayInv(r) /\ TaskInv(r)
  BY Given
<1>2. tasks'[r] = IF r = p THEN tasks[r] \ {half} ELSE tasks[r]
  BY <1>1 DEF TypeOK
<1>3. TypeOK'
  BY <1>1 DEF TypeOK
<1>4. ReceiverInv(r)' /\ WayInv(r)'
  BY <1>1, ReceiverStays, WayStays
<1>5. SenderInv(r)'
  <2>1. CASE r = p
    <3>1. "write" \notin tasks'[p] => writing[p] = <<>> /\ outQ[p] = <<>>
      BY <1>1, <1>2, <2>1 DEF SenderInv
    <3> QED
      BY <3>1, <2>1, <1>1 DEF SenderInv, Unsent
  <2>2. CASE r # p
    BY <2>2, <1>1, <1>2, SenderStays
  <2> QED
    BY <2>1, <2>2
<1>6. TaskInv(r)'
  <2>1. CASE r = p
    <3>1. tasks'[p] = tasks[p] \ {half}
      BY <1>2, <2>1
    <3> QED
      BY <3>1, <2>1, <1>1 DEF TaskInv
  <2>2. CASE r # p
    <3>1. tasks'[r] = tasks[r]
      BY <1>2, <2>2
    <3> QED
      BY <3>1, <1>1 DEF TaskInv
  <2> QED
    BY <2>1, <2>2
<1> QED
  BY <1>3, <1>4, <1>5, <1>6

LEMMA WriterEndsKeeps ==
  ASSUME IInv, NEW p \in Side, writer_ends(p)
  PROVE  IInv'
<1>1. /\ "write" \notin open[p] /\ outQ[p] = <<>> /\ writing[p] = <<>>
      /\ tasks' = [tasks EXCEPT ![p] = @ \ {"write"}]
      /\ UNCHANGED <<open, said, heard, told, exited, reliable, outQ, writing, up, copy,
                     eof, bridge, down, frame, inQ>>
  BY DEF writer_ends, EndTask, apps, writers, relay, readers
<1>2. "write" \in Half
  BY DEF Half
<1> QED
  BY <1>1, <1>2, TaskEnds

-----------------------------------------------------------------------------
(* The steps of the bridge.                                                *)

LEMMA AsymmetricReadKeeps ==
  ASSUME IInv, NEW p \in Side, asymmetric_read(p)
  PROVE  IInv'
<1> DEFINE q == Other(p)
<1>1. q \in Side /\ q # p /\ Other(q) = p /\ \A r \in Side : r = p \/ r = q
  BY Sides
<1>2. /\ TypeOK /\ SenderInv(p) /\ ReceiverInv(p) /\ WayInv(p) /\ TaskInv(p)
      /\ SenderInv(q) /\ ReceiverInv(q) /\ WayInv(q) /\ TaskInv(q)
  BY Given, <1>1
<1>3. PICK n \in 1..CopyCap :
        /\ n <= Len(up[p])
        /\ copy' = [copy EXCEPT ![p] = SubSeq(up[p], 1, n)]
        /\ up' = [up EXCEPT ![p] = SubSeq(@, n + 1, Len(@))]
  BY DEF asymmetric_read
<1>4. /\ bridge = "up" /\ p \notin eof /\ copy[p] = <<>>
      /\ UNCHANGED <<open, said, heard, told, exited, reliable, outQ, writing, tasks,
                     eof, bridge, down, frame, inQ>>
  BY DEF asymmetric_read, apps, writers, readers
<1>5. /\ copy'[p] = SubSeq(up[p], 1, n) /\ copy'[q] = copy[q]
      /\ up'[p] = SubSeq(up[p], n + 1, Len(up[p])) /\ up'[q] = up[q]
  BY <1>1, <1>2, <1>3 DEF TypeOK
<1>6. /\ up[p] \in Seq(Unit) /\ Len(up[p]) \in Nat /\ Sent(p) \in Nat /\ Copied(p) \in Nat
      /\ Arrived(q) \in Nat
  BY <1>1, <1>2, Types, Counts
<1>7. n \in 1..Len(up[p])
  BY <1>3, <1>6, BridgeAssumption
<1>8. /\ copy'[p] \in Seq(Unit) /\ Len(copy'[p]) = n
      /\ up'[p] \in Seq(Unit) /\ Len(up'[p]) = Len(up[p]) - n
  BY <1>5, <1>6, <1>7
<1>9. /\ Arrived(q)' = Arrived(q) /\ Copied(p) = Arrived(q) /\ Copied(p)' = Arrived(q) + n
      /\ Sent(p)' = Sent(p) /\ Unsent(p)' = Unsent(p)
  <2>1. Arrived(q)' = Arrived(q) /\ Unsent(p)' = Unsent(p)
    BY <1>4 DEF Arrived, Framed, Handed, Unsent
  <2>2. Copied(p) = Arrived(q)
    BY <1>4, <1>6, EmptyRun DEF Copied
  <2>3. Copied(p)' = Arrived(q) + n
    BY <2>1, <1>8 DEF Copied
  <2>4. Sent(p)' = Sent(p)
    <3>1. Sent(p)' = (Arrived(q) + n) + (Len(up[p]) - n)
      BY <2>3, <1>8 DEF Sent
    <3>2. Sent(p) = Arrived(q) + Len(up[p])
      BY <2>2 DEF Sent
    <3> QED
      BY <3>1, <3>2, <1>6, <1>7
  <2> QED
    BY <2>1, <2>2, <2>3, <2>4
<1>10. WayInv(p)'
  <2> SUFFICES ASSUME "read" \in open[q] PROVE WayInv(p)'
    BY <1>4 DEF WayInv
  <2>1. Run(up[p], Arrived(q))
    BY <1>2, <1>9 DEF WayInv
  <2>2. Arrived(q) \in Int
    BY <1>6
  <2>3. Run(copy'[p], Arrived(q)) /\ Run(up'[p], Arrived(q) + n)
    BY <2>1, <2>2, <1>5, <1>6, <1>7, RunCut
  <2> QED
    BY <2>3, <1>2, <1>4, <1>9 DEF WayInv
<1>11. TypeOK'
  <2>1. up' \in [Side -> Seq(Unit)] /\ copy' \in [Side -> Seq(Unit)]
    <3>1. up \in [Side -> Seq(Unit)] /\ copy \in [Side -> Seq(Unit)]
      BY <1>2 DEF TypeOK
    <3> QED
      BY <3>1, <1>3, <1>5, <1>8
  <2>2. Len(up'[p]) \in 0..SocketCap /\ Len(copy'[p]) <= CopyCap
    <3>1. Len(up[p]) \in 0..SocketCap /\ SocketCap \in Nat
      BY <1>2, BridgeAssumption DEF TypeOK
    <3>2. Len(up'[p]) \in 0..SocketCap
      BY <3>1, <1>7, <1>8
    <3> QED
      BY <3>2, <1>3, <1>8
  <2>3. \A r \in Side : Len(up'[r]) \in 0..SocketCap /\ Len(copy'[r]) <= CopyCap
    <3>1. Len(up[q]) \in 0..SocketCap /\ Len(copy[q]) <= CopyCap
      BY <1>1, <1>2 DEF TypeOK
    <3> QED
      BY <3>1, <2>2, <1>1, <1>5
  <2> QED
    BY <2>1, <2>3, <1>2, <1>4 DEF TypeOK
<1>12. /\ SenderInv(p)' /\ SenderInv(q)' /\ ReceiverInv(p)' /\ ReceiverInv(q)'
       /\ WayInv(q)' /\ TaskInv(q)'
  BY <1>1, <1>2, <1>4, <1>5, SenderStays, ReceiverStays, WayStays, TaskStays
<1>13. TaskInv(p)'
  BY <1>2, <1>4 DEF TaskInv
<1> QED
  BY <1>1, <1>10, <1>11, <1>12, <1>13, BothSides

LEMMA AsymmetricWriteKeeps ==
  ASSUME IInv, NEW p \in Side, asymmetric_write(p)
  PROVE  IInv'
<1> DEFINE q == Other(p)
<1>1. q \in Side /\ q # p /\ Other(q) = p /\ \A r \in Side : r = p \/ r = q
  BY Sides
<1>2. /\ TypeOK /\ SenderInv(p) /\ ReceiverInv(p) /\ WayInv(p) /\ TaskInv(p)
      /\ SenderInv(q) /\ ReceiverInv(q) /\ WayInv(q) /\ TaskInv(q)
  BY Given, <1>1
<1>3. /\ bridge = "up" /\ Len(down[q]) < SocketCap /\ copy[p] # <<>>
      /\ copy' = [copy EXCEPT ![p] = Tail(@)]
      /\ down' = [down EXCEPT ![q] = Append(@, Head(copy[p]))]
      /\ UNCHANGED <<open, said, heard, told, exited, reliable, outQ, writing, tasks, up,
                     eof, bridge, frame, inQ>>
  BY DEF asymmetric_write, Push, Pop, apps, writers, readers
<1>4. /\ copy'[p] = Tail(copy[p]) /\ copy'[q] = copy[q]
      /\ down'[q] = Append(down[q], Head(copy[p])) /\ down'[p] = down[p]
  BY <1>1, <1>2, <1>3 DEF TypeOK
<1>5. /\ copy[p] \in Seq(Unit) /\ down[q] \in Seq(Unit)
      /\ Len(copy[p]) \in Nat /\ Len(down[q]) \in Nat /\ Len(up[p]) \in Nat
      /\ Sent(p) \in Nat /\ Copied(p) \in Nat /\ Arrived(q) \in Nat /\ Framed(q) \in Nat
  BY <1>1, <1>2, Types, Counts
<1>6. /\ Head(copy[p]) \in Unit /\ Tail(copy[p]) \in Seq(Unit)
      /\ Len(Tail(copy[p])) = Len(copy[p]) - 1 /\ Len(copy[p]) \in Nat \ {0}
  BY <1>3, <1>5
<1>7. down'[q] \in Seq(Unit) /\ Len(down'[q]) = Len(down[q]) + 1
  BY <1>4, <1>5, <1>6
<1>8. /\ Framed(q)' = Framed(q) /\ Arrived(q)' = Arrived(q) + 1
      /\ Copied(p)' = Copied(p) /\ Sent(p)' = Sent(p) /\ Unsent(p)' = Unsent(p)
  <2>1. Framed(q)' = Framed(q) /\ Unsent(p)' = Unsent(p)
    BY <1>3 DEF Framed, Handed, Unsent
  <2>2. Arrived(q)' = Arrived(q) + 1
    BY <2>1, <1>5, <1>7 DEF Arrived
  <2>3. Copied(p)' = Copied(p)
    <3>1. Copied(p)' = (Arrived(q) + 1) + (Len(copy[p]) - 1)
      BY <2>2, <1>4, <1>6 DEF Copied
    <3>2. Copied(p) = Arrived(q) + Len(copy[p])
      BY DEF Copied
    <3> QED
      BY <3>1, <3>2, <1>5
  <2> QED
    BY <2>1, <2>2, <2>3, <1>3 DEF Sent
<1>9. ReceiverInv(q)' /\ WayInv(p)'
  <2>1. CASE "read" \notin open[q]
    BY <2>1, <1>3 DEF ReceiverInv, WayInv
  <2>2. CASE "read" \in open[q]
    <3>1. /\ Run(copy[p], Arrived(q)) /\ Run(down[q], Framed(q))
          /\ Arrived(q) \in Int /\ Framed(q) \in Int
      BY <2>2, <1>2, <1>5 DEF WayInv, ReceiverInv
    <3>2. Head(copy[p]) = UnitAt(Arrived(q) + 1) /\ Run(copy'[p], Arrived(q) + 1)
      BY <3>1, <1>3, <1>4, <1>5, RunTail, SMTT(40)
    <3>3. Run(down'[q], Framed(q))
      <4>1. Arrived(q) + 1 = Framed(q) + Len(down[q]) + 1
        BY DEF Arrived
      <4> QED
        BY <4>1, <3>1, <3>2, <1>4, <1>5, <1>6, RunAppend
    <3>4. ReceiverInv(q)'
      BY <3>3, <1>2, <1>3, <1>8 DEF ReceiverInv, Handed
    <3>5. WayInv(p)'
      BY <3>2, <1>2, <1>3, <1>8 DEF WayInv
    <3> QED
      BY <3>4, <3>5
  <2> QED
    BY <2>1, <2>2
<1>10. TypeOK'
  <2>1. down' \in [Side -> Seq(Unit)] /\ copy' \in [Side -> Seq(Unit)]
    <3>1. down \in [Side -> Seq(Unit)] /\ copy \in [Side -> Seq(Unit)]
      BY <1>2 DEF TypeOK
    <3> QED
      BY <3>1, <1>1, <1>3, <1>4, <1>6, <1>7
  <2>2. Len(down'[q]) \in 0..SocketCap /\ Len(copy'[p]) <= CopyCap
    <3>1. Len(copy[p]) <= CopyCap /\ SocketCap \in Nat /\ CopyCap \in Nat
      BY <1>2, BridgeAssumption DEF TypeOK
    <3>2. Len(down'[q]) \in 0..SocketCap
      BY <3>1, <1>3, <1>5, <1>7
    <3>3. Len(copy'[p]) <= CopyCap
      BY <3>1, <1>4, <1>6
    <3> QED
      BY <3>2, <3>3
  <2>3. \A r \in Side : Len(down'[r]) \in 0..SocketCap /\ Len(copy'[r]) <= CopyCap
    <3>1. Len(down[p]) \in 0..SocketCap /\ Len(copy[q]) <= CopyCap
      BY <1>1, <1>2 DEF TypeOK
    <3> QED
      BY <3>1, <2>2, <1>1, <1>4
  <2>4. ASSUME NEW r \in Side
        PROVE  /\ {Len(outQ'[r]), Len(inQ'[r])} \subseteq 0..QueueCap
               /\ {Len(writing'[r]), Len(frame'[r])} \subseteq 0..2
               /\ {Len(up'[r]), Len(down'[r])} \subseteq 0..SocketCap
               /\ Len(copy'[r]) <= CopyCap
    BY <2>3, <1>2, <1>3 DEF TypeOK
  <2>5. /\ {open', tasks'} \subseteq [Side -> SUBSET Half]
        /\ said' \in [Side -> 0..MaxSaid] /\ told' \in [Side -> BOOLEAN]
        /\ {outQ', heard', inQ'} \subseteq [Side -> Seq(1..MaxSaid)]
        /\ {writing', copy', up', down', frame'} \subseteq [Side -> Seq(Unit)]
    <3>1. UNCHANGED <<open, tasks, told, said, outQ, heard, inQ, writing, up, frame>>
      BY <1>3
    <3>2. /\ open \in [Side -> SUBSET Half] /\ tasks \in [Side -> SUBSET Half]
          /\ told \in [Side -> BOOLEAN] /\ said \in [Side -> 0..MaxSaid]
          /\ {outQ, heard, inQ} \subseteq [Side -> Seq(1..MaxSaid)]
          /\ {writing, up, frame} \subseteq [Side -> Seq(Unit)]
      BY <1>2 DEF TypeOK
    <3> QED
      BY <2>1, <3>1, <3>2
  <2>6. exited' \subseteq Side /\ eof' \subseteq Side /\ reliable' \in BOOLEAN
        /\ bridge' \in {"up", "over", "broken"}
    BY <1>2, <1>3 DEF TypeOK
  <2> QED
    BY <2>4, <2>5, <2>6 DEF TypeOK
<1>11. /\ SenderInv(p)' /\ SenderInv(q)' /\ ReceiverInv(p)' /\ WayInv(q)'
  BY <1>1, <1>2, <1>3, <1>4, SenderStays, ReceiverStays, WayStays
<1>12. TaskInv(p)' /\ TaskInv(q)'
  <2>1. p \notin eof
    BY <1>2, <1>3 DEF TaskInv
  <2>2. "read" \in open[q] => "read" \in tasks[q]
    BY <1>2, <1>3 DEF TaskInv
  <2>3. TaskInv(p)'
    BY <2>1, <1>2, <1>3, <1>4 DEF TaskInv
  <2>4. TaskInv(q)'
    BY <2>2, <1>2, <1>3, <1>4 DEF TaskInv
  <2> QED
    BY <2>3, <2>4
<1> QED
  BY <1>1, <1>9, <1>10, <1>11, <1>12, BothSides

LEMMA AsymmetricEofKeeps ==
  ASSUME IInv, NEW p \in Side, asymmetric_eof(p)
  PROVE  IInv'
<1> SUFFICES ASSUME NEW r \in Side
             PROVE  TypeOK' /\ SenderInv(r)' /\ ReceiverInv(r)' /\ WayInv(r)' /\ TaskInv(r)'
  BY DEF IInv
<1>1. TypeOK /\ SenderInv(r) /\ ReceiverInv(r) /\ WayInv(r) /\ TaskInv(r) /\ TaskInv(p)
  BY Given
<1>2. /\ bridge = "up" /\ copy[p] = <<>> /\ up[p] = <<>> /\ "write" \notin tasks[p]
      /\ eof' = eof \cup {p}
      /\ UNCHANGED <<open, said, heard, told, exited, reliable, outQ, writing, tasks, up,
                     copy, bridge, down, frame, inQ>>
  BY DEF asymmetric_eof, apps, writers, readers
<1>3. TypeOK'
  BY <1>1, <1>2 DEF TypeOK
<1>4. "write" \notin open[p] \cup tasks[p]
  BY <1>1, <1>2 DEF TaskInv
<1>5. TaskInv(r)'
  BY <1>1, <1>2, <1>4 DEF TaskInv
<1>6. SenderInv(r)' /\ ReceiverInv(r)' /\ WayInv(r)'
  BY <1>1, <1>2, SenderStays, ReceiverStays, WayStays
<1> QED
  BY <1>3, <1>5, <1>6

LEMMA BridgeEndsKeeps ==
  ASSUME IInv, bridge_ends
  PROVE  IInv'
<1> SUFFICES ASSUME NEW r \in Side
             PROVE  TypeOK' /\ SenderInv(r)' /\ ReceiverInv(r)' /\ WayInv(r)' /\ TaskInv(r)'
  BY DEF IInv, Side
<1>1. TypeOK /\ SenderInv(r) /\ ReceiverInv(r) /\ WayInv(r) /\ TaskInv(r)
  BY Given
<1>2. /\ bridge = "up" /\ eof = Side /\ bridge' = "over"
      /\ UNCHANGED <<open, said, heard, told, exited, reliable, outQ, writing, tasks, up,
                     copy, eof, down, frame, inQ>>
  BY DEF bridge_ends, apps, writers, readers
<1>3. TypeOK'
  BY <1>1, <1>2 DEF TypeOK
<1>4. TaskInv(r)'
  BY <1>1, <1>2 DEF TaskInv
<1>5. SenderInv(r)' /\ ReceiverInv(r)'
  BY <1>1, <1>2, SenderStays, ReceiverStays
<1>6. WayInv(r)'
  <2>1. bridge # "broken" /\ bridge' # "broken"
    BY <1>2
  <2> QED
    BY <2>1, <1>1, <1>2 DEF WayInv, Sent, Copied, Arrived, Framed, Handed, Unsent
<1> QED
  BY <1>3, <1>4, <1>5, <1>6

LEMMA BridgeErrorKeeps ==
  ASSUME IInv, bridge_error
  PROVE  IInv'
<1> SUFFICES ASSUME NEW p \in Side
             PROVE  TypeOK' /\ SenderInv(p)' /\ ReceiverInv(p)' /\ WayInv(p)' /\ TaskInv(p)'
  BY DEF IInv, Side
<1> DEFINE q == Other(p)
<1>1. q \in Side /\ q # p /\ Other(q) = p /\ \A r \in Side : r = p \/ r = q
  BY Sides
<1>2. /\ TypeOK /\ SenderInv(p) /\ ReceiverInv(p) /\ WayInv(p) /\ TaskInv(p)
      /\ ReceiverInv(q)
  BY Given, <1>1
<1>3. PICK cut \in SUBSET Side :
        down' = [r \in Side |-> IF r \in cut THEN <<>> ELSE down[r]]
  BY DEF bridge_error
<1>4. /\ bridge = "up" /\ bridge' = "broken"
      /\ copy' = [r \in Side |-> <<>>] /\ up' = [r \in Side |-> <<>>]
      /\ UNCHANGED <<open, said, heard, told, exited, reliable, outQ, writing, tasks,
                     eof, frame, inQ>>
  BY DEF bridge_error, apps, writers, readers
<1>5. /\ copy'[p] = <<>> /\ up'[p] = <<>>
      /\ \A r \in Side : down'[r] = <<>> \/ down'[r] = down[r]
  BY <1>1, <1>3, <1>4
<1>6. TypeOK'
  <2>1. /\ down' \in [Side -> Seq(Unit)] /\ copy' \in [Side -> Seq(Unit)]
        /\ up' \in [Side -> Seq(Unit)]
    <3>1. down \in [Side -> Seq(Unit)] /\ <<>> \in Seq(Unit)
      BY <1>2 DEF TypeOK
    <3> QED
      BY <3>1, <1>3, <1>4
  <2>2. \A r \in Side : /\ Len(down'[r]) \in 0..SocketCap /\ Len(up'[r]) \in 0..SocketCap
                        /\ Len(copy'[r]) <= CopyCap
    <3>1. Len(<<>>) \in 0..SocketCap /\ Len(<<>>) <= CopyCap
      BY EmptyRun, BridgeAssumption
    <3>2. \A r \in Side : Len(down[r]) \in 0..SocketCap
      BY <1>2 DEF TypeOK
    <3> QED
      BY <3>1, <3>2, <1>4, <1>5
  <2> QED
    BY <2>1, <2>2, <1>2, <1>4 DEF TypeOK
<1>7. SenderInv(p)'
  BY <1>2, <1>4, SenderStays
<1>8. ReceiverInv(p)'
  <2>1. Framed(p)' = Framed(p) /\ Handed(p)' = Handed(p)
    BY <1>4 DEF Framed, Handed
  <2>2. Run(down[p], Framed(p)) => Run(down'[p], Framed(p))
    BY <1>5, EmptyRun
  <2> QED
    BY <2>1, <2>2, <1>2, <1>4 DEF ReceiverInv
<1>9. WayInv(p)'
  <2>1. /\ Arrived(q) \in Nat /\ Framed(q) \in Nat /\ Len(down[q]) \in Nat
        /\ Len(copy[p]) \in Nat /\ Len(up[p]) \in Nat
        /\ Unsent(p) \in Nat /\ Twice(said[p]) \in Nat
    BY <1>1, <1>2, Counts, DoubleCounts
  <2>2. Framed(q)' = Framed(q) /\ Unsent(p)' = Unsent(p)
    BY <1>4 DEF Framed, Handed, Unsent
  <2>3. Arrived(q)' \in Nat /\ Arrived(q)' <= Arrived(q)
    <3>1. CASE down'[q] = <<>>
      <4>1. Arrived(q)' = Framed(q) + 0 /\ Arrived(q) = Framed(q) + Len(down[q])
        BY <3>1, <2>2, EmptyRun DEF Arrived
      <4> QED
        BY <4>1, <2>1
    <3>2. CASE down'[q] = down[q]
      BY <3>2, <2>1, <2>2 DEF Arrived
    <3> QED
      BY <3>1, <3>2, <1>1, <1>5
  <2>4. Copied(p)' = Arrived(q)' /\ Sent(p)' = Arrived(q)'
    <3>1. Copied(p)' = Arrived(q)' + 0
      BY <1>5, EmptyRun DEF Copied
    <3>2. Sent(p)' = Copied(p)' + 0
      BY <1>5, EmptyRun DEF Sent
    <3> QED
      BY <3>1, <3>2, <2>3
  <2>5. Sent(p) >= Arrived(q) /\ Sent(p) \in Nat
    <3>1. Sent(p) = Arrived(q) + Len(copy[p]) + Len(up[p])
      BY DEF Sent, Copied
    <3> QED
      BY <3>1, <2>1
  <2>6. "read" \in open[q] => Sent(p)' + Unsent(p)' <= Twice(said[p])
    BY <2>1, <2>2, <2>3, <2>4, <2>5, <1>2 DEF WayInv
  <2> QED
    BY <2>6, <1>4, <1>5, EmptyRun DEF WayInv
<1>10. TaskInv(p)'
  BY <1>2, <1>4, <1>5 DEF TaskInv
<1> QED
  BY <1>6, <1>7, <1>8, <1>9, <1>10

-----------------------------------------------------------------------------
(* The steps of a reader task.                                             *)

LEMMA ReadExactKeeps ==
  ASSUME IInv, NEW p \in Side, read_exact(p)
  PROVE  IInv'
<1> DEFINE q == Other(p)
<1>1. q \in Side /\ q # p /\ Other(q) = p /\ \A r \in Side : r = p \/ r = q
  BY Sides
<1>2. /\ TypeOK /\ SenderInv(p) /\ ReceiverInv(p) /\ WayInv(p) /\ TaskInv(p)
      /\ SenderInv(q) /\ ReceiverInv(q) /\ WayInv(q) /\ TaskInv(q)
  BY Given, <1>1
<1>3. /\ "read" \in tasks[p] /\ Len(frame[p]) < 2 /\ down[p] # <<>>
      /\ down' = [down EXCEPT ![p] = Tail(@)]
      /\ UNCHANGED <<open, said, heard, told, exited, reliable, outQ, writing, up, copy,
                     eof, bridge, inQ>>
  BY DEF read_exact, Pop, apps, writers, relay
<1>4. down'[p] = Tail(down[p]) /\ down'[q] = down[q]
  BY <1>1, <1>2, <1>3 DEF TypeOK
<1>5. /\ down[p] \in Seq(Unit) /\ frame[p] \in Seq(Unit)
      /\ Len(down[p]) \in Nat /\ Len(frame[p]) \in Nat
      /\ Handed(p) \in Nat /\ Framed(p) \in Nat /\ Arrived(p) \in Nat
  BY <1>2, Types, Counts
<1>6. /\ Head(down[p]) \in Unit /\ Tail(down[p]) \in Seq(Unit)
      /\ Len(Tail(down[p])) = Len(down[p]) - 1 /\ Len(down[p]) \in Nat \ {0}
  BY <1>3, <1>5
<1>7. Len(down'[p]) \in 0..SocketCap /\ down' \in [Side -> Seq(Unit)]
  <2>1. Len(down[p]) \in 0..SocketCap /\ SocketCap \in Nat /\ down \in [Side -> Seq(Unit)]
    BY <1>2, BridgeAssumption DEF TypeOK
  <2>2. down' \in [Side -> Seq(Unit)]
    BY <2>1, <1>3, <1>4, <1>6
  <2> QED
    BY <2>1, <2>2, <1>4, <1>6
<1>8. \A r \in Side : Len(down'[r]) \in 0..SocketCap
  <2>1. Len(down[q]) \in 0..SocketCap
    BY <1>1, <1>2 DEF TypeOK
  <2> QED
    BY <2>1, <1>1, <1>4, <1>7
<1>9. ASSUME "read" \in open[p]
      PROVE  /\ Head(down[p]) = UnitAt(Framed(p) + 1) /\ Run(Tail(down[p]), Framed(p) + 1)
             /\ Run(frame[p], Handed(p))
  <2>1. Run(down[p], Framed(p)) /\ Run(frame[p], Handed(p)) /\ Framed(p) \in Int
    BY <1>2, <1>5, <1>9 DEF ReceiverInv
  <2> QED
    BY <2>1, <1>3, <1>5, RunTail
<1>10. CASE frame[p] = <<>> /\ Head(down[p])[2] # "header"
  <2>1. tasks' = [tasks EXCEPT ![p] = @ \ {"read"}] /\ frame' = frame
    BY <1>10 DEF read_exact, EndTask
  <2>2. tasks'[p] = tasks[p] \ {"read"} /\ tasks'[q] = tasks[q]
    BY <2>1, <1>1, <1>2 DEF TypeOK
  <2>3. "read" \notin open[p]
    <3> SUFFICES ASSUME "read" \in open[p] PROVE FALSE
      OBVIOUS
    <3>1. PICK h \in Nat : h = Len(heard[p])
      BY <1>2, Counts
    <3>2. PICK i \in Nat : i = Len(inQ[p])
      BY <1>2, Counts
    <3>3. Framed(p) = Twice(h + i) /\ h + i \in Int
      <4>1. Framed(p) = Handed(p) + 0
        BY <1>10, EmptyRun DEF Framed
      <4>2. Handed(p) = Twice(h) + Twice(i)
        BY <3>1, <3>2 DEF Handed
      <4>3. Twice(h + i) = Twice(h) + Twice(i)
        BY DEF Twice
      <4> QED
        BY <4>1, <4>2, <4>3, <1>5
    <3>4. Head(down[p])[2] = "header"
      BY <3>3, <1>9, HeaderComesNext
    <3> QED
      BY <3>4, <1>10
  <2>4. TypeOK'
    <3>1. tasks' \in [Side -> SUBSET Half]
      BY <2>1, <1>2 DEF TypeOK
    <3> QED
      BY <3>1, <2>1, <1>2, <1>3, <1>7, <1>8 DEF TypeOK
  <2>5. SenderInv(p)' /\ SenderInv(q)' /\ ReceiverInv(q)' /\ WayInv(p)'
    BY <2>1, <2>2, <1>1, <1>2, <1>3, <1>4, SenderStays, ReceiverStays, WayStays
  <2>6. ReceiverInv(p)' /\ WayInv(q)'
    BY <2>3, <1>1, <1>3 DEF ReceiverInv, WayInv
  <2>7. TaskInv(p)' /\ TaskInv(q)'
    <3>1. TaskInv(p)'
      BY <2>2, <2>3, <1>2, <1>3 DEF TaskInv
    <3>2. TaskInv(q)'
      BY <2>1, <2>2, <1>2, <1>3, <1>4 DEF TaskInv
    <3> QED
      BY <3>1, <3>2
  <2> QED
    BY <2>4, <2>5, <2>6, <2>7, <1>1, BothSides
<1>11. CASE ~(frame[p] = <<>> /\ Head(down[p])[2] # "header")
  <2>1. frame' = [frame EXCEPT ![p] = Append(@, Head(down[p]))] /\ tasks' = tasks
    BY <1>11 DEF read_exact, Push
  <2>2. frame'[p] = Append(frame[p], Head(down[p])) /\ frame'[q] = frame[q]
    BY <2>1, <1>1, <1>2 DEF TypeOK
  <2>3. frame'[p] \in Seq(Unit) /\ Len(frame'[p]) = Len(frame[p]) + 1
    BY <2>2, <1>5, <1>6
  <2>4. /\ Handed(p)' = Handed(p) /\ Framed(p)' = Framed(p) + 1 /\ Arrived(p)' = Arrived(p)
        /\ Copied(q)' = Copied(q) /\ Sent(q)' = Sent(q) /\ Unsent(q)' = Unsent(q)
    <3>1. Handed(p)' = Handed(p) /\ Unsent(q)' = Unsent(q)
      BY <1>3 DEF Handed, Unsent
    <3>2. Framed(p)' = Framed(p) + 1
      BY <3>1, <2>3, <1>5 DEF Framed
    <3>3. Arrived(p)' = Arrived(p)
      <4>1. Arrived(p)' = (Framed(p) + 1) + (Len(down[p]) - 1)
        BY <3>2, <1>4, <1>6 DEF Arrived
      <4>2. Arrived(p) = Framed(p) + Len(down[p])
        BY DEF Arrived
      <4> QED
        BY <4>1, <4>2, <1>5
    <3> QED
      BY <3>1, <3>2, <3>3, <1>1, <1>3 DEF Copied, Sent
  <2>5. ReceiverInv(p)'
    <3> SUFFICES ASSUME "read" \in open[p] PROVE ReceiverInv(p)'
      BY <1>3 DEF ReceiverInv
    <3>1. Run(frame'[p], Handed(p))
      <4>1. Framed(p) + 1 = Handed(p) + Len(frame[p]) + 1 /\ Handed(p) \in Int
        BY <1>5 DEF Framed
      <4>2. Run(frame[p], Handed(p)) /\ Head(down[p]) = UnitAt(Framed(p) + 1)
        BY <1>9
      <4> QED
        BY <4>1, <4>2, <2>2, <1>5, <1>6, RunAppend
    <3>2. Run(down'[p], Framed(p) + 1)
      BY <1>4, <1>9
    <3> QED
      BY <3>1, <3>2, <2>4, <1>2, <1>3 DEF ReceiverInv
  <2>6. WayInv(q)'
    BY <2>4, <1>1, <1>2, <1>3 DEF WayInv
  <2>7. TypeOK'
    <3>1. frame' \in [Side -> Seq(Unit)]
      <4>1. frame \in [Side -> Seq(Unit)]
        BY <1>2 DEF TypeOK
      <4> QED
        BY <4>1, <2>1, <2>2, <2>3
    <3>2. \A r \in Side : Len(frame'[r]) \in 0..2
      <4>1. Len(frame[q]) \in 0..2 /\ Len(frame'[p]) \in 0..2
        <5>1. Len(frame[q]) \in 0..2
          BY <1>1, <1>2 DEF TypeOK
        <5>2. Len(frame'[p]) \in 0..2
          BY <2>3, <1>3, <1>5
        <5> QED
          BY <5>1, <5>2
      <4> QED
        BY <4>1, <2>2, <1>1
    <3> QED
      BY <3>1, <3>2, <2>1, <1>2, <1>3, <1>7, <1>8, SMTT(40) DEF TypeOK
  <2>8. SenderInv(p)' /\ SenderInv(q)' /\ ReceiverInv(q)' /\ WayInv(p)'
    BY <2>1, <2>2, <1>1, <1>2, <1>3, <1>4, SenderStays, ReceiverStays, WayStays
  <2>9. TaskInv(p)' /\ TaskInv(q)'
    <3>1. TaskInv(p)'
      BY <2>1, <1>2, <1>3 DEF TaskInv
    <3>2. TaskInv(q)'
      BY <2>1, <2>2, <1>2, <1>3, <1>4, TaskStays
    <3> QED
      BY <3>1, <3>2
  <2> QED
    BY <2>5, <2>6, <2>7, <2>8, <2>9, <1>1, BothSides
<1> QED
  BY <1>10, <1>11

LEMMA SendMessageKeeps ==
  ASSUME IInv, NEW p \in Side, send_message(p)
  PROVE  IInv'
<1> DEFINE q == Other(p)
<1>1. q \in Side /\ q # p /\ Other(q) = p /\ \A r \in Side : r = p \/ r = q
  BY Sides
<1>2. /\ TypeOK /\ SenderInv(p) /\ ReceiverInv(p) /\ WayInv(p) /\ TaskInv(p)
      /\ SenderInv(q) /\ ReceiverInv(q) /\ WayInv(q) /\ TaskInv(q)
  BY Given, <1>1
<1>3. /\ "read" \in tasks[p] /\ Len(frame[p]) = 2 /\ "read" \in open[p]
      /\ Len(inQ[p]) < QueueCap
      /\ inQ' = [inQ EXCEPT ![p] = Append(@, Message(frame[p]))]
      /\ frame' = [frame EXCEPT ![p] = <<>>]
      /\ UNCHANGED <<open, said, heard, told, exited, reliable, outQ, writing, tasks, up,
                     copy, eof, bridge, down>>
  BY DEF send_message, Push, apps, writers, relay
<1>4. /\ inQ'[p] = Append(inQ[p], Message(frame[p])) /\ inQ'[q] = inQ[q]
      /\ frame'[p] = <<>> /\ frame'[q] = frame[q]
  BY <1>1, <1>2, <1>3 DEF TypeOK
<1>5. /\ inQ[p] \in Seq(1..MaxSaid) /\ frame[p] \in Seq(Unit)
      /\ Len(inQ[p]) \in Nat /\ Len(heard[p]) \in Nat
      /\ Handed(p) \in Nat /\ Framed(p) \in Nat
  BY <1>2, Types, Counts
<1>6. /\ Numbered(inQ[p], Len(heard[p])) /\ Run(frame[p], Handed(p))
      /\ Run(down[p], Framed(p))
  BY <1>2, <1>3 DEF ReceiverInv
<1>16. PICK h \in Nat : h = Len(heard[p])
  BY <1>5
<1>17. PICK i \in Nat : i = Len(inQ[p])
  BY <1>5
<1>7. h + i \in Int /\ Handed(p) = Twice(h + i)
  <2>1. Twice(h + i) = Twice(h) + Twice(i) /\ h + i \in Int
    BY DEF Twice
  <2>2. Handed(p) = Twice(h) + Twice(i)
    BY <1>16, <1>17 DEF Handed
  <2> QED
    BY <2>1, <2>2
<1>8. Message(frame[p]) = h + i + 1 /\ Message(frame[p]) \in 1..MaxSaid
  BY <1>3, <1>5, <1>6, <1>7, RunIsFrame
<1>9. /\ inQ'[p] \in Seq(1..MaxSaid) /\ Len(inQ'[p]) = Len(inQ[p]) + 1
      /\ Numbered(inQ'[p], Len(heard[p]))
  <2>1. Numbered(inQ[p], h) /\ Message(frame[p]) = h + Len(inQ[p]) + 1 /\ h \in Int
    BY <1>6, <1>8, <1>16, <1>17
  <2>2. /\ Append(inQ[p], Message(frame[p])) \in Seq(1..MaxSaid)
        /\ Len(Append(inQ[p], Message(frame[p]))) = Len(inQ[p]) + 1
        /\ Numbered(Append(inQ[p], Message(frame[p])), h)
    BY <2>1, <1>5, <1>8, NumberedAppend
  <2> QED
    BY <2>2, <1>4, <1>16
<1>10. /\ Framed(p)' = Framed(p) /\ Handed(p)' = Framed(p) /\ Arrived(p)' = Arrived(p)
       /\ Copied(q)' = Copied(q) /\ Sent(q)' = Sent(q) /\ Unsent(q)' = Unsent(q)
  <2>1. /\ Twice(Len(inQ[p]) + 1) = Twice(Len(inQ[p])) + 2
        /\ Twice(Len(inQ[p])) \in Nat /\ Twice(Len(heard[p])) \in Nat
    BY <1>5 DEF Twice
  <2>2. Handed(p)' = Handed(p) + 2
    <3>1. Handed(p)' = Twice(Len(heard[p])) + Twice(Len(inQ[p]) + 1)
      BY <1>3, <1>9 DEF Handed
    <3>2. Handed(p) = Twice(Len(heard[p])) + Twice(Len(inQ[p]))
      BY DEF Handed
    <3> QED
      BY <3>1, <3>2, <2>1
  <2>3. Framed(p) = Handed(p) + 2 /\ Framed(p)' = Handed(p)' + 0
    BY <1>3, <1>4, EmptyRun DEF Framed
  <2>4. Framed(p)' = Framed(p) /\ Handed(p)' = Framed(p)
    BY <2>2, <2>3, <1>5
  <2> QED
    BY <2>4, <1>1, <1>3 DEF Arrived, Copied, Sent, Unsent
<1>11. ReceiverInv(p)'
  BY <1>2, <1>3, <1>4, <1>6, <1>9, <1>10, EmptyRun DEF ReceiverInv
<1>12. WayInv(q)'
  BY <1>1, <1>2, <1>3, <1>10 DEF WayInv
<1>13. TypeOK'
  <2>1. inQ' \in [Side -> Seq(1..MaxSaid)] /\ frame' \in [Side -> Seq(Unit)]
    <3>1. inQ \in [Side -> Seq(1..MaxSaid)] /\ frame \in [Side -> Seq(Unit)]
      BY <1>2 DEF TypeOK
    <3> QED
      BY <3>1, <1>3, <1>4, <1>9
  <2>2. \A r \in Side : Len(inQ'[r]) \in 0..QueueCap /\ Len(frame'[r]) \in 0..2
    <3>1. Len(inQ[q]) \in 0..QueueCap /\ Len(frame[q]) \in 0..2
      BY <1>1, <1>2 DEF TypeOK
    <3>2. Len(inQ'[p]) \in 0..QueueCap
      <4>1. QueueCap \in Nat
        BY BridgeAssumption
      <4> QED
        BY <4>1, <1>3, <1>5, <1>9
    <3>3. Len(frame'[p]) \in 0..2
      BY <1>4, EmptyRun
    <3> QED
      BY <3>1, <3>2, <3>3, <1>1, <1>4
  <2> QED
    BY <2>1, <2>2, <1>2, <1>3 DEF TypeOK
<1>14. SenderInv(p)' /\ SenderInv(q)' /\ ReceiverInv(q)' /\ WayInv(p)' /\ TaskInv(q)'
  BY <1>1, <1>2, <1>3, <1>4, SenderStays, ReceiverStays, WayStays, TaskStays
<1>15. TaskInv(p)'
  BY <1>2, <1>3 DEF TaskInv
<1> QED
  BY <1>1, <1>11, <1>12, <1>13, <1>14, <1>15, BothSides

\* The reader task of one that no longer listens may drop what it has.
LEMMA ReaderStops ==
  ASSUME IInv, NEW p \in Side,
         tasks' = [tasks EXCEPT ![p] = @ \ {"read"}],
         frame' = [frame EXCEPT ![p] = <<>>],
         "read" \notin open[p],
         UNCHANGED <<open, said, heard, told, exited, reliable, outQ, writing, up, copy,
                     eof, bridge, down, inQ>>
  PROVE  IInv'
<1> DEFINE q == Other(p)
<1>1. q \in Side /\ q # p /\ Other(q) = p /\ \A r \in Side : r = p \/ r = q
  BY Sides
<1>2. /\ TypeOK /\ SenderInv(p) /\ ReceiverInv(p) /\ WayInv(p) /\ TaskInv(p)
      /\ SenderInv(q) /\ ReceiverInv(q) /\ WayInv(q) /\ TaskInv(q)
  BY Given, <1>1
<1>3. /\ tasks'[p] = tasks[p] \ {"read"} /\ tasks'[q] = tasks[q]
      /\ frame'[p] = <<>> /\ frame'[q] = frame[q]
  BY <1>1, <1>2 DEF TypeOK
<1>4. TypeOK'
  <2>1. frame' \in [Side -> Seq(Unit)] /\ tasks' \in [Side -> SUBSET Half]
    BY <1>2 DEF TypeOK
  <2>2. \A r \in Side : Len(frame'[r]) \in 0..2
    <3>1. Len(frame[q]) \in 0..2
      BY <1>1, <1>2 DEF TypeOK
    <3>2. Len(frame'[p]) \in 0..2
      BY <1>3, EmptyRun
    <3> QED
      BY <3>1, <3>2, <1>1, <1>3
  <2> QED
    BY <2>1, <2>2, <1>2 DEF TypeOK
<1>5. SenderInv(p)' /\ SenderInv(q)' /\ ReceiverInv(q)' /\ WayInv(p)' /\ TaskInv(q)'
  BY <1>1, <1>2, <1>3, SenderStays, ReceiverStays, WayStays, TaskStays
<1>6. ReceiverInv(p)' /\ WayInv(q)'
  BY <1>1 DEF ReceiverInv, WayInv
<1>7. TaskInv(p)'
  BY <1>2, <1>3 DEF TaskInv
<1> QED
  BY <1>1, <1>4, <1>5, <1>6, <1>7, BothSides

LEMMA SendFailsKeeps ==
  ASSUME IInv, NEW p \in Side, send_fails(p)
  PROVE  IInv'
<1>1. /\ tasks' = [tasks EXCEPT ![p] = @ \ {"read"}] /\ "read" \notin open[p]
      /\ frame' = [frame EXCEPT ![p] = <<>>]
      /\ UNCHANGED <<open, said, heard, told, exited, reliable, outQ, writing, up, copy,
                     eof, bridge, down, inQ>>
  BY DEF send_fails, EndTask, apps, writers, relay
<1> QED
  BY <1>1, ReaderStops

\* Of a line that comes to an orderly end, half a frame cannot be left.
LEMMA ReaderEndsKeeps ==
  ASSUME IInv, NEW p \in Side, reader_ends(p)
  PROVE  IInv'
<1> DEFINE q == Other(p)
<1>1. q \in Side /\ q # p /\ Other(q) = p /\ \A r \in Side : r = p \/ r = q
  BY Sides
<1>2. /\ TypeOK /\ SenderInv(p) /\ ReceiverInv(p) /\ WayInv(p) /\ TaskInv(p)
      /\ SenderInv(q) /\ ReceiverInv(q) /\ WayInv(q) /\ TaskInv(q)
  BY Given, <1>1
<1>3. /\ "read" \in tasks[p] /\ Len(frame[p]) < 2 /\ down[p] = <<>> /\ bridge # "up"
      /\ tasks' = [tasks EXCEPT ![p] = @ \ {"read"}]
      /\ frame' = [frame EXCEPT ![p] = <<>>]
      /\ UNCHANGED <<open, said, heard, told, exited, reliable, outQ, writing, up, copy,
                     eof, bridge, down, inQ>>
  BY DEF reader_ends, EndTask, apps, writers, relay
<1>4. CASE "read" \notin open[p]
  BY <1>3, <1>4, ReaderStops
<1>5. CASE "read" \in open[p]
  <2>1. /\ tasks'[p] = tasks[p] \ {"read"} /\ tasks'[q] = tasks[q]
        /\ frame'[p] = <<>> /\ frame'[q] = frame[q]
    BY <1>1, <1>2, <1>3 DEF TypeOK
  <2>2. /\ Handed(p) \in Nat /\ Framed(p) \in Nat /\ Arrived(p) \in Nat
        /\ Sent(q) \in Nat /\ Unsent(q) \in Nat /\ Len(frame[p]) \in Nat
        /\ Twice(said[q]) \in Nat
    BY <1>1, <1>2, Counts, DoubleCounts
  <2>3. up[q] = <<>> /\ copy[q] = <<>>
    BY <1>2, <1>3 DEF TaskInv, TypeOK
  <2>4. Framed(p) = Handed(p) + Len(frame[p]) /\ Sent(q) = Framed(p)
    <3>1. Framed(p) = Handed(p) + Len(frame[p])
      BY DEF Framed
    <3>2. Arrived(p) = Framed(p) + 0
      BY <1>3, EmptyRun DEF Arrived
    <3>3. Copied(q) = Arrived(p) + 0
      BY <1>1, <2>3, EmptyRun DEF Copied
    <3>4. Sent(q) = Copied(q) + 0
      BY <2>3, EmptyRun DEF Sent
    <3> QED
      BY <3>1, <3>2, <3>3, <3>4, <2>2
  <2>5. /\ Handed(p)' = Handed(p) /\ Framed(p)' = Handed(p) /\ Sent(q)' = Handed(p)
        /\ Unsent(q)' = Unsent(q)
    <3>1. Handed(p)' = Handed(p) /\ Unsent(q)' = Unsent(q)
      BY <1>3 DEF Handed, Unsent
    <3>2. Framed(p)' = Handed(p) + 0
      BY <3>1, <2>1, EmptyRun DEF Framed
    <3>3. Arrived(p)' = Framed(p)' + 0
      BY <1>3, EmptyRun DEF Arrived
    <3>4. Copied(q)' = Arrived(p)' + 0
      BY <1>1, <1>3, <2>3, EmptyRun DEF Copied
    <3>5. Sent(q)' = Copied(q)' + 0
      BY <1>3, <2>3, EmptyRun DEF Sent
    <3> QED
      BY <3>1, <3>2, <3>3, <3>4, <3>5, <2>2
  <2>6. ASSUME q \notin exited, bridge # "broken"
        PROVE  Len(frame[p]) = 0
    <3>1. Sent(q) + Unsent(q) = Twice(said[q])
      BY <2>6, <1>1, <1>2, <1>5 DEF WayInv
    <3>2. writing[q] = <<>> /\ outQ[q] = <<>>
      BY <2>6, <1>2, <1>3 DEF TaskInv, SenderInv, TypeOK
    <3>3. Unsent(q) = 0
      <4>1. Twice(0) = 0
        BY DEF Twice
      <4> QED
        BY <4>1, <3>2, EmptyRun DEF Unsent
    <3>4. PICK h \in Nat, i \in Nat, s \in Nat, f \in Nat :
             h = Len(heard[p]) /\ i = Len(inQ[p]) /\ s = said[q] /\ f = Len(frame[p])
      BY <1>1, <1>2, Counts, Types
    <3>5. Handed(p) = Twice(h) + Twice(i)
      BY <3>4 DEF Handed
    <3>6. Twice(h) + Twice(i) + f = Twice(s)
      BY <3>1, <3>3, <3>4, <3>5, <2>2, <2>4
    <3>7. f < 2
      BY <3>4, <1>3
    <3>8. f = 0
      BY <3>6, <3>7 DEF Twice
    <3> QED
      BY <3>4, <3>8
  <2>7. WayInv(q)'
    <3>1. WayInv(q)
      BY <1>2
    <3>2. Sent(q)' + Unsent(q)' <= Twice(said[q])
      BY <3>1, <2>2, <2>4, <2>5, <1>1, <1>5 DEF WayInv
    <3>3. ASSUME q \notin exited, bridge # "broken"
          PROVE  Sent(q)' + Unsent(q)' = Twice(said[q])
      <4>1. Sent(q) + Unsent(q) = Twice(said[q])
        BY <3>1, <3>3, <1>1, <1>5 DEF WayInv
      <4>2. Len(frame[p]) = 0
        BY <3>3, <2>6
      <4> QED
        BY <4>1, <4>2, <2>2, <2>4, <2>5
    <3> QED
      BY <3>2, <3>3, <2>3, <1>1, <1>3, EmptyRun DEF WayInv
  <2>8. ReceiverInv(p)'
    BY <2>1, <2>5, <1>2, <1>3, EmptyRun DEF ReceiverInv
  <2>9. TypeOK'
    <3>1. frame' \in [Side -> Seq(Unit)] /\ tasks' \in [Side -> SUBSET Half]
      BY <1>2, <1>3 DEF TypeOK
    <3>2. \A r \in Side : Len(frame'[r]) \in 0..2
      <4>1. Len(frame[q]) \in 0..2
        BY <1>1, <1>2 DEF TypeOK
      <4>2. Len(frame'[p]) \in 0..2
        BY <2>1, EmptyRun
      <4> QED
        BY <4>1, <4>2, <2>1, <1>1
    <3> QED
      BY <3>1, <3>2, <1>2, <1>3 DEF TypeOK
  <2>10. SenderInv(p)' /\ SenderInv(q)' /\ ReceiverInv(q)' /\ WayInv(p)' /\ TaskInv(q)'
    BY <2>1, <1>1, <1>2, <1>3, SenderStays, ReceiverStays, WayStays, TaskStays
  <2>11. TaskInv(p)'
    BY <2>1, <1>2, <1>3 DEF TaskInv
  <2> QED
    BY <2>7, <2>8, <2>9, <2>10, <2>11, <1>1, BothSides
<1> QED
  BY <1>4, <1>5

-----------------------------------------------------------------------------
(* Every reachable state.                                                  *)

LEMMA BridgeInit == Init => IInv
<1> SUFFICES ASSUME Init PROVE IInv
  OBVIOUS
<1>1. TypeOK
  <2>1. /\ <<>> \in Seq(1..MaxSaid) /\ <<>> \in Seq(Unit) /\ 0 \in 0..MaxSaid
        /\ Len(<<>>) \in 0..QueueCap /\ Len(<<>>) \in 0..SocketCap
        /\ Len(<<>>) \in 0..2 /\ Len(<<>>) <= CopyCap
    BY BridgeAssumption, EmptyRun
  <2>2. /\ {open, tasks} \subseteq [Side -> SUBSET Half]
        /\ said \in [Side -> 0..MaxSaid] /\ told \in [Side -> BOOLEAN]
        /\ {outQ, heard, inQ} \subseteq [Side -> Seq(1..MaxSaid)]
        /\ {writing, copy, up, down, frame} \subseteq [Side -> Seq(Unit)]
    BY <2>1 DEF Init
  <2>3. ASSUME NEW p \in Side
        PROVE  /\ {Len(outQ[p]), Len(inQ[p])} \subseteq 0..QueueCap
               /\ {Len(writing[p]), Len(frame[p])} \subseteq 0..2
               /\ {Len(up[p]), Len(down[p])} \subseteq 0..SocketCap
               /\ Len(copy[p]) <= CopyCap
    <3>1. /\ outQ[p] = <<>> /\ inQ[p] = <<>> /\ writing[p] = <<>> /\ frame[p] = <<>>
          /\ up[p] = <<>> /\ down[p] = <<>> /\ copy[p] = <<>>
      BY DEF Init
    <3> QED
      BY <3>1, <2>1
  <2>4. exited \subseteq Side /\ eof \subseteq Side /\ reliable \in BOOLEAN
        /\ bridge \in {"up", "over", "broken"}
    BY BridgeAssumption DEF Init
  <2> QED
    BY <2>2, <2>3, <2>4 DEF TypeOK
<1>2. ASSUME NEW p \in Side
      PROVE  SenderInv(p) /\ ReceiverInv(p) /\ WayInv(p) /\ TaskInv(p)
  <2> DEFINE q == Other(p)
  <2>1. q \in Side
    BY Sides
  <2>2. /\ said[p] = 0 /\ outQ[p] = <<>> /\ writing[p] = <<>> /\ copy[p] = <<>>
        /\ up[p] = <<>> /\ open[p] = Half /\ tasks[p] = Half /\ told[p] = FALSE
        /\ heard[p] = <<>> /\ inQ[p] = <<>> /\ frame[p] = <<>> /\ down[p] = <<>>
        /\ heard[q] = <<>> /\ inQ[q] = <<>> /\ frame[q] = <<>> /\ down[q] = <<>>
    BY <2>1 DEF Init
  <2>3. exited = {} /\ eof = {} /\ bridge = "up"
    BY DEF Init
  <2>4. Twice(0) = 0 /\ Len(<<>>) = 0
    BY EmptyRun DEF Twice
  <2>5. SenderInv(p) /\ ReceiverInv(p) /\ TaskInv(p)
    BY <2>2, <2>3, EmptyRun DEF SenderInv, ReceiverInv, TaskInv, Half
  <2>6. Sent(p) + Unsent(p) = Twice(said[p]) /\ Twice(said[p]) \in Nat
    <3>1. Handed(q) = 0
      BY <2>2, <2>4 DEF Handed
    <3>2. Arrived(q) = 0
      BY <3>1, <2>2, <2>4 DEF Framed, Arrived
    <3>3. Sent(p) = 0
      BY <3>2, <2>2, <2>4 DEF Copied, Sent
    <3>4. Unsent(p) = 0
      BY <2>2, <2>4 DEF Unsent
    <3> QED
      BY <3>3, <3>4, <2>2, <2>4
  <2>7. WayInv(p)
    BY <2>2, <2>6, EmptyRun DEF WayInv
  <2> QED
    BY <2>5, <2>7
<1> QED
  BY <1>1, <1>2 DEF IInv

LEMMA BridgeNext == IInv /\ [Next]_vars => IInv'
<1> SUFFICES ASSUME IInv, [Next]_vars PROVE IInv'
  OBVIOUS
<1>1. ASSUME NEW p \in Side,
             write(p) \/ read(p) \/ read_closed(p) \/ exit(p)
               \/ \E half \in Half : drop_half(p, half)
      PROVE  IInv'
  BY <1>1, WriteKeeps, ReadKeeps, ReadClosedKeeps, ExitKeeps, DropHalfKeeps
<1>2. ASSUME NEW p \in Side, WriterTask(p) PROVE IInv'
  BY <1>2, TakeMessageKeeps, WriteAllKeeps, WriteLostKeeps, WriteErrorKeeps,
     WriterEndsKeeps DEF WriterTask
<1>3. ASSUME NEW p \in Side, CopyTask(p) PROVE IInv'
  BY <1>3, AsymmetricReadKeeps, AsymmetricWriteKeeps, AsymmetricEofKeeps DEF CopyTask
<1>4. ASSUME NEW p \in Side, ReaderTask(p) PROVE IInv'
  BY <1>4, ReadExactKeeps, SendMessageKeeps, SendFailsKeeps, ReaderEndsKeeps DEF ReaderTask
<1>5. CASE BridgeTask \/ bridge_fails
  BY <1>5, BridgeEndsKeeps, BridgeErrorKeeps DEF BridgeTask, bridge_reset, bridge_fails
<1>6. CASE UNCHANGED vars
  BY <1>6 DEF vars, apps, writers, relay, readers, IInv, TypeOK, SenderInv, ReceiverInv,
     WayInv, TaskInv, Sent, Copied, Arrived, Framed, Handed, Unsent
<1> QED
  BY <1>1, <1>2, <1>3, <1>4, <1>5, <1>6 DEF Next

THEOREM BridgeInvariance == Spec => []IInv
BY BridgeInit, BridgeNext, PTL DEF Spec

\* Queues, sockets and buffers never hold more than they can, and what the reader
\* takes for a frame is one (croc_raw.rs:67-110, server.rs:198-210).
THEOREM BridgeTypeCorrect == Spec => []TypeOK
<1>1. IInv => TypeOK
  BY DEF IInv
<1> QED
  BY <1>1, BridgeInvariance, PTL

-----------------------------------------------------------------------------
(* The stream.                                                             *)

LEMMA UnitsRun ==
  ASSUME NEW m \in Seq(1..MaxSaid), NEW k \in Int, Numbered(m, k)
  PROVE  /\ Units(m) \in Seq(Unit) /\ Len(Units(m)) = Twice(Len(m))
         /\ Run(Units(m), Twice(k))
<1>1. PICK l \in Nat : l = Len(m)
  OBVIOUS
<1>2. 2 * l = Twice(l) /\ Twice(l) \in Nat
  BY DEF Twice
<1>3. Units(m) = [j \in 1..Twice(l) |->
                    Frame(m[(j + 1) \div 2])[IF j % 2 = 1 THEN 1 ELSE 2]]
  BY <1>1, <1>2 DEF Units
<1>4. ASSUME NEW j \in 1..Twice(l)
      PROVE  Units(m)[j] = UnitAt(Twice(k) + j) /\ Units(m)[j] \in Unit
  <2> DEFINE i == (j + 1) \div 2
  <2>1. /\ i \in 1..l
        /\ (Twice(k) + j + 1) \div 2 = k + i /\ (Twice(k) + j) % 2 = j % 2
        /\ j % 2 \in {0, 1}
    BY DEF Twice
  <2>2. Units(m)[j] = Frame(m[i])[IF j % 2 = 1 THEN 1 ELSE 2]
    BY <1>3
  <2> HIDE DEF i
  <2>3. m[i] = k + i /\ m[i] \in 1..MaxSaid
    <3>1. i \in 1..Len(m)
      BY <1>1, <2>1
    <3>2. m[i] = k + i
      BY <3>1 DEF Numbered
    <3>3. m[i] \in 1..MaxSaid
      BY <3>1, ElementOfSeq
    <3> QED
      BY <3>2, <3>3
  <2>4. Units(m)[j] = <<k + i, IF j % 2 = 1 THEN "header" ELSE "body">>
    BY <2>1, <2>2, <2>3 DEF Frame
  <2>5. Units(m)[j] = UnitAt(Twice(k) + j)
    BY <2>1, <2>4 DEF UnitAt
  <2>6. Units(m)[j] \in Unit
    BY <2>1, <2>3, <2>4 DEF Unit
  <2> QED
    BY <2>5, <2>6
<1>5. Units(m) \in Seq(Unit) /\ Len(Units(m)) = Twice(l)
  BY <1>2, <1>3, <1>4, SMTT(40)
<1> QED
  BY <1>1, <1>4, <1>5 DEF Run

LEMMA RunConcat ==
  ASSUME NEW s \in Seq(Unit), NEW t \in Seq(Unit), NEW k \in Int, NEW n \in Int,
         Run(s, k), Run(t, n), n = k + Len(s) \/ t = <<>>
  PROVE  /\ s \o t \in Seq(Unit) /\ Len(s \o t) = Len(s) + Len(t)
         /\ Run(s \o t, k)
<1>1. /\ Len(s) \in Nat /\ Len(t) \in Nat /\ s \o t \in Seq(Unit)
      /\ Len(s \o t) = Len(s) + Len(t)
      /\ \A i \in 1..Len(s) : (s \o t)[i] = s[i]
      /\ \A i \in 1..(Len(s) + Len(t)) : i > Len(s) => (s \o t)[i] = t[i - Len(s)]
  OBVIOUS
<1>2. ASSUME NEW i \in 1..(Len(s) + Len(t)) PROVE (s \o t)[i] = UnitAt(k + i)
  <2>1. CASE i \in 1..Len(s)
    BY <2>1, <1>1 DEF Run
  <2>2. CASE i > Len(s)
    <3>1. i - Len(s) \in 1..Len(t) /\ t # <<>>
      BY <2>2, <1>1, EmptyRun
    <3>2. n + (i - Len(s)) = k + i
      <4>1. n = k + Len(s) /\ Len(s) \in Int
        BY <3>1, <1>1
      <4>2. \A x \in Int : (k + x) + (i - x) = k + i
        OBVIOUS
      <4> QED
        BY <4>1, <4>2
    <3> QED
      BY <3>1, <3>2, <2>2, <1>1 DEF Run
  <2> QED
    BY <2>1, <2>2, <1>1
<1> QED
  BY <1>1, <1>2 DEF Run

\* Two runs from one place that are as long are the same; a shorter one is the
\* beginning of the longer.
LEMMA RunsAgree ==
  ASSUME NEW s \in Seq(Unit), NEW t \in Seq(Unit), NEW k \in Int, Run(s, k), Run(t, k)
  PROVE  /\ Len(s) = Len(t) => s = t
         /\ Len(s) <= Len(t) => IsPrefix(s, t)
<1>1. Len(s) \in Nat /\ Len(t) \in Nat
  OBVIOUS
<1>2. ASSUME Len(s) = Len(t) PROVE s = t
  <2>1. \A i \in 1..Len(s) : s[i] = t[i]
    BY <1>1, <1>2 DEF Run
  <2> QED
    BY <2>1, <1>2, SeqEqual
<1>3. ASSUME Len(s) <= Len(t) PROVE IsPrefix(s, t)
  <2> DEFINE u == SubSeq(t, 1, Len(s))
  <2>1. u \in Seq(Unit) /\ Len(u) = Len(s) /\ \A i \in 1..Len(s) : u[i] = t[i]
    BY <1>1, <1>3
  <2>2. SubSeq(s, 1, Len(s)) = s
    OBVIOUS
  <2> HIDE DEF u
  <2>3. \A i \in 1..Len(s) : s[i] = u[i]
    BY <2>1, <1>1, <1>3 DEF Run
  <2>4. s = u
    BY <2>1, <2>3, SeqEqual
  <2> QED
    BY <2>2, <2>4, <1>3 DEF IsPrefix, u
<1> QED
  BY <1>2, <1>3

\* The messages that a client says are numbered.
LEMMA FirstMessages ==
  ASSUME NEW x \in 0..MaxSaid
  PROVE  LET m == [n \in 1..x |-> n]
         IN m \in Seq(1..MaxSaid) /\ Len(m) = x /\ Numbered(m, 0)
<1> DEFINE m == [n \in 1..x |-> n]
<1>1. \A n \in 1..x : n \in 1..MaxSaid /\ m[n] = n
  BY BridgeAssumption
<1>2. x \in Nat
  BY BridgeAssumption
<1>3. m \in [1..x -> 1..MaxSaid]
  BY <1>1
<1> HIDE DEF m
<1>4. m \in Seq(1..MaxSaid) /\ Len(m) = x
  <2>1. m \in Seq(1..MaxSaid)
    BY <1>2, <1>3, SeqDef
  <2>2. Len(m) \in Nat /\ 1..Len(m) = 1..x
    BY <2>1, <1>3, LenProperties
  <2> QED
    BY <2>1, <2>2, <1>2
<1>5. Numbered(m, 0)
  BY <1>1, <1>2, <1>4 DEF Numbered
<1> QED
  BY <1>4, <1>5 DEF m

LEMMA StreamFollows == IInv => StreamIsIntact
<1> SUFFICES ASSUME IInv, NEW p \in Side, "read" \in open[Other(p)], bridge # "broken"
             PROVE  LET spoken == Units([n \in 1..said[p] |-> n])
                        found == Units(heard[Other(p)]) \o InFlight(p)
                    IN IF p \in exited THEN IsPrefix(found, spoken) ELSE found = spoken
  BY DEF StreamIsIntact
<1> DEFINE q == Other(p)
<1>1. q \in Side
  BY Sides
<1>2. /\ TypeOK /\ SenderInv(p) /\ WayInv(p) /\ TaskInv(p) /\ ReceiverInv(q)
  BY Given, <1>1
<1>3. /\ Numbered(heard[q], 0) /\ Numbered(inQ[q], Len(heard[q]))
      /\ Run(frame[q], Handed(q)) /\ Run(down[q], Framed(q))
      /\ Run(copy[p], Arrived(q)) /\ Run(up[p], Copied(p))
      /\ Run(writing[p], Twice(said[p]) - Unsent(p))
      /\ Numbered(outQ[p], said[p] - Len(outQ[p]))
      /\ Sent(p) + Unsent(p) <= Twice(said[p])
      /\ p \in exited \/ Sent(p) + Unsent(p) = Twice(said[p])
      /\ p \in exited => writing[p] = <<>> /\ outQ[p] = <<>>
  BY <1>2 DEF ReceiverInv, WayInv, SenderInv, TaskInv
<1>4. /\ heard[q] \in Seq(1..MaxSaid) /\ inQ[q] \in Seq(1..MaxSaid)
      /\ frame[q] \in Seq(Unit) /\ down[q] \in Seq(Unit) /\ copy[p] \in Seq(Unit)
      /\ up[p] \in Seq(Unit) /\ writing[p] \in Seq(Unit) /\ outQ[p] \in Seq(1..MaxSaid)
      /\ said[p] \in 0..MaxSaid
  BY <1>1, <1>2, Types
<1>5. /\ Len(heard[q]) \in Nat /\ Len(outQ[p]) \in Nat /\ said[p] \in Nat
      /\ Len(frame[q]) \in Nat /\ Len(down[q]) \in Nat /\ Len(copy[p]) \in Nat
      /\ Len(up[p]) \in Nat /\ Len(writing[p]) \in Nat
      /\ Handed(q) \in Nat /\ Framed(q) \in Nat /\ Arrived(q) \in Nat
      /\ Copied(p) \in Nat /\ Sent(p) \in Nat /\ Unsent(p) \in Nat
  BY <1>1, <1>2, Types, Counts
<1>6. /\ Twice(Len(heard[q])) \in Nat /\ Twice(Len(inQ[q])) \in Nat
      /\ Twice(Len(outQ[p])) \in Nat /\ Twice(said[p]) \in Nat
  BY <1>1, <1>2, DoubleCounts
<1>7. /\ Units(heard[q]) \in Seq(Unit) /\ Len(Units(heard[q])) = Twice(Len(heard[q]))
      /\ Run(Units(heard[q]), 0)
  <2>1. Twice(0) = 0
    BY DEF Twice
  <2> QED
    BY <2>1, <1>3, <1>4, UnitsRun
<1> DEFINE b == Twice(Len(heard[q]))
           m == Units(inQ[q])
           f == m \o frame[q]
           d == f \o down[q]
           c == d \o copy[p]
           u == c \o up[p]
           w == u \o writing[p]
           o == w \o Units(outQ[p])
<1>8. b \in Int
  BY <1>6
<1>9. m \in Seq(Unit) /\ b + Len(m) = Handed(q) /\ Run(m, b)
  <2>1. Len(heard[q]) \in Int
    BY <1>5
  <2>2. m \in Seq(Unit) /\ Len(m) = Twice(Len(inQ[q])) /\ Run(m, b)
    BY <2>1, <1>3, <1>4, UnitsRun
  <2> QED
    BY <2>2, <1>6 DEF Handed
<1> HIDE DEF b, m
<1>10. f \in Seq(Unit) /\ b + Len(f) = Framed(q) /\ Run(f, b)
  <2>1. Handed(q) \in Int /\ Len(m) \in Nat
    BY <1>5, <1>9
  <2>2. f \in Seq(Unit) /\ Len(f) = Len(m) + Len(frame[q]) /\ Run(f, b)
    BY <2>1, <1>3, <1>4, <1>8, <1>9, RunConcat
  <2> QED
    BY <2>1, <2>2, <1>5, <1>8, <1>9 DEF Framed
<1> HIDE DEF f
<1>11. d \in Seq(Unit) /\ b + Len(d) = Arrived(q) /\ Run(d, b)
  <2>1. Framed(q) \in Int /\ Len(f) \in Nat
    BY <1>5, <1>10
  <2>2. d \in Seq(Unit) /\ Len(d) = Len(f) + Len(down[q]) /\ Run(d, b)
    BY <2>1, <1>3, <1>4, <1>8, <1>10, RunConcat
  <2> QED
    BY <2>1, <2>2, <1>5, <1>8, <1>10 DEF Arrived
<1> HIDE DEF d
<1>12. c \in Seq(Unit) /\ b + Len(c) = Copied(p) /\ Run(c, b)
  <2>1. Arrived(q) \in Int /\ Len(d) \in Nat
    BY <1>5, <1>11
  <2>2. c \in Seq(Unit) /\ Len(c) = Len(d) + Len(copy[p]) /\ Run(c, b)
    BY <2>1, <1>3, <1>4, <1>8, <1>11, RunConcat
  <2> QED
    BY <2>1, <2>2, <1>5, <1>8, <1>11 DEF Copied
<1> HIDE DEF c
<1>13. u \in Seq(Unit) /\ b + Len(u) = Sent(p) /\ Run(u, b)
  <2>1. Copied(p) \in Int /\ Len(c) \in Nat
    BY <1>5, <1>12
  <2>2. u \in Seq(Unit) /\ Len(u) = Len(c) + Len(up[p]) /\ Run(u, b)
    BY <2>1, <1>3, <1>4, <1>8, <1>12, RunConcat
  <2> QED
    BY <2>1, <2>2, <1>5, <1>8, <1>12 DEF Sent
<1> HIDE DEF u
<1>14. w \in Seq(Unit) /\ b + Len(w) = Sent(p) + Len(writing[p]) /\ Run(w, b)
  <2>1. Len(u) \in Nat
    BY <1>13
  <2>4. Twice(said[p]) - Unsent(p) \in Int
    BY <1>5, <1>6
  <2>2. Twice(said[p]) - Unsent(p) = b + Len(u) \/ writing[p] = <<>>
    BY <1>3, <1>5, <1>6, <1>13
  <2>3. w \in Seq(Unit) /\ Len(w) = Len(u) + Len(writing[p]) /\ Run(w, b)
    BY <2>1, <2>2, <2>4, <1>3, <1>4, <1>8, <1>13, RunConcat
  <2> QED
    BY <2>1, <2>3, <1>5, <1>8, <1>13
<1> HIDE DEF w
<1>15. o \in Seq(Unit) /\ b + Len(o) = Sent(p) + Unsent(p) /\ Run(o, b)
  <2>1. PICK k \in Int : k = said[p] - Len(outQ[p])
    BY <1>5
  <2>2. /\ Units(outQ[p]) \in Seq(Unit) /\ Len(Units(outQ[p])) = Twice(Len(outQ[p]))
        /\ Run(Units(outQ[p]), Twice(k))
    BY <2>1, <1>3, <1>4, UnitsRun
  <2>3. Twice(k) = Twice(said[p]) - Twice(Len(outQ[p]))
    <3>1. PICK x \in Nat : x = said[p]
      BY <1>5
    <3>2. PICK y \in Nat : y = Len(outQ[p])
      BY <1>5
    <3>3. Twice(x - y) = Twice(x) - Twice(y)
      BY DEF Twice
    <3> QED
      BY <3>1, <3>2, <3>3, <2>1
  <2>4. Unsent(p) = Len(writing[p]) + Twice(Len(outQ[p]))
    BY DEF Unsent
  <2>5. Twice(k) = b + Len(w) \/ Units(outQ[p]) = <<>>
    <3>1. CASE p \in exited
      <4>1. Twice(0) = 0
        BY DEF Twice
      <4> QED
        BY <3>1, <4>1, <2>2, <1>3, EmptyRun
    <3>2. CASE Sent(p) + Unsent(p) = Twice(said[p])
      <4>1. PICK x \in Nat, y \in Nat, z \in Nat :
              x = Len(writing[p]) /\ y = Twice(Len(outQ[p])) /\ z = Sent(p)
        BY <1>5, <1>6
      <4>2. z + (x + y) - y = z + x
        OBVIOUS
      <4>3. Twice(k) = z + (x + y) - y
        BY <4>1, <3>2, <2>3, <2>4
      <4>4. b + Len(w) = z + x
        BY <4>1, <1>14
      <4> QED
        BY <4>2, <4>3, <4>4
    <3> QED
      BY <3>1, <3>2, <1>3
  <2>6. Twice(k) \in Int /\ Len(w) \in Nat
    BY <2>3, <1>6, <1>14
  <2>7. o \in Seq(Unit) /\ Len(o) = Len(w) + Len(Units(outQ[p])) /\ Run(o, b)
    BY <2>2, <2>5, <2>6, <1>8, <1>14, RunConcat
  <2> QED
    <3>1. PICK x \in Nat : x = Len(w)
      BY <2>6
    <3>2. PICK y \in Nat : y = Twice(Len(outQ[p]))
      BY <1>6
    <3>3. b + (x + y) = (b + x) + y
      BY <1>8
    <3>4. b + Len(o) = (b + x) + y
      BY <2>2, <2>7, <3>1, <3>2, <3>3
    <3>5. b + x = Sent(p) + Len(writing[p]) /\ Unsent(p) = Len(writing[p]) + y
      BY <2>4, <3>1, <3>2, <1>14
    <3> QED
      BY <2>7, <3>4, <3>5, <1>5
<1>16. o = InFlight(p)
  BY DEF InFlight, o, w, u, c, d, f, m
<1> HIDE DEF o
<1> DEFINE found == Units(heard[q]) \o o
           said1 == [n \in 1..said[p] |-> n]
           spoken == Units(said1)
<1>17. found \in Seq(Unit) /\ Len(found) = Sent(p) + Unsent(p) /\ Run(found, 0)
  <2>1. b = 0 + Len(Units(heard[q])) /\ Len(o) \in Nat
    BY <1>6, <1>7, <1>15 DEF b
  <2>2. /\ found \in Seq(Unit) /\ Len(found) = Len(Units(heard[q])) + Len(o)
        /\ Run(found, 0)
    BY <2>1, <1>7, <1>8, <1>15, RunConcat
  <2> QED
    BY <2>1, <2>2, <1>7, <1>15 DEF b
<1>18. spoken \in Seq(Unit) /\ Len(spoken) = Twice(said[p]) /\ Run(spoken, 0)
  <2>1. said1 \in Seq(1..MaxSaid) /\ Len(said1) = said[p] /\ Numbered(said1, 0)
    BY <1>4, FirstMessages
  <2>2. Twice(0) = 0
    BY DEF Twice
  <2> HIDE DEF said1
  <2> QED
    BY <2>1, <2>2, UnitsRun
<1>19. IF p \in exited THEN IsPrefix(found, spoken) ELSE found = spoken
  <2> HIDE DEF found, spoken
  <2>1. p \in exited => IsPrefix(found, spoken)
    BY <1>3, <1>17, <1>18, RunsAgree
  <2>2. p \notin exited => found = spoken
    BY <1>3, <1>17, <1>18, RunsAgree
  <2> QED
    BY <2>1, <2>2
<1> QED
  BY <1>16, <1>19

\* However the frames are cut, for queues and buffers of any size: between two
\* clients are the bytes of what was said, each once and in order
\* (croc_raw.rs:67-110, server.rs:198-210).
THEOREM StreamStaysIntact == Spec => []StreamIsIntact
BY BridgeInvariance, StreamFollows, PTL

-----------------------------------------------------------------------------
(* The line.                                                               *)

LEMMA LineOther ==
  ASSUME NEW p \in Side PROVE ImplementedLine!Other(p) = Other(p)
<1>1. \A r \in Side : r # p <=> r = Other(p)
  BY Sides
<1>2. Other(p) \in Side
  BY Sides
<1> QED
  BY <1>1, <1>2 DEF ImplementedLine!Other

LEMMA LineInit == Init => ImplementedLine!Init
<1> SUFFICES ASSUME Init PROVE ImplementedLine!Init
  OBVIOUS
<1>1. /\ {p \in Side : "write" \notin open[p]} = {}
      /\ {p \in Side : "read" \notin open[p]} = {}
      /\ {p \in Side : told[p]} = {}
  BY DEF Init, Half
<1>2. reliable \in BOOLEAN /\ (bridge = "broken") = FALSE /\ exited = {}
      /\ said = [p \in Side |-> 0] /\ heard = [p \in Side |-> <<>>]
  BY BridgeAssumption DEF Init
<1> QED
  BY <1>1, <1>2 DEF ImplementedLine!Init

\* What is left out of a line.
LEMMA LineRests ==
  ASSUME UNCHANGED <<open, said, heard, told, exited, reliable>>,
         (bridge' = "broken") <=> (bridge = "broken")
  PROVE  UNCHANGED ImplementedLine!vars
<1>1. (bridge' = "broken") = (bridge = "broken")
  OBVIOUS
<1>2. /\ {p \in Side : "write" \notin open'[p]} = {p \in Side : "write" \notin open[p]}
      /\ {p \in Side : "read" \notin open'[p]} = {p \in Side : "read" \notin open[p]}
      /\ {p \in Side : told'[p]} = {p \in Side : told[p]}
  OBVIOUS
<1> QED
  BY <1>1, <1>2 DEF ImplementedLine!vars

LEMMA LineSays ==
  ASSUME NEW p \in Side, write(p) PROVE ImplementedLine!Say(p)
<1>1. "write" \in open[p] /\ said' = [said EXCEPT ![p] = @ + 1]
      /\ UNCHANGED <<open, heard, told, exited, reliable, bridge>>
  BY DEF write, relay
<1> QED
  BY <1>1 DEF ImplementedLine!Say

LEMMA LineHears ==
  ASSUME IInv, NEW p \in Side, read(p) PROVE ImplementedLine!Hear(p)
<1> DEFINE q == Other(p)
<1>1. q \in Side /\ Other(q) = p
  BY Sides
<1>2. TypeOK /\ ReceiverInv(p) /\ TaskInv(p) /\ WayInv(q)
  BY Given, <1>1
<1>3. /\ "read" \in open[p] /\ inQ[p] # <<>>
      /\ heard' = [heard EXCEPT ![p] = Append(@, Head(inQ[p]))]
      /\ UNCHANGED <<open, said, told, exited, reliable, bridge>>
  BY DEF read, Push, Pop, relay
<1>4. /\ inQ[p] \in Seq(1..MaxSaid) /\ heard[p] \in Seq(1..MaxSaid)
      /\ Len(inQ[p]) \in Nat /\ Len(heard[p]) \in Nat
  BY <1>2, Types, Counts
<1>5. Head(inQ[p]) = Len(heard[p]) + 1 /\ Len(inQ[p]) \in Nat \ {0}
  <2>1. Numbered(inQ[p], Len(heard[p])) /\ Len(heard[p]) \in Int
    BY <1>2, <1>3, <1>4 DEF ReceiverInv
  <2> QED
    BY <2>1, <1>3, <1>4, NumberedTail
<1>6. ~told[p]
  BY <1>2, <1>3 DEF TaskInv
<1>7. Len(heard[p]) < said[q]
  <2>1. Sent(q) + Unsent(q) <= Twice(said[q])
    BY <1>1, <1>2, <1>3 DEF WayInv
  <2>2. /\ Len(frame[p]) \in Nat /\ Len(down[p]) \in Nat /\ Len(copy[q]) \in Nat
        /\ Len(up[q]) \in Nat /\ Unsent(q) \in Nat /\ said[q] \in Nat
        /\ Handed(p) \in Nat /\ Framed(p) \in Nat /\ Arrived(p) \in Nat /\ Copied(q) \in Nat
    BY <1>1, <1>2, Counts, Types
  <2>3. Framed(p) >= Handed(p)
    BY <2>2 DEF Framed
  <2>4. Arrived(p) >= Framed(p)
    BY <2>2 DEF Arrived
  <2>5. Copied(q) >= Arrived(p)
    BY <2>2, <1>1 DEF Copied
  <2>6. Sent(q) >= Copied(q) /\ Sent(q) \in Nat
    BY <2>2, SMTT(40) DEF Sent
  <2>7. PICK h \in Nat, i \in Nat \ {0}, s \in Nat :
           h = Len(heard[p]) /\ i = Len(inQ[p]) /\ s = said[q]
    BY <1>4, <1>5, <2>2
  <2>8. Handed(p) = Twice(h) + Twice(i) /\ Handed(p) <= Twice(s)
    <3>1. Handed(p) = Twice(h) + Twice(i)
      BY <2>7 DEF Handed
    <3>2. Twice(s) \in Nat
      BY DEF Twice
    <3> QED
      BY <3>1, <3>2, <2>1, <2>2, <2>3, <2>4, <2>5, <2>6, <2>7
  <2>9. h < s
    BY <2>8 DEF Twice
  <2> QED
    BY <2>7, <2>9
<1>8. heard' = [heard EXCEPT ![p] = Append(@, Len(@) + 1)]
  BY <1>3, <1>5
<1>9. p \notin {r \in Side : "read" \notin open[r]} \cup {r \in Side : told[r]}
  BY <1>3, <1>6
<1>10. Len(heard[p]) < said[ImplementedLine!Other(p)]
  BY <1>7, LineOther
<1> QED
  BY <1>3, <1>8, <1>9, <1>10 DEF ImplementedLine!Hear

\* One that is told of the end has heard everything, if that is not lost.
LEMMA LineTells ==
  ASSUME IInv, NEW p \in Side, read_closed(p) PROVE ImplementedLine!TellEnd(p)
<1> DEFINE q == Other(p)
<1>1. q \in Side /\ q # p /\ Other(q) = p /\ \A r \in Side : r = p \/ r = q
  BY Sides
<1>2. TypeOK /\ ReceiverInv(p) /\ TaskInv(p) /\ WayInv(q) /\ TaskInv(q) /\ SenderInv(q)
  BY Given, <1>1
<1>3. /\ "read" \in open[p] /\ inQ[p] = <<>> /\ "read" \notin tasks[p]
      /\ told' = [told EXCEPT ![p] = TRUE]
      /\ UNCHANGED <<open, said, heard, exited, reliable, bridge>>
  BY DEF read_closed, relay
<1>4. bridge = "over" \/ bridge = "broken"
  BY <1>2, <1>3 DEF TaskInv, TypeOK
<1>5. ASSUME bridge # "broken" PROVE {r \in Side : "write" \notin open[r]} = Side
  BY <1>1, <1>2, <1>4, <1>5 DEF TaskInv
<1>6. ASSUME bridge # "broken", q \notin exited PROVE Len(heard[p]) = said[q]
  <2>1. Sent(q) + Unsent(q) = Twice(said[q])
    BY <1>1, <1>2, <1>3, <1>6 DEF WayInv
  <2>2. /\ frame[p] = <<>> /\ down[p] = <<>> /\ copy[q] = <<>> /\ up[q] = <<>>
        /\ writing[q] = <<>> /\ outQ[q] = <<>>
    BY <1>2, <1>3, <1>4, <1>6 DEF TaskInv, SenderInv
  <2>3. Len(<<>>) = 0 /\ Twice(0) = 0
    BY EmptyRun DEF Twice
  <2>4. PICK h \in Nat, s \in Nat : h = Len(heard[p]) /\ s = said[q]
    BY <1>1, <1>2, Counts, Types
  <2>5. Handed(p) = Twice(h) + 0
    BY <2>3, <2>4, <1>3 DEF Handed
  <2>6. Framed(p) = Handed(p) + 0 /\ Arrived(p) = Framed(p) + 0
    BY <2>2, <2>3 DEF Framed, Arrived
  <2>7. Copied(q) = Arrived(p) + 0 /\ Sent(q) = Copied(q) + 0
    BY <2>2, <2>3, <1>1 DEF Copied, Sent
  <2>8. Unsent(q) = 0 + 0
    BY <2>2, <2>3 DEF Unsent
  <2>9. Twice(h) \in Nat /\ Twice(s) \in Nat
    BY DEF Twice
  <2>10. Twice(h) = Twice(s)
    BY <2>1, <2>4, <2>5, <2>6, <2>7, <2>8, <2>9
  <2>11. h = s
    BY <2>10 DEF Twice
  <2> QED
    BY <2>4, <2>11
<1>7. {r \in Side : told'[r]} = {r \in Side : told[r]} \cup {p}
  BY <1>2, <1>3 DEF TypeOK
<1>8. p \notin {r \in Side : "read" \notin open[r]}
  BY <1>3
<1>9. \/ bridge = "broken"
      \/ /\ {r \in Side : "write" \notin open[r]} = Side
         /\ \/ Len(heard[p]) = said[ImplementedLine!Other(p)]
            \/ ImplementedLine!Other(p) \in exited
  BY <1>5, <1>6, LineOther
<1>10. UNCHANGED <<open, said, heard, exited, reliable>> /\ (bridge' = "broken") = (bridge = "broken")
  BY <1>3
<1> QED
  BY <1>7, <1>8, <1>9, <1>10 DEF ImplementedLine!TellEnd

LEMMA LineDrops ==
  ASSUME IInv, NEW p \in Side, NEW half \in Half, drop_half(p, half)
  PROVE  ImplementedLine!HangUp(p) \/ ImplementedLine!Deafen(p)
<1>1. /\ open' = [open EXCEPT ![p] = @ \ {half}] /\ open \in [Side -> SUBSET Half]
      /\ UNCHANGED <<said, heard, told, exited, reliable, bridge>>
  BY Given DEF drop_half, relay, TypeOK
<1>2. \A r \in Side : open'[r] = IF r = p THEN open[r] \ {half} ELSE open[r]
  BY <1>1
<1>3. CASE half = "write"
  <2>1. /\ {r \in Side : "write" \notin open'[r]}
             = {r \in Side : "write" \notin open[r]} \cup {p}
        /\ {r \in Side : "read" \notin open'[r]} = {r \in Side : "read" \notin open[r]}
    BY <1>2, <1>3
  <2> QED
    BY <2>1, <1>1 DEF ImplementedLine!HangUp
<1>4. CASE half = "read"
  <2>1. /\ {r \in Side : "read" \notin open'[r]}
             = {r \in Side : "read" \notin open[r]} \cup {p}
        /\ {r \in Side : "write" \notin open'[r]} = {r \in Side : "write" \notin open[r]}
    BY <1>2, <1>4
  <2> QED
    BY <2>1, <1>1 DEF ImplementedLine!Deafen
<1> QED
  BY <1>3, <1>4 DEF Half

LEMMA LineLeaves ==
  ASSUME IInv, NEW p \in Side, exit(p) PROVE ImplementedLine!Leave(p)
<1>1. /\ open' = [open EXCEPT ![p] = {}] /\ exited' = exited \cup {p}
      /\ open \in [Side -> SUBSET Half]
      /\ UNCHANGED <<said, heard, told, reliable, bridge>>
  BY Given DEF exit, relay, TypeOK
<1>2. \A r \in Side : open'[r] = IF r = p THEN {} ELSE open[r]
  BY <1>1
<1>3. /\ {r \in Side : "write" \notin open'[r]}
           = {r \in Side : "write" \notin open[r]} \cup {p}
      /\ {r \in Side : "read" \notin open'[r]} = {r \in Side : "read" \notin open[r]} \cup {p}
  BY <1>2
<1> QED
  BY <1>1, <1>3 DEF ImplementedLine!Leave

\* A reset means that one of the two no longer listens.
LEMMA LineBreaks ==
  ASSUME IInv, bridge_reset \/ bridge_fails
  PROVE  ImplementedLine!Break
<1>1. /\ bridge = "up" /\ bridge' = "broken"
      /\ UNCHANGED <<open, said, heard, told, exited, reliable>>
  BY DEF bridge_reset, bridge_fails, bridge_error, apps
<1>2. {r \in Side : "read" \notin open[r]} # {} \/ ~reliable
  <2>1. CASE bridge_fails
    BY <2>1 DEF bridge_fails
  <2>2. CASE bridge_reset
    <3>1. PICK p \in Side : tasks[p] = {}
      BY <2>2 DEF bridge_reset
    <3>2. "read" \notin open[p]
      BY <3>1, <1>1, Given DEF TaskInv
    <3> QED
      BY <3>2
  <2> QED
    BY <2>1, <2>2
<1>3. (bridge' = "broken") = TRUE
  BY <1>1
<1> QED
  BY <1>1, <1>2, <1>3 DEF ImplementedLine!Break

LEMMA LineNext == IInv /\ [Next]_vars => [ImplementedLine!Next]_ImplementedLine!vars
<1> SUFFICES ASSUME IInv, [Next]_vars
             PROVE  ImplementedLine!Next \/ UNCHANGED ImplementedLine!vars
  OBVIOUS
<1>1. ASSUME NEW p \in Side,
             write(p) \/ read(p) \/ read_closed(p) \/ exit(p)
               \/ \E half \in Half : drop_half(p, half)
      PROVE  ImplementedLine!Next
  <2>1. \/ ImplementedLine!Say(p) \/ ImplementedLine!Hear(p) \/ ImplementedLine!HangUp(p)
        \/ ImplementedLine!Deafen(p) \/ ImplementedLine!Leave(p) \/ ImplementedLine!TellEnd(p)
    BY <1>1, LineSays, LineHears, LineTells, LineLeaves, LineDrops
  <2> QED
    BY <2>1 DEF ImplementedLine!Next
<1>2. ASSUME NEW p \in Side, WriterTask(p) PROVE UNCHANGED ImplementedLine!vars
  <2>1. UNCHANGED <<open, said, heard, told, exited, reliable, bridge>>
    BY <1>2 DEF WriterTask, take_message, write_all, write_lost, write_error, writer_ends,
       apps, relay
  <2> QED
    BY <2>1, LineRests
<1>3. ASSUME NEW p \in Side, CopyTask(p) PROVE UNCHANGED ImplementedLine!vars
  <2>1. UNCHANGED <<open, said, heard, told, exited, reliable, bridge>>
    BY <1>3 DEF CopyTask, asymmetric_read, asymmetric_write, asymmetric_eof, apps
  <2> QED
    BY <2>1, LineRests
<1>4. ASSUME NEW p \in Side, ReaderTask(p) PROVE UNCHANGED ImplementedLine!vars
  <2>1. UNCHANGED <<open, said, heard, told, exited, reliable, bridge>>
    BY <1>4 DEF ReaderTask, read_exact, send_message, send_fails, reader_ends, apps, relay
  <2> QED
    BY <2>1, LineRests
<1>5. CASE bridge_ends
  <2>1. /\ UNCHANGED <<open, said, heard, told, exited, reliable>>
        /\ bridge = "up" /\ bridge' = "over"
    BY <1>5 DEF bridge_ends, apps
  <2> QED
    BY <2>1, LineRests
<1>6. CASE bridge_reset \/ bridge_fails
  BY <1>6, LineBreaks DEF ImplementedLine!Next
<1>7. CASE UNCHANGED vars
  <2>1. UNCHANGED <<open, said, heard, told, exited, reliable, bridge>>
    BY <1>7 DEF vars, apps, relay
  <2> QED
    BY <2>1, LineRests
<1> QED
  BY <1>1, <1>2, <1>3, <1>4, <1>5, <1>6, <1>7 DEF Next, BridgeTask

\* The way from one MpscCrocProto to the other is a line: whole messages in the
\* order they were said, the end told after all of them and only when both have
\* hung up, no break while both listen and the network holds
\* (croc_raw.rs:63-141, server.rs:198-223).
THEOREM BridgeIsALine == Spec => ImplementsLine
<1>1. Spec => ImplementedLine!Spec
  BY BridgeInvariance, LineInit, LineNext, PTL DEF Spec, ImplementedLine!Spec
<1> QED
  BY <1>1 DEF ImplementsLine
=============================================================================
