-------------------------- MODULE TcpFramesProofs --------------------------
(***************************************************************************)
(* Proofs of the invariants of TcpFrames for every length of the prefix and *)
(* of the frames, and every limit.                                          *)
(***************************************************************************)
EXTENDS TcpFrames, TLAPS

(* Where the bytes of the first i frames end. *)
End(i) == IF i = 0 THEN 0 ELSE frames[i].at + frames[i].done

(* The frames lie end to end up to the last byte sent. *)
Layout ==
  /\ \A i \in 1 .. Len(frames) :
       /\ frames[i].at = End(i - 1)
       /\ frames[i].done <= PREFIX + frames[i].size
       /\ End(i) <= sent
  /\ \A i, j \in 1 .. Len(frames) : i < j => End(i) <= frames[j].at
  /\ End(Len(frames)) = sent

WritingLast ==
  writing => Len(frames) > 0 /\ frames[Len(frames)].done < PREFIX + frames[Len(frames)].size

(* All frames are whole, but for the one that is being written. *)
WholeFrames ==
  \A i \in 1 .. Len(frames) : Whole(frames[i]) \/ (writing /\ i = Len(frames))

(* The reader stands at the end of the last frame that it returned, or inside
   the next one, whose length it knows once it is past the prefix. *)
Aligned ==
  LET k == Len(returned) IN
  /\ k <= Len(frames)
  /\ \A i \in 1 .. k :
       Whole(frames[i]) /\ returned[i] = [at |-> frames[i].at, size |-> frames[i].size]
  /\ stage = "idle" => pos = End(k)
  /\ stage # "idle" => start = End(k)
  /\ stage = "prefix" => pos <= start + PREFIX
  /\ stage = "data" =>
       /\ k < Len(frames) /\ frames[k + 1].done >= PREFIX
       /\ length = frames[k + 1].size
       /\ start + PREFIX <= pos /\ pos <= start + PREFIX + length

Intact == ~cut => WholeFrames /\ Aligned

IInv == TypeOK /\ Layout /\ WritingLast /\ Intact

(* The fields of the frames and the ends of them are numbers. *)
LEMMA Fields ==
  ASSUME TypeOK
  PROVE  /\ Len(frames) \in Nat /\ Len(returned) \in Nat
         /\ sent \in Nat /\ pos \in Nat /\ start \in Nat /\ length \in Nat
         /\ \A i \in 1 .. Len(frames) :
              frames[i].at \in Nat /\ frames[i].size \in Nat /\ frames[i].done \in Nat
         /\ \A i \in 0 .. Len(frames) : End(i) \in Nat
<1>1. frames \in Seq(Frame) /\ sent \in Nat /\ pos \in 0 .. sent /\ start \in 0 .. pos
      /\ length \in Nat /\ returned \in Seq([at : Nat, size : Nat])
  BY DEF TypeOK
<1>2. Len(frames) \in Nat /\ Len(returned) \in Nat /\ pos \in Nat /\ start \in Nat BY <1>1
<1>3. \A i \in 1 .. Len(frames) : frames[i] \in Frame BY <1>1
<1>4. \A i \in 1 .. Len(frames) :
        frames[i].at \in Nat /\ frames[i].size \in Nat /\ frames[i].done \in Nat
  BY <1>3 DEF Frame
<1>5. \A i \in 0 .. Len(frames) : End(i) \in Nat BY <1>2, <1>4 DEF End
<1>6. QED BY <1>1, <1>2, <1>4, <1>5

(* The initial states satisfy the invariant. *)
LEMMA InitIInv == Init => IInv
<1> SUFFICES ASSUME Init PROVE IInv OBVIOUS
<1>1. writing \in BOOLEAN /\ cut \in BOOLEAN /\ ~writing
  BY Zenon DEF Init
<1>2. /\ frames = <<>> /\ sent = 0 /\ socket = "open" /\ pos = 0 /\ stage = "idle" /\ start = 0
      /\ length = 0 /\ returned = <<>>
  BY DEF Init
<1>3. TypeOK BY <1>1, <1>2 DEF TypeOK, Sockets
<1>4. Layout BY <1>2 DEF Layout, End
<1>5. WholeFrames /\ Aligned BY <1>2 DEF WholeFrames, Aligned, End
<1>6. QED BY <1>1, <1>3, <1>4, <1>5 DEF IInv, WritingLast, Intact

(* The reader is where it was when the frames that it has returned, and the
   size of the one that it reads, are what they were. *)
LEMMA AlignedKept ==
  ASSUME TypeOK, Aligned, UNCHANGED reader, Len(frames') \in Nat,
         Len(returned) <= Len(frames'),
         \A i \in 1 .. Len(returned) : frames'[i] = frames[i],
         stage = "data" =>
           /\ Len(returned) < Len(frames')
           /\ frames'[Len(returned) + 1].done \in Nat
           /\ frames'[Len(returned) + 1].done >= frames[Len(returned) + 1].done
           /\ frames'[Len(returned) + 1].size = frames[Len(returned) + 1].size
  PROVE  Aligned'
<1>1. UNCHANGED <<pos, stage, start, length, returned>> BY DEF reader
<1>2. Len(returned) \in Nat BY Fields
<1>3. End(Len(returned))' = End(Len(returned)) BY <1>1, <1>2 DEF End
<1>4. stage = "data" => frames[Len(returned) + 1].done \in Nat /\ PREFIX \in Nat
  BY <1>2, Fields, TcpAssumption DEF Aligned
<1>5. \A i \in 1 .. Len(returned) : Whole(frames[i])' = Whole(frames[i]) BY DEF Whole
<1>6. \A i \in 1 .. Len(returned) :
        Whole(frames[i])' /\ returned'[i] = [at |-> frames'[i].at, size |-> frames'[i].size]
  BY <1>1, <1>5 DEF Aligned
<1>7. stage = "data" => frames'[Len(returned) + 1].done >= PREFIX BY <1>4 DEF Aligned
<1>8. QED BY <1>1, <1>3, <1>6, <1>7 DEF Aligned

(* A new frame begins behind the last byte sent. *)
LEMMA WriteFrame == ASSUME IInv, NEW l \in Lengths, write_frame(l) PROVE IInv'
<1> PICK L \in Nat : L = Len(frames) BY Fields DEF IInv
<1> DEFINE f == [at |-> sent, size |-> l, done |-> 0]
<1>1. TypeOK /\ Layout BY DEF IInv
<1>2. ~writing /\ frames' = Append(frames, f) /\ UNCHANGED <<sent, socket, cut>>
      /\ UNCHANGED reader
  BY DEF write_frame
<1>3. writing' /\ writing' \in BOOLEAN BY Zenon DEF write_frame
<1>4. l \in Nat /\ PREFIX \in Nat \ {0} /\ sent \in Nat /\ f \in Frame
  BY <1>1, TcpAssumption, Fields DEF Frame
<1>5. frames \in Seq(Frame) BY <1>1 DEF TypeOK
<1> HIDE DEF f
<1>6. /\ frames' \in Seq(Frame) /\ Len(frames') = L + 1
      /\ \A i \in 1 .. L : frames'[i] = frames[i]
      /\ frames'[L + 1] = f
  BY <1>2, <1>4, <1>5
<1>7. f.at = sent /\ f.size = l /\ f.done = 0 BY DEF f
<1>8. \A i \in 0 .. L : End(i)' = End(i) BY <1>5, <1>6 DEF End
<1>9. End(L + 1)' = sent BY <1>4, <1>5, <1>6, <1>7 DEF End
<1>10. \A i \in 1 .. (L + 1) : frames'[i].at = End(i - 1)'
  <2>1. \A i \in 1 .. L : frames'[i].at = End(i - 1)'
    BY <1>1, <1>5, <1>6, <1>8 DEF Layout
  <2>2. frames'[L + 1].at = End(L)' BY <1>1, <1>5, <1>6, <1>7, <1>8 DEF Layout
  <2>3. QED BY <1>5, <2>1, <2>2
<1>11. \A i \in 1 .. (L + 1) : frames'[i].done <= PREFIX + frames'[i].size
  BY <1>1, <1>4, <1>5, <1>6, <1>7 DEF Layout
<1>12. \A i \in 1 .. (L + 1) : End(i)' <= sent
  BY <1>1, <1>4, <1>5, <1>8, <1>9 DEF Layout
<1>13. \A i, j \in 1 .. (L + 1) : i < j => End(i)' <= frames'[j].at
  <2> SUFFICES ASSUME NEW i \in 1 .. (L + 1), NEW j \in 1 .. (L + 1), i < j
               PROVE  End(i)' <= frames'[j].at
    OBVIOUS
  <2>1. i \in 1 .. L /\ End(i)' = End(i) /\ End(i) \in Nat BY <1>1, <1>8, Fields
  <2>2. CASE j \in 1 .. L BY <1>1, <1>6, <2>1, <2>2 DEF Layout
  <2>3. CASE j = L + 1 BY <1>1, <1>6, <1>7, <2>1, <2>3 DEF Layout
  <2>4. QED BY <2>2, <2>3
<1>14. Layout' BY <1>2, <1>6, <1>9, <1>10, <1>11, <1>12, <1>13 DEF Layout
<1>15. WritingLast' BY <1>4, <1>5, <1>6, <1>7 DEF WritingLast
<1>16. reader' = reader /\ TypeOK' 
  <2>1. UNCHANGED <<pos, stage, start, length, returned>> BY <1>2 DEF reader
  <2>2. socket' \in Sockets /\ cut' \in BOOLEAN BY <1>1, <1>2 DEF TypeOK
  <2>3. QED BY <1>1, <1>2, <1>3, <1>6, <2>1, <2>2 DEF TypeOK
<1>17. ASSUME ~cut PROVE WholeFrames' /\ Aligned'
  <2>1. WholeFrames /\ Aligned BY <1>17 DEF IInv, Intact
  <2>2. \A i \in 1 .. L : Whole(frames'[i]) BY <1>2, <1>6, <2>1 DEF WholeFrames
  <2>3. WholeFrames' BY <1>3, <1>5, <1>6, <2>2 DEF WholeFrames, Whole
  <2>4. Len(returned) \in Nat /\ Len(returned) <= L BY <1>1, <2>1, Fields DEF Aligned
  <2>5. stage = "data" => Len(returned) + 1 \in 1 .. L BY <2>1, <2>4, <1>5 DEF Aligned
  <2>6. stage = "data" => frames[Len(returned) + 1].done \in Nat BY <1>1, <2>5, Fields
  <2>7. Aligned' BY <1>1, <1>2, <1>5, <1>6, <2>1, <2>4, <2>5, <2>6, AlignedKept
  <2>8. QED BY <2>3, <2>7
<1>18. Intact' BY <1>2, <1>17 DEF Intact
<1>19. QED BY <1>14, <1>15, <1>16, <1>18 DEF IInv

(* poll_write: only the end of the last frame moves. *)
LEMMA PollWrite == ASSUME IInv, NEW n \in Nat, n > 0, poll_write(n) PROVE IInv'
<1> PICK L \in Nat : L = Len(frames) BY Fields DEF IInv
<1>1. TypeOK /\ Layout /\ WritingLast BY DEF IInv
<1>2. writing /\ frames' = [frames EXCEPT ![Len(frames)].done = @ + n]
      /\ frames[Len(frames)].done + n <= PREFIX + frames[Len(frames)].size
      /\ sent' = sent + n /\ UNCHANGED <<socket, cut>> /\ UNCHANGED reader
  BY DEF poll_write, Last
<1>3. writing' \in BOOLEAN
      /\ (writing' <=> frames[Len(frames)].done + n # PREFIX + frames[Len(frames)].size)
  BY Zenon DEF poll_write, Last
<1>4. L \in 1 .. Len(frames) /\ PREFIX \in Nat \ {0} /\ frames \in Seq(Frame)
  BY <1>1, <1>2, TcpAssumption DEF WritingLast, TypeOK
<1>5. frames[L].at \in Nat /\ frames[L].size \in Nat /\ frames[L].done \in Nat /\ sent \in Nat
  BY <1>1, <1>4, Fields
<1>6. frames[L] \in Frame BY <1>4
<1> DEFINE g == [frames[L] EXCEPT !.done = @ + n]
<1>7. g \in Frame /\ g.at = frames[L].at /\ g.size = frames[L].size /\ g.done = frames[L].done + n
  BY <1>5, <1>6 DEF Frame
<1>8. frames' = [frames EXCEPT ![Len(frames)] = g] BY <1>2, <1>4
<1> HIDE DEF g
<1>9. /\ frames' \in Seq(Frame) /\ Len(frames') = L
      /\ frames'[L] = g /\ \A i \in 1 .. L : i # L => frames'[i] = frames[i]
  BY <1>4, <1>7, <1>8
<1>10. \A i \in 0 .. L : i # L => End(i)' = End(i) BY <1>9 DEF End
<1>11. End(L)' = sent + n /\ End(L) = sent
  <2>1. End(L) = sent /\ L # 0 BY <1>1, <1>4 DEF Layout
  <2>2. frames[L].at + frames[L].done = sent BY <2>1 DEF End
  <2>3. End(L)' = frames'[L].at + frames'[L].done BY <2>1 DEF End
  <2>4. frames'[L].at = frames[L].at /\ frames'[L].done = frames[L].done + n BY <1>7, <1>9
  <2>5. QED BY <1>5, <2>1, <2>2, <2>3, <2>4
<1>12. \A i \in 1 .. L : frames'[i].at = frames[i].at /\ frames'[i].size = frames[i].size
  BY <1>7, <1>9
<1>13. \A i \in 1 .. L : frames'[i].at = End(i - 1)'
  BY <1>1, <1>10, <1>12 DEF Layout
<1>14. \A i \in 1 .. L : frames'[i].done <= PREFIX + frames'[i].size
  BY <1>1, <1>2, <1>7, <1>9 DEF Layout
<1>15. \A i \in 1 .. L : End(i)' <= sent + n
  <2> SUFFICES ASSUME NEW i \in 1 .. L PROVE End(i)' <= sent + n OBVIOUS
  <2>1. End(i) \in Nat /\ End(i) <= sent BY <1>1, Fields DEF Layout
  <2>2. QED BY <1>5, <1>10, <1>11, <2>1
<1>16. \A i, j \in 1 .. L : i < j => End(i)' <= frames'[j].at
  BY <1>1, <1>10, <1>12 DEF Layout
<1>17. Layout' BY <1>2, <1>9, <1>11, <1>13, <1>14, <1>15, <1>16 DEF Layout
<1>18. WritingLast'
  <2>1. frames[L].done + n <= PREFIX + frames[L].size BY <1>2
  <2>2. writing' => frames[L].done + n # PREFIX + frames[L].size BY <1>3
  <2>3. frames'[L].done = frames[L].done + n /\ frames'[L].size = frames[L].size BY <1>7, <1>9
  <2>4. writing' => frames'[L].done < PREFIX + frames'[L].size
    BY <1>4, <1>5, <2>1, <2>2, <2>3
  <2>5. QED BY <1>4, <1>9, <2>4 DEF WritingLast
<1>19. TypeOK'
  <2>1. UNCHANGED <<pos, stage, start, length, returned>> BY <1>2 DEF reader
  <2>2. socket' \in Sockets /\ cut' \in BOOLEAN BY <1>1, <1>2 DEF TypeOK
  <2>3. sent' \in Nat /\ pos' \in 0 .. sent' BY <1>1, <1>2, <1>5, <2>1 DEF TypeOK
  <2>4. QED BY <1>1, <1>3, <1>9, <2>1, <2>2, <2>3 DEF TypeOK
<1>20. ASSUME ~cut PROVE WholeFrames' /\ Aligned'
  <2>1. WholeFrames /\ Aligned BY <1>20 DEF IInv, Intact
  <2>2. \A i \in 1 .. L : i # L => Whole(frames'[i]) BY <1>9, <2>1 DEF WholeFrames
  <2>3. Whole(frames'[L]) \/ writing'
    <3>1. CASE frames[L].done + n # PREFIX + frames[L].size BY <1>3, <3>1
    <3>2. CASE frames[L].done + n = PREFIX + frames[L].size BY <1>7, <1>9, <3>2 DEF Whole
    <3>3. QED BY <3>1, <3>2
  <2>4. WholeFrames' BY <1>9, <2>2, <2>3 DEF WholeFrames, Whole
  <2>5. ~Whole(frames[L]) BY <1>1, <1>2, <1>4, <1>5 DEF WritingLast, Whole
  <2>6. Len(returned) \in Nat /\ Len(returned) < L
    <3>1. Len(returned) \in Nat BY <1>1, Fields
    <3>2. Len(returned) <= L /\ \A i \in 1 .. Len(returned) : Whole(frames[i])
      BY <2>1 DEF Aligned
    <3>3. QED BY <1>4, <2>5, <3>1, <3>2
  <2>7. Len(returned) + 1 \in 1 .. L BY <2>6
  <2>8. /\ frames'[Len(returned) + 1].done \in Nat
        /\ frames'[Len(returned) + 1].done >= frames[Len(returned) + 1].done
        /\ frames'[Len(returned) + 1].size = frames[Len(returned) + 1].size
    <3>1. CASE Len(returned) + 1 = L BY <1>5, <1>7, <1>9, <3>1
    <3>2. CASE Len(returned) + 1 # L
      <4>1. frames'[Len(returned) + 1] = frames[Len(returned) + 1] BY <1>9, <2>7, <3>2
      <4>2. frames[Len(returned) + 1].done \in Nat BY <1>1, <2>7, Fields
      <4>3. QED BY <4>1, <4>2
    <3>3. QED BY <3>1, <3>2
  <2>9. Aligned' BY <1>1, <1>2, <1>9, <2>1, <2>6, <2>8, AlignedKept
  <2>10. QED BY <2>4, <2>9
<1>21. Intact' BY <1>2, <1>20 DEF Intact
<1>22. QED BY <1>17, <1>18, <1>19, <1>21 DEF IInv

(* A write that is given up: a frame of which nothing was written has never been. *)
LEMMA WriteGivenUp == ASSUME IInv, GiveUpWrite PROVE IInv'
<1> PICK L \in Nat : L = Len(frames) BY Fields DEF IInv
<1>1. TypeOK /\ Layout /\ WritingLast BY DEF IInv
<1>2. writing /\ UNCHANGED <<sent, socket>> /\ UNCHANGED reader
  BY DEF GiveUpWrite
<1>3. ~writing' /\ writing' \in BOOLEAN BY Zenon DEF GiveUpWrite
<1>4. L \in 1 .. Len(frames) /\ PREFIX \in Nat \ {0} /\ frames \in Seq(Frame)
  BY <1>1, <1>2, TcpAssumption DEF WritingLast, TypeOK
<1>5. UNCHANGED <<pos, stage, start, length, returned>> BY <1>2 DEF reader
<1>6. socket' \in Sockets BY <1>1, <1>2 DEF TypeOK
<1>7. WritingLast' BY <1>3 DEF WritingLast
<1>8. CASE frames[L].done # 0
  <2>1. UNCHANGED frames BY <1>8 DEF GiveUpWrite, Last
  <2>2. cut' /\ cut' \in BOOLEAN BY <1>8, Zenon DEF GiveUpWrite, Last
  <2>3. TypeOK' BY <1>1, <1>2, <1>3, <1>5, <1>6, <2>1, <2>2 DEF TypeOK
  <2>4. Layout' BY <1>1, <1>2, <2>1 DEF Layout, End
  <2>5. QED BY <1>7, <2>2, <2>3, <2>4 DEF IInv, Intact
<1>9. CASE frames[L].done = 0
  <2>1. frames' = SubSeq(frames, 1, L - 1) /\ UNCHANGED cut
    BY <1>9 DEF GiveUpWrite, Last, Front
  <2>2. /\ frames' \in Seq(Frame) /\ Len(frames') = L - 1 /\ L - 1 \in Nat
        /\ \A i \in 1 .. (L - 1) : frames'[i] = frames[i]
    BY <1>4, <2>1
  <2>3. \A i \in 0 .. (L - 1) : End(i)' = End(i) BY <2>2 DEF End
  <2>4. End(L - 1) = sent
    <3>1. End(L) = sent /\ frames[L].at = End(L - 1) BY <1>1, <1>4 DEF Layout
    <3>2. frames[L].at \in Nat BY <1>1, <1>4, Fields
    <3>3. QED BY <1>4, <1>9, <3>1, <3>2 DEF End
  <2>5. \A i \in 1 .. (L - 1) :
          /\ frames'[i].at = End(i - 1)'
          /\ frames'[i].done <= PREFIX + frames'[i].size
          /\ End(i)' <= sent
    <3> SUFFICES ASSUME NEW i \in 1 .. (L - 1)
                 PROVE  /\ frames'[i].at = End(i - 1)'
                        /\ frames'[i].done <= PREFIX + frames'[i].size
                        /\ End(i)' <= sent
      OBVIOUS
    <3>1. i \in 1 .. L /\ i - 1 \in 0 .. (L - 1) /\ i \in 0 .. (L - 1) BY <2>2
    <3>2. End(i - 1)' = End(i - 1) /\ End(i)' = End(i) /\ frames'[i] = frames[i]
      BY <2>2, <2>3, <3>1
    <3>3. QED BY <1>1, <3>1, <3>2 DEF Layout
  <2>6. \A i, j \in 1 .. (L - 1) : i < j => End(i)' <= frames'[j].at
    BY <1>1, <2>2, <2>3 DEF Layout
  <2>7. End(L - 1)' = sent BY <2>2, <2>3, <2>4
  <2>8. Layout' BY <1>2, <2>2, <2>5, <2>6, <2>7 DEF Layout
  <2>9. cut' \in BOOLEAN BY <1>1, <2>1 DEF TypeOK
  <2>10. TypeOK' BY <1>1, <1>2, <1>3, <1>5, <1>6, <2>2, <2>9 DEF TypeOK
  <2>11. ASSUME ~cut PROVE WholeFrames' /\ Aligned'
    <3>1. WholeFrames /\ Aligned BY <2>11 DEF IInv, Intact
    <3>2. WholeFrames' BY <2>2, <3>1 DEF WholeFrames, Whole
    <3>3. ~Whole(frames[L]) BY <1>1, <1>4, <1>9, Fields DEF Whole
    <3>4. Len(returned) \in Nat /\ Len(returned) < L
      <4>1. Len(returned) \in Nat BY <1>1, Fields
      <4>2. Len(returned) <= L /\ \A i \in 1 .. Len(returned) : Whole(frames[i])
        BY <3>1 DEF Aligned
      <4>3. QED BY <1>4, <3>3, <4>1, <4>2
    <3>5. stage = "data" => Len(returned) + 1 # L
      BY <1>4, <1>9, <3>1 DEF Aligned
    <3>6. stage = "data" => Len(returned) + 1 \in 1 .. (L - 1) BY <3>4, <3>5
    <3>7. stage = "data" => frames[Len(returned) + 1].done \in Nat BY <1>1, <3>6, Fields
    <3>8. Aligned' BY <1>1, <1>2, <2>2, <3>1, <3>4, <3>6, <3>7, AlignedKept
    <3>9. QED BY <3>2, <3>8
  <2>12. Intact' BY <2>1, <2>11 DEF Intact
  <2>13. QED BY <1>7, <2>8, <2>10, <2>12 DEF IInv
<1>10. QED BY <1>8, <1>9

----------------------------------------------------------------------------
(* The reader does not touch what the writer has done. *)
LEMMA WriterKept ==
  ASSUME IInv, UNCHANGED writer
  PROVE  /\ Layout' /\ WritingLast' /\ (WholeFrames => WholeFrames')
         /\ frames' \in Seq(Frame) /\ sent' \in Nat
         /\ writing' \in BOOLEAN /\ socket' \in Sockets
         /\ UNCHANGED <<frames, sent>> /\ \A i \in 0 .. Len(frames) : End(i)' = End(i)
<1>1. UNCHANGED <<frames, sent, writing, socket>> BY DEF writer
<1>2. writing' \in BOOLEAN /\ socket' \in Sockets BY <1>1 DEF IInv, TypeOK
<1>3. Layout' /\ WritingLast' BY <1>1 DEF IInv, Layout, WritingLast, End
<1>4. WholeFrames => WholeFrames' BY <1>1 DEF WholeFrames, Whole
<1>5. frames' \in Seq(Frame) /\ sent' \in Nat BY <1>1 DEF IInv, TypeOK
<1>6. \A i \in 0 .. Len(frames) : End(i)' = End(i) BY <1>1 DEF End
<1>7. QED BY <1>1, <1>2, <1>3, <1>4, <1>5, <1>6

(* When bytes follow the frames that were returned, there is a next frame, it
   begins there, and it is whole unless it ends with the last byte sent. *)
LEMMA NextFrame ==
  ASSUME IInv, ~cut, End(Len(returned)) < sent
  PROVE  LET k == Len(returned) IN
         /\ k + 1 \in 1 .. Len(frames)
         /\ frames[k + 1].at = End(k)
         /\ Whole(frames[k + 1]) \/ End(k) + frames[k + 1].done = sent
<1>1. TypeOK /\ Layout /\ WholeFrames /\ Aligned BY DEF IInv, Intact
<1>2. Len(returned) \in Nat /\ Len(frames) \in Nat /\ sent \in Nat BY <1>1, Fields
<1>3. Len(returned) <= Len(frames) BY <1>1 DEF Aligned
<1>4. Len(returned) # Len(frames) BY <1>1, <1>2 DEF Layout
<1>5. Len(returned) + 1 \in 1 .. Len(frames) BY <1>2, <1>3, <1>4
<1>6. frames[Len(returned) + 1].at = End(Len(returned))
  BY <1>1, <1>2, <1>5 DEF Layout
<1>7. Whole(frames[Len(returned) + 1]) \/ Len(returned) + 1 = Len(frames)
  BY <1>1, <1>5 DEF WholeFrames
<1>8. Len(returned) + 1 = Len(frames) => End(Len(returned)) + frames[Len(returned) + 1].done = sent
  BY <1>1, <1>2, <1>5, <1>6 DEF Layout, End
<1>9. QED BY <1>5, <1>6, <1>7, <1>8

(* The bytes at the start of the next frame say its size, and nothing else. *)
LEMMA PrefixIsSize ==
  ASSUME IInv, ~cut, End(Len(returned)) + PREFIX <= sent, NEW l \in LengthsAt(End(Len(returned)))
  PROVE  LET k == Len(returned) IN
         k + 1 \in 1 .. Len(frames) /\ frames[k + 1].done >= PREFIX /\ l = frames[k + 1].size
<1>1. TypeOK /\ Layout /\ WholeFrames BY DEF IInv, Intact
<1> PICK k \in Nat : k = Len(returned) BY <1>1, Fields
<1>2. k <= Len(frames) /\ Len(frames) \in Nat /\ PREFIX \in Nat \ {0} /\ sent \in Nat
  BY <1>1, Fields, TcpAssumption DEF IInv, Intact, Aligned
<1>3. End(k) \in Nat BY <1>1, <1>2, Fields
<1>4. End(k) < sent BY <1>2, <1>3
<1>5. /\ k + 1 \in 1 .. Len(frames) /\ frames[k + 1].at = End(k)
      /\ Whole(frames[k + 1]) \/ End(k) + frames[k + 1].done = sent
  BY <1>4, NextFrame
<1>6. frames[k + 1].done \in Nat /\ frames[k + 1].size \in Nat BY <1>1, <1>5, Fields
<1>7. frames[k + 1].done >= PREFIX BY <1>2, <1>3, <1>5, <1>6 DEF Whole
<1>8. l \in {frames[j].size : j \in {m \in DOMAIN frames : frames[m].at = End(k)}}
  <2>1. DOMAIN frames = 1 .. Len(frames) BY <1>1 DEF TypeOK
  <2>2. QED BY <1>5, <1>7, <2>1 DEF LengthsAt
<1>9. PICK j \in DOMAIN frames : frames[j].at = End(k) /\ l = frames[j].size BY <1>8
<1>10. j \in 1 .. Len(frames) BY <1>1, <1>9 DEF TypeOK
<1>11. ASSUME NEW i \in 1 .. Len(frames), NEW h \in 1 .. Len(frames), i < h,
              frames[i].at = frames[h].at
       PROVE  FALSE
  <2>1. End(i) = frames[i].at + frames[i].done BY <1>2 DEF End
  <2>2. frames[i].at + frames[i].done <= frames[h].at BY <1>1, <1>11, <2>1 DEF Layout
  <2>3. frames[i].done \in Nat /\ frames[i].at \in Nat /\ frames[i].size \in Nat
    BY <1>1, Fields
  <2>4. i # Len(frames) BY <1>2, <1>11
  <2>5. Whole(frames[i]) BY <1>1, <2>4 DEF WholeFrames
  <2>6. QED BY <1>2, <1>11, <2>2, <2>3, <2>5 DEF Whole
<1>12. j = k + 1 BY <1>5, <1>9, <1>10, <1>11
<1>13. QED BY <1>5, <1>7, <1>9, <1>12

(* The reader's part of the types. *)
ReaderTypes ==
  /\ pos \in 0 .. sent /\ start \in 0 .. pos /\ length \in Nat
  /\ stage \in {"idle", "prefix", "data"} /\ cut \in BOOLEAN
  /\ returned \in Seq([at : Nat, size : Nat])

(* What is left to show of a step of the reader. *)
LEMMA ReaderStep ==
  ASSUME IInv, UNCHANGED writer, ReaderTypes', ~cut' => ~cut,
         ASSUME ~cut, ~cut' PROVE Aligned'
  PROVE  IInv'
<1>1. TypeOK' BY WriterKept DEF TypeOK, ReaderTypes
<1>2. Intact' BY WriterKept DEF IInv, Intact
<1>3. QED BY <1>1, <1>2, WriterKept DEF IInv

(* What a step of the reader may rely on as long as no call was cut short. *)
LEMMA ReaderFacts ==
  ASSUME IInv
  PROVE  /\ ReaderTypes /\ PREFIX \in Nat \ {0}
         /\ sent \in Nat /\ pos \in Nat /\ start \in Nat /\ Len(returned) \in Nat
         /\ ~cut => Aligned /\ Len(returned) <= Len(frames) /\ End(Len(returned)) \in Nat
<1>1. TypeOK /\ Intact BY DEF IInv
<1>2. cut \in BOOLEAN BY <1>1 DEF TypeOK
<1>3. ReaderTypes BY <1>1, <1>2 DEF TypeOK, ReaderTypes
<1>4. /\ sent \in Nat /\ pos \in Nat /\ start \in Nat
      /\ Len(returned) \in Nat /\ Len(frames) \in Nat
  BY <1>1, Fields
<1>5. ASSUME ~cut PROVE Aligned /\ Len(returned) <= Len(frames) /\ End(Len(returned)) \in Nat
  <2>1. Aligned BY <1>1, <1>5 DEF Intact
  <2>2. Len(returned) <= Len(frames) BY <2>1 DEF Aligned
  <2>3. QED BY <1>1, <1>4, <2>1, <2>2, Fields
<1>6. QED BY <1>3, <1>4, <1>5, TcpAssumption

(* The steps of read_frame. *)
LEMMA ReadStep == ASSUME IInv, Read PROVE IInv'
<1>1. /\ ReaderTypes /\ PREFIX \in Nat \ {0}
      /\ sent \in Nat /\ pos \in Nat /\ start \in Nat /\ Len(returned) \in Nat
  BY ReaderFacts
<1>2. ASSUME read_frame PROVE IInv'
  <2>1. /\ UNCHANGED writer /\ UNCHANGED <<pos, length, returned, cut>>
        /\ stage = "idle" /\ stage' = "prefix" /\ start' = pos
    BY <1>2 DEF read_frame
  <2>2. UNCHANGED <<frames, sent>> BY <2>1, WriterKept
  <2>3. cut' \in BOOLEAN BY <1>1, <2>1 DEF ReaderTypes
  <2>4. ReaderTypes' BY <1>1, <2>1, <2>2, <2>3 DEF ReaderTypes
  <2>5. ASSUME ~cut PROVE Aligned'
    <3>1. Aligned /\ Len(returned) <= Len(frames) BY <2>5, ReaderFacts
    <3>2. End(Len(returned))' = End(Len(returned)) BY <2>1, <2>2 DEF End
    <3>3. QED BY <1>1, <2>1, <2>2, <3>1, <3>2 DEF Aligned, Whole
  <2>6. QED BY <2>1, <2>4, <2>5, ReaderStep
<1>3. ASSUME NEW n \in 1 .. Wanted, poll_read(n) PROVE IInv'
  <2>1. /\ UNCHANGED writer /\ UNCHANGED <<stage, start, length, returned, cut>>
        /\ pos' = pos + n /\ pos + n <= sent
    BY <1>3 DEF poll_read
  <2>2. UNCHANGED <<frames, sent>> BY <2>1, WriterKept
  <2>3. cut' \in BOOLEAN BY <1>1, <2>1 DEF ReaderTypes
  <2>4. stage \in {"idle", "prefix", "data"} /\ length \in Nat BY <1>1 DEF ReaderTypes
  <2>5. n \in Nat /\ n > 0 /\ n <= Wanted /\ Wanted \in Int
    BY <1>1, <2>4 DEF Wanted
  <2>6. ReaderTypes' BY <1>1, <2>1, <2>2, <2>3, <2>5 DEF ReaderTypes
  <2>7. ASSUME ~cut PROVE Aligned'
    <3>1. Aligned /\ Len(returned) <= Len(frames) BY <2>7, ReaderFacts
    <3>2. End(Len(returned))' = End(Len(returned)) BY <2>1, <2>2 DEF End
    <3>3. stage # "idle" BY <2>5 DEF Wanted
    <3>4. stage = "prefix" => pos' <= start + PREFIX
      BY <1>1, <2>1, <2>5 DEF Wanted
    <3>5. stage = "data" => start + PREFIX <= pos' /\ pos' <= start + PREFIX + length
      BY <1>1, <2>1, <2>4, <2>5, <3>1 DEF Wanted, Aligned
    <3>6. QED BY <2>1, <2>2, <3>1, <3>2, <3>3, <3>4, <3>5 DEF Aligned, Whole
  <2>8. QED BY <2>1, <2>6, <2>7, ReaderStep
<1>4. ASSUME NEW l \in Lengths, length_refused(l) PROVE IInv'
  <2>1. /\ UNCHANGED writer /\ UNCHANGED <<pos, start, returned>>
        /\ stage' = "idle" /\ length' = 0
    BY <1>4 DEF length_refused
  <2>2. cut' /\ cut' \in BOOLEAN BY <1>4, Zenon DEF length_refused
  <2>3. ReaderTypes' BY <1>1, <2>1, <2>2, WriterKept DEF ReaderTypes
  <2>4. QED BY <2>1, <2>2, <2>3, ReaderStep
<1>5. ASSUME NEW l \in Lengths, length_read(l) PROVE IInv'
  <2>1. /\ UNCHANGED writer /\ UNCHANGED <<pos, start, returned, cut>>
        /\ stage = "prefix" /\ stage' = "data" /\ length' = l /\ Wanted = 0
        /\ l \in LengthsAt(start)
    BY <1>5 DEF length_read
  <2>2. UNCHANGED <<frames, sent>> BY <2>1, WriterKept
  <2>3. cut' \in BOOLEAN BY <1>1, <2>1 DEF ReaderTypes
  <2>4. l \in Nat BY TcpAssumption
  <2>5. ReaderTypes' BY <1>1, <2>1, <2>2, <2>3, <2>4 DEF ReaderTypes
  <2>6. pos = start + PREFIX /\ pos <= sent
    <3>1. pos <= sent BY <1>1 DEF ReaderTypes
    <3>2. start + PREFIX - pos = 0 BY <2>1 DEF Wanted
    <3>3. QED BY <1>1, <3>1, <3>2
  <2>7. ASSUME ~cut PROVE Aligned'
    <3>1. Aligned /\ Len(returned) <= Len(frames) BY <2>7, ReaderFacts
    <3>2. start = End(Len(returned)) BY <2>1, <3>1 DEF Aligned
    <3>3. /\ Len(returned) + 1 \in 1 .. Len(frames)
          /\ frames[Len(returned) + 1].done >= PREFIX
          /\ l = frames[Len(returned) + 1].size
      BY <2>1, <2>6, <2>7, <3>2, PrefixIsSize
    <3>4. End(Len(returned))' = End(Len(returned)) BY <2>1, <2>2 DEF End
    <3>5. Len(returned) < Len(frames) BY <1>1, <3>3
    <3>6. \A i \in 1 .. Len(returned) :
            /\ Whole(frames'[i])
            /\ returned[i] = [at |-> frames'[i].at, size |-> frames'[i].size]
      BY <2>2, <3>1 DEF Aligned
    <3>7. start + PREFIX <= pos /\ pos <= start + PREFIX + l BY <1>1, <2>4, <2>6
    <3>8. QED BY <2>1, <2>2, <3>2, <3>3, <3>4, <3>5, <3>6, <3>7 DEF Aligned, Whole
  <2>8. QED BY <2>1, <2>5, <2>7, ReaderStep
<1>6. ASSUME data_read PROVE IInv'
  <2>1. /\ UNCHANGED writer /\ UNCHANGED <<pos, start, cut>>
        /\ stage = "data" /\ stage' = "idle" /\ length' = 0 /\ Wanted = 0
        /\ returned' = Append(returned, [at |-> start, size |-> length])
    BY <1>6 DEF data_read
  <2>2. UNCHANGED <<frames, sent>> BY <2>1, WriterKept
  <2>3. cut' \in BOOLEAN BY <1>1, <2>1 DEF ReaderTypes
  <2>4. length \in Nat /\ [at |-> start, size |-> length] \in [at : Nat, size : Nat]
        /\ returned \in Seq([at : Nat, size : Nat])
    BY <1>1 DEF ReaderTypes
  <2>5. /\ returned' \in Seq([at : Nat, size : Nat]) /\ Len(returned') = Len(returned) + 1
        /\ \A i \in 1 .. Len(returned) : returned'[i] = returned[i]
        /\ returned'[Len(returned) + 1] = [at |-> start, size |-> length]
    BY <2>1, <2>4
  <2>6. ReaderTypes' BY <1>1, <2>1, <2>2, <2>3, <2>5 DEF ReaderTypes
  <2>7. pos = start + PREFIX + length /\ pos <= sent
    <3>1. pos <= sent BY <1>1 DEF ReaderTypes
    <3>2. start + PREFIX + length - pos = 0 BY <2>1 DEF Wanted
    <3>3. QED BY <1>1, <2>4, <3>1, <3>2
  <2>8. ASSUME ~cut PROVE Aligned'
    <3> PICK k \in Nat : k = Len(returned) BY <1>1
    <3>1. Aligned BY <2>8, ReaderFacts
    <3>2. start = End(k) /\ length = frames[k + 1].size /\ k < Len(frames)
      BY <2>1, <3>1 DEF Aligned
    <3>3. End(k) < sent BY <1>1, <2>4, <2>7, <3>2
    <3>4. /\ k + 1 \in 1 .. Len(frames) /\ frames[k + 1].at = End(k)
          /\ Whole(frames[k + 1]) \/ End(k) + frames[k + 1].done = sent
      BY <2>8, <3>3, NextFrame
    <3>5. frames[k + 1].done \in Nat /\ frames[k + 1].done <= PREFIX + frames[k + 1].size
      BY <3>4, Fields DEF IInv, Layout
    <3>6. Whole(frames[k + 1])
      <4> DEFINE d == frames[k + 1].done
      <4>1. d \in Nat /\ d <= PREFIX + length BY <3>2, <3>5
      <4> HIDE DEF d
      <4>2. start + d = sent => d = PREFIX + length BY <1>1, <2>4, <2>7, <4>1
      <4>3. start + frames[k + 1].done = sent => frames[k + 1].done = PREFIX + length
        BY <4>2 DEF d
      <4>4. QED BY <3>2, <3>4, <4>3 DEF Whole
    <3>7. End(k + 1) = pos
      <4>1. frames[k + 1].at + frames[k + 1].done = start + (PREFIX + length)
        BY <3>2, <3>4, <3>6 DEF Whole
      <4>2. End(k + 1) = frames[k + 1].at + frames[k + 1].done BY DEF End
      <4>3. QED BY <1>1, <2>4, <2>7, <4>1, <4>2
    <3>8. End(k + 1)' = End(k + 1) BY <2>2 DEF End
    <3>9. \A i \in 1 .. (k + 1) :
            /\ Whole(frames'[i])
            /\ returned'[i] = [at |-> frames'[i].at, size |-> frames'[i].size]
      <4>1. \A i \in 1 .. k :
              Whole(frames[i]) /\ returned[i] = [at |-> frames[i].at, size |-> frames[i].size]
        BY <3>1 DEF Aligned
      <4>2. \A i \in 1 .. (k + 1) : i \in 1 .. k \/ i = k + 1 OBVIOUS
      <4>3. \A i \in 1 .. k :
              Whole(frames'[i]) /\ returned'[i] = [at |-> frames'[i].at, size |-> frames'[i].size]
        BY <2>2, <2>5, <4>1
      <4>4. Whole(frames'[k + 1])
            /\ returned'[k + 1] = [at |-> frames'[k + 1].at, size |-> frames'[k + 1].size]
        BY <2>2, <2>5, <3>2, <3>4, <3>6
      <4>5. QED BY <4>2, <4>3, <4>4
    <3>10. QED BY <2>1, <2>2, <2>5, <3>4, <3>7, <3>8, <3>9 DEF Aligned, Whole
  <2>9. QED BY <2>1, <2>6, <2>8, ReaderStep
<1>7. QED BY <1>2, <1>3, <1>4, <1>5, <1>6 DEF Read

(* A read that ends without a frame leaves the reader aligned only if it has
   read nothing. *)
LEMMA ReadGivenUp == ASSUME IInv, GiveUpRead PROVE IInv'
<1>1. /\ UNCHANGED writer /\ UNCHANGED <<pos, start, returned>>
      /\ stage' = "idle" /\ length' = 0 /\ Wanted > 0
  BY DEF GiveUpRead
<1>2. cut' \in BOOLEAN /\ (cut' <=> cut \/ pos # start) BY Zenon DEF GiveUpRead
<1>3. /\ ReaderTypes /\ PREFIX \in Nat \ {0}
      /\ sent \in Nat /\ pos \in Nat /\ start \in Nat /\ Len(returned) \in Nat
  BY ReaderFacts
<1>4. UNCHANGED <<frames, sent>> BY <1>1, WriterKept
<1>5. ReaderTypes' BY <1>1, <1>2, <1>3, <1>4 DEF ReaderTypes
<1>6. ASSUME ~cut, ~cut' PROVE Aligned'
  <2>1. Aligned BY <1>6, ReaderFacts
  <2>2. pos = start BY <1>2, <1>6
  <2>3. stage # "idle" BY <1>1 DEF Wanted
  <2>4. End(Len(returned))' = End(Len(returned)) BY <1>1, <1>4 DEF End
  <2>5. QED BY <1>1, <1>4, <2>1, <2>2, <2>3, <2>4 DEF Aligned, Whole
<1>7. QED BY <1>1, <1>2, <1>5, <1>6, ReaderStep

(* Every step keeps the invariant. *)
LEMMA NextIInv == ASSUME IInv, [Next]_vars PROVE IInv'
<1>1. ASSUME writing, NEW n \in 1 .. (PREFIX + Last(frames).size), poll_write(n) PROVE IInv'
  BY <1>1, PollWrite
<1>2. ASSUME close \/ reset PROVE IInv'
  <2>1. UNCHANGED <<frames, sent, writing, reader, cut>> BY <1>2 DEF close, reset
  <2>2. socket' \in Sockets BY <1>2 DEF close, reset, Sockets
  <2>3. writing' \in BOOLEAN /\ cut' \in BOOLEAN BY <2>1 DEF IInv, TypeOK
  <2>4. TypeOK' BY <2>1, <2>2, <2>3 DEF IInv, TypeOK, reader
  <2>5. Layout' /\ WritingLast' BY <2>1 DEF IInv, Layout, WritingLast, End
  <2>6. Intact'
    BY <2>1 DEF IInv, Intact, WholeFrames, Aligned, Whole, End, reader
  <2>7. QED BY <2>4, <2>5, <2>6 DEF IInv
<1>3. CASE UNCHANGED vars
  <2>1. UNCHANGED <<frames, sent, writing, socket, pos, stage, start, length, returned, cut>>
    BY <1>3 DEF vars
  <2>2. TypeOK' BY <2>1 DEF IInv, TypeOK
  <2>3. Layout' /\ WritingLast' BY <2>1 DEF IInv, Layout, WritingLast, End
  <2>4. Intact' BY <2>1 DEF IInv, Intact, WholeFrames, Aligned, Whole, End
  <2>5. QED BY <2>2, <2>3, <2>4 DEF IInv
<1>4. ASSUME write_timed_out \/ write_err PROVE IInv'
  BY <1>4, WriteGivenUp DEF write_timed_out, write_err
<1>5. ASSUME read_timed_out \/ read_eof \/ read_err PROVE IInv'
  BY <1>5, ReadGivenUp DEF read_timed_out, read_eof, read_err
<1>6. QED BY <1>1, <1>2, <1>3, <1>4, <1>5, WriteFrame, ReadStep DEF Next

(* The invariant holds in every reachable state. *)
LEMMA Inductive == Spec => []IInv
BY InitIInv, NextIInv, PTL DEF Spec

(* Types are kept, and nothing is read before it is written. *)
THEOREM TypeCorrect == Spec => []TypeOK
<1>1. IInv => TypeOK BY DEF IInv
<1>2. QED BY <1>1, Inductive, PTL

(* Until a call ends inside a frame, read_frame returns the frames that
   write_frame wrote: whole, in order, each once. *)
THEOREM FramesStayIntact == Spec => []FramesIntact
<1>1. ASSUME IInv, ~cut
      PROVE  /\ Len(returned) <= Len(frames)
             /\ \A i \in DOMAIN returned :
                  /\ Whole(frames[i])
                  /\ returned[i] = [at |-> frames[i].at, size |-> frames[i].size]
             /\ stage = "idle" /\ pos < sent =>
                  Len(returned) < Len(frames) /\ frames[Len(returned) + 1].at = pos
  <2>1. Aligned /\ Len(returned) \in Nat /\ DOMAIN returned = 1 .. Len(returned)
    BY <1>1, ReaderFacts DEF ReaderTypes
  <2>2. Len(returned) <= Len(frames) /\ \A i \in DOMAIN returned :
          Whole(frames[i]) /\ returned[i] = [at |-> frames[i].at, size |-> frames[i].size]
    BY <2>1 DEF Aligned
  <2>3. stage = "idle" => pos = End(Len(returned)) BY <2>1 DEF Aligned
  <2>4. ASSUME stage = "idle", pos < sent
        PROVE  Len(returned) < Len(frames) /\ frames[Len(returned) + 1].at = pos
    <3>1. Len(returned) + 1 \in 1 .. Len(frames) /\ frames[Len(returned) + 1].at = pos
      BY <1>1, <2>3, <2>4, NextFrame
    <3>2. Len(frames) \in Nat BY <1>1, Fields DEF IInv
    <3>3. QED BY <2>1, <3>1, <3>2
  <2>5. QED BY <2>2, <2>4
<1>2. IInv => FramesIntact BY <1>1 DEF FramesIntact
<1>3. QED BY <1>2, Inductive, PTL
=============================================================================
