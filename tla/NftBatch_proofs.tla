--------------------------- MODULE NftBatch_proofs ---------------------------
(***************************************************************************)
(* Proofs about NftBatch, for every set of commands, whatever messages     *)
(* they make, and for every batch of them.                                 *)
(***************************************************************************)
EXTENDS NftBatch, SequenceTheorems, TLAPS

-----------------------------------------------------------------------------
(* The i-th command has the sequence number i.                             *)
SeqsOK == /\ stage = "build" => Len(batch) > 0
          /\ \A i \in 1 .. Len(seqs) : seqs[i] = i
          /\ stage = "build" => seqnum = Len(seqs) + 1
          /\ stage \in {"kernel", "recv", "match"} => Len(seqs) = Len(cmds)
          /\ err_list # <<>> => Len(seqs) = Len(cmds)

(* The errors looked up so far are reported where they belong, and a       *)
(* lookup need not look at a command before the one the last ended at.     *)
MatchOK == /\ last = UINT32_MAX \/ (last = pos /\ pos \in 1 .. Len(cmds))
           /\ stage \in {"build", "kernel", "recv"} => matched = 0
           /\ stage \in {"build", "kernel"} => err_list = <<>>
           /\ reported = {p \in (1 .. Len(cmds)) \X (1 .. matched) :
                             err_list[p[2]] \in {seqs[p[1]], BatchSeq}}

IInv == TypeOK /\ SeqsOK /\ MatchOK

LEMMA LenType ==
    ASSUME TypeOK
    PROVE  /\ Len(cmds) \in Nat /\ Len(seqs) \in Nat /\ Len(err_list) \in Nat
           /\ cmds \in Seq(Commands) /\ Len(cmds) < UINT32_MAX
  <1>1. cmds \in Seq(Commands)
    BY BatchesAssumption, EmptySeq DEF TypeOK
  <1>2. Len(cmds) < UINT32_MAX
    BY SeqnumAssumption, EmptySeq DEF TypeOK
  <1> QED
    BY <1>1, <1>2, SeqnumAssumption DEF TypeOK

LEMMA InitInv == Init => IInv
  <1> SUFFICES ASSUME Init PROVE IInv
    OBVIOUS
  <1>1. TypeOK
    <2>1. /\ batch \in Seq(Messages) /\ Len(batch) = 0
          /\ answers \in Seq(Seqnums) /\ Len(cmds) = 0
          /\ sock \in Seq(Nat) /\ err_list \in Seq(Nat) /\ Len(err_list) = 0
          /\ seqs \in Seq(Nat) /\ Len(seqs) = 0
      BY EmptySeq DEF Init
    <2>2. check \in BOOLEAN /\ applied \in BOOLEAN /\ overrun \in BOOLEAN
      BY DEF Init
    <2>4. room \in Nat
      BY RoomAssumption DEF Init
    <2>3. /\ cmds \in Batches \cup {<<>>} /\ reported = {}
          /\ stage \in {"idle", "build", "kernel", "recv", "match", "done"}
          /\ seqnum = 0 /\ heard = 0 /\ matched = 0 /\ pos = 1
          /\ last = UINT32_MAX /\ ret = 0
      BY DEF Init
    <2> QED
      BY <2>1, <2>2, <2>3, <2>4 DEF TypeOK
  <1>2. SeqsOK
    BY EmptySeq DEF Init, SeqsOK
  <1>3. {p \in (1 .. Len(cmds)) \X (1 .. matched) :
            err_list[p[2]] \in {seqs[p[1]], BatchSeq}} = {}
    BY DEF Init
  <1>4. MatchOK
    BY <1>3 DEF Init, MatchOK
  <1> QED
    BY <1>1, <1>2, <1>4 DEF IInv

LEMMA BeginInv ==
    ASSUME IInv, NEW b \in Batches, NEW dry \in DryRuns, Begin(b, dry)
    PROVE  IInv'
  <1> USE DEF IInv
  <1>1. /\ b \in Seq(Commands) /\ Len(b) \in Nat
        /\ b # <<>> => Len(b) > 0
    BY BatchesAssumption, EmptySeq
  <1>2. batch' \in Seq(Messages')
    <2>1. Header(BatchSeq) \in Messages'
      BY <1>1 DEF Begin, Header, BatchSeq, Messages, Seqnums
    <2>2. <<Header(BatchSeq)>> \in Seq(Messages') /\ <<>> \in Seq(Messages')
      BY <2>1, EmptySeq
    <2> QED
      BY <2>2 DEF Begin
  <1>3. TypeOK'
    <2>1. seqnum' \in 0 .. Len(cmds') + 1
      BY <1>1 DEF Begin, BatchSeq
    <2>2. heard' \in 0 .. Len(batch')
      BY <1>2, EmptySeq DEF Begin
    <2>3. /\ stage' \in {"idle", "build", "kernel", "recv", "match", "done"}
          /\ check' \in BOOLEAN
      BY DryRunsAssumption DEF Begin
    <2>4. reported' \subseteq (1 .. Len(cmds')) \X (1 .. Len(err_list'))
      BY DEF Begin
    <2>5. /\ seqs' \in Seq(Nat) /\ Len(seqs') = 0
          /\ err_list' \in Seq(Nat) /\ Len(err_list') = 0
          /\ answers' \in Seq(Seqnums')
          /\ sock' \in Seq(Nat) /\ overrun' \in BOOLEAN /\ room' \in Nat
      BY EmptySeq DEF Begin, TypeOK
    <2>6. pos' \in 1 .. Len(cmds') + 1 /\ last' = UINT32_MAX
          /\ cmds' \in Batches \cup {<<>>} /\ Len(cmds') \in Nat
      BY <1>1 DEF Begin
    <2>7. ret' = 0 /\ matched' = 0
      BY DEF Begin
    <2>8. applied' \in BOOLEAN
      BY DEF Begin
    <2> QED
      BY <1>1, <1>2, <2>1, <2>2, <2>3, <2>4, <2>5, <2>6, <2>7, <2>8 DEF TypeOK
  <1>4. SeqsOK'
    BY EmptySeq DEF Begin, SeqsOK, BatchSeq
  <1>5. {p \in (1 .. Len(cmds')) \X (1 .. matched') :
            err_list'[p[2]] \in {seqs'[p[1]], BatchSeq}} = {}
    BY DEF Begin
  <1>6. MatchOK'
    BY <1>5 DEF Begin, MatchOK
  <1> QED
    BY <1>3, <1>4, <1>6

LEMMA BuildInv == IInv /\ Build => IInv'
  <1> SUFFICES ASSUME IInv, Build PROVE IInv'
    OBVIOUS
  <1> USE DEF IInv
  <1> DEFINE c == cmds[Len(seqs) + 1]
             new == [j \in 1 .. MsgsOf[c] |-> Message(c, seqnum)]
  <1>1. c \in Commands /\ seqnum = Len(seqs) + 1 /\ seqnum \in Seqnums
    BY LenType, ElementOfSeq DEF Build, SeqsOK, Seqnums
  <1>2. new \in Seq(Messages)
    <2>1. MsgsOf[c] \in Nat /\ Message(c, seqnum) \in Messages
      BY <1>1, MsgsAssumption DEF Message, Messages
    <2> QED
      BY <2>1
  <1>3. batch' \in Seq(Messages) /\ Len(batch') >= Len(batch)
    <2>1. batch \in Seq(Messages) /\ batch' = batch \o new
      BY DEF Build, TypeOK
    <2> HIDE DEF new
    <2>2. Len(new) \in Nat /\ Len(batch) \in Nat
      BY <1>2, <2>1
    <2> QED
      BY <1>2, <2>1, <2>2, ConcatProperties
  <1>4. /\ seqs' \in Seq(Nat)
        /\ Len(seqs') = Len(seqs) + 1
        /\ \A i \in 1 .. Len(seqs') : seqs'[i] = i
    <2>1. seqs \in Seq(Nat) /\ \A i \in 1 .. Len(seqs) : seqs[i] = i
      BY DEF SeqsOK, TypeOK
    <2>2. seqs' = Append(seqs, seqnum) /\ seqnum \in Nat
      BY <1>1, LenType DEF Build
    <2>3. Len(seqs) \in Nat
      BY LenType
    <2> QED
      BY <1>1, <2>1, <2>2, <2>3, AppendProperties
  <1>5. TypeOK'
    <2>1. heard' \in 0 .. Len(batch')
      <3>1. heard \in 0 .. Len(batch) /\ heard' = heard
        BY DEF Build, TypeOK
      <3>2. Len(batch) \in Nat /\ Len(batch') \in Nat
        BY <1>3, LenProperties DEF TypeOK
      <3> QED
        BY <1>3, <3>1, <3>2
    <2>2. seqnum' \in 0 .. Len(cmds') + 1
      BY <1>1, LenType DEF Build, TypeOK
    <2>3. Seqnums' = Seqnums /\ Messages' = Messages
      BY DEF Build, Seqnums, Messages
    <2>4. Len(seqs') <= Len(cmds')
      BY <1>4, LenType DEF Build
    <2>5. check' \in BOOLEAN /\ applied' \in BOOLEAN /\ overrun' \in BOOLEAN
      BY DEF Build, TypeOK
    <2>6. /\ stage' \in {"idle", "build", "kernel", "recv", "match", "done"}
          /\ cmds' = cmds /\ cmds' \in Batches \cup {<<>>}
          /\ answers' \in Seq(Seqnums) /\ sock' \in Seq(Nat) /\ room' \in Nat
          /\ err_list' \in Seq(Nat) /\ ret' \in {0, 1}
      BY DEF Build, TypeOK
    <2>7. /\ matched' \in 0 .. Len(err_list')
          /\ pos' \in 1 .. Len(cmds') + 1
          /\ last' \in {UINT32_MAX} \cup Seqnums
          /\ reported' \subseteq (1 .. Len(cmds')) \X (1 .. Len(err_list'))
      BY DEF Build, TypeOK, mvars
    <2>8. /\ batch' \in Seq(Messages') /\ answers' \in Seq(Seqnums')
          /\ last' \in {UINT32_MAX} \cup Seqnums'
      BY <1>3, <2>3, <2>6, <2>7
    <2> HIDE DEF c, new, IInv
    <2> QED
      BY <1>4, <2>1, <2>2, <2>4, <2>5, <2>6, <2>7, <2>8, Zenon DEF TypeOK
  <1>6. SeqsOK'
    <2>1. Len(batch') > 0
      <3>1. Len(batch) > 0
        BY DEF Build, SeqsOK
      <3>2. Len(batch) \in Nat /\ Len(batch') \in Nat
        BY <1>3, LenProperties DEF TypeOK
      <3> QED
        BY <1>3, <3>1, <3>2
    <2> QED
      BY <1>1, <1>4, <2>1, LenType DEF Build, SeqsOK, MatchOK
  <1>7. MatchOK'
    BY DEF Build, MatchOK, mvars
  <1> QED
    BY <1>5, <1>6, <1>7

(* The steps that leave the commands, the messages and the lookups alone.  *)
LEMMA QuietInv ==
    ASSUME IInv, UNCHANGED <<bvars, mvars>>,
           err_list' = err_list \/ (stage = "recv" /\ Len(err_list') = Len(err_list) + 1),
           stage' = "build" => stage = "build",
           stage' = "kernel" => stage \in {"build", "kernel"} /\ Len(seqs) = Len(cmds),
           stage' = "recv" => stage \in {"kernel", "recv"},
           stage' = "match" => stage = "recv",
           stage' = "kernel" => err_list' = err_list,
           stage' \in {"idle", "build", "kernel", "recv", "match", "done"},
           heard' \in 0 .. Len(batch), answers' \in Seq(Seqnums),
           applied' \in BOOLEAN, overrun' \in BOOLEAN, room' \in Nat, ret' \in {0, 1},
           sock' \in Seq(Nat), err_list' \in Seq(Nat)
    PROVE  IInv'
  <1> USE DEF IInv
  <1>1. TypeOK'
    <2>1. /\ cmds' \in Batches \cup {<<>>} /\ check' \in BOOLEAN
          /\ seqs' \in Seq(Nat) /\ Len(seqs') <= Len(cmds')
          /\ seqnum' \in 0 .. Len(cmds') + 1
          /\ Seqnums' = Seqnums /\ Messages' = Messages
          /\ batch' \in Seq(Messages)
      BY DEF TypeOK, bvars, Seqnums, Messages
    <2>2. /\ pos' \in 1 .. Len(cmds') + 1
          /\ last' \in {UINT32_MAX} \cup Seqnums
          /\ matched' = matched /\ reported' = reported
      BY DEF TypeOK, bvars, mvars
    <2>3. Len(err_list) \in Nat /\ Len(err_list') \in Nat
      BY LenType, LenProperties
    <2>4. Len(err_list) <= Len(err_list')
      BY <2>3
    <2>5. matched' \in 0 .. Len(err_list')
      BY <2>2, <2>3, <2>4 DEF TypeOK
    <2>6. 1 .. Len(err_list) \subseteq 1 .. Len(err_list')
      BY <2>3, <2>4
    <2>7. reported' \subseteq (1 .. Len(cmds')) \X (1 .. Len(err_list'))
      BY <2>2, <2>6, Zenon DEF TypeOK, bvars
    <2>8. heard' \in 0 .. Len(batch')
      BY DEF bvars
    <2> QED
      BY <2>1, <2>2, <2>5, <2>7, <2>8 DEF TypeOK
  <1>2. SeqsOK'
    BY DEF SeqsOK, bvars
  <1>3. MatchOK'
    BY DEF MatchOK, bvars, mvars
  <1> QED
    BY <1>1, <1>2, <1>3

LEMMA AnswerInv ==
    ASSUME IInv, NEW all \in Seq(Nat), stage = "kernel", applied' \in BOOLEAN, Answer(all)
    PROVE  IInv'
  <1>1. room \in Nat
    BY DEF IInv, TypeOK
  <1>2. sock' \in Seq(Nat)
    <2>1. CASE Len(all) <= room
      BY <2>1 DEF Answer
    <2>2. CASE ~(Len(all) <= room)
      BY <1>1, <2>2, LenProperties, SubSeqProperties DEF Answer
    <2> QED
      BY <2>1, <2>2
  <1>3. overrun' \in BOOLEAN
    BY DEF Answer, IInv, TypeOK
  <1> QED
    BY <1>2, <1>3, QuietInv DEF Answer, IInv, TypeOK

LEMMA KernelDoneInv == IInv /\ KernelDone => IInv'
  <1> SUFFICES ASSUME IInv, KernelDone PROVE IInv'
    OBVIOUS
  <1>1. answers \in Seq(Nat) /\ sock \in Seq(Nat)
    <2>1. Seqnums \subseteq Nat
      BY LenType DEF IInv, Seqnums
    <2>2. answers \in Seq(Seqnums) /\ sock \in Seq(Nat)
      BY DEF IInv, TypeOK
    <2>3. \A i \in 1 .. Len(answers) : answers[i] \in Nat
      BY <2>1, <2>2, ElementOfSeq
    <2> QED
      BY <2>2, <2>3, SeqDef, LenProperties
  <1>2. sock \o answers \in Seq(Nat)
    BY <1>1, ConcatProperties
  <1>3. applied' \in BOOLEAN
    BY DEF KernelDone
  <1> QED
    BY <1>2, <1>3, AnswerInv DEF KernelDone

LEMMA KernelRefusesInv == IInv /\ KernelRefuses => IInv'
  <1> SUFFICES ASSUME IInv, KernelRefuses PROVE IInv'
    OBVIOUS
  <1>1. Append(sock, BatchSeq) \in Seq(Nat)
    BY AppendProperties DEF IInv, TypeOK, BatchSeq
  <1> QED
    BY <1>1, AnswerInv DEF KernelRefuses

LEMMA KernelInv ==
    ASSUME IInv, NEW refused \in BOOLEAN, Kernel(refused)
    PROVE  IInv'
  <1>1. Len(batch) \in Nat /\ heard \in Nat /\ heard + 1 \in 1 .. Len(batch)
    BY LenProperties DEF IInv, TypeOK, Kernel
  <1>2. batch[heard + 1] \in Messages
    BY <1>1, ElementOfSeq DEF IInv, TypeOK
  <1>3. answers' \in Seq(Seqnums)
    <2>1. batch[heard + 1].seq \in Seqnums
      BY <1>2 DEF Messages
    <2> QED
      BY <2>1, AppendProperties DEF IInv, TypeOK, Kernel
  <1>4. heard' \in 0 .. Len(batch)
    BY <1>1 DEF Kernel
  <1>5. Len(seqs) = Len(cmds)
    BY DEF Kernel, IInv, SeqsOK
  <1> QED
    BY <1>3, <1>4, <1>5, QuietInv DEF Kernel, IInv, TypeOK

LEMMA SetRoomType == IInv /\ SetRoom => room' \in Nat
  <1> SUFFICES ASSUME IInv, SetRoom PROVE room' \in Nat
    OBVIOUS
  <1>1. Len(cmds) \in Nat /\ PerCmd \in Nat /\ room \in Nat
    BY LenType, RoomAssumption DEF IInv, TypeOK
  <1>2. Len(cmds) * PerCmd \in Nat
    BY <1>1
  <1> QED
    BY <1>1, <1>2 DEF SetRoom

(* A batch that is sent has at least its header.                           *)
LEMMA SendInv == IInv /\ Send => IInv'
  <1> SUFFICES ASSUME IInv, Send PROVE IInv'
    OBVIOUS
  <1>1. heard' \in 0 .. Len(batch)
    <2>1. Len(batch) \in Nat \ {0}
      BY LenProperties DEF IInv, SeqsOK, TypeOK, Send, Built
    <2> QED
      BY <2>1 DEF Send
  <1>2. answers' \in Seq(Seqnums)
    BY EmptySeq DEF Send
  <1> QED
    BY <1>1, <1>2, SetRoomType, QuietInv DEF Send, Built, IInv, TypeOK

LEMMA ReceiveInv == IInv /\ Receive => IInv'
  <1> SUFFICES ASSUME IInv, Receive PROVE IInv'
    OBVIOUS
  <1>1. Head(sock) \in Nat /\ Tail(sock) \in Seq(Nat)
    BY HeadTailProperties DEF Receive, IInv, TypeOK
  <1>2. err_list' \in Seq(Nat) /\ Len(err_list') = Len(err_list) + 1
    BY <1>1, AppendProperties DEF Receive, IInv, TypeOK
  <1> QED
    BY <1>1, <1>2, QuietInv DEF Receive, IInv, TypeOK

(* The steps that only leave a stage for another.                          *)
LEMMA StageInv ==
    ASSUME IInv, \/ BuildFails \/ NotSent \/ SendFails \/ ReceiveFails
                 \/ ReceiveDone \/ MatchDone \/ Return
    PROVE  IInv'
  <1> USE DEF IInv
  <1>1. CASE BuildFails
    BY <1>1, QuietInv DEF BuildFails, Leave, TypeOK
  <1>2. CASE NotSent
    BY <1>2, QuietInv DEF NotSent, Leave, TypeOK
  <1>3. CASE SendFails
    BY <1>3, SetRoomType, QuietInv DEF SendFails, Leave, TypeOK
  <1>4. CASE ReceiveFails
    BY <1>4, QuietInv DEF ReceiveFails, Leave, TypeOK
  <1>5. CASE ReceiveDone
    BY <1>5, QuietInv DEF ReceiveDone, TypeOK
  <1>6. CASE MatchDone
    BY <1>6, QuietInv DEF MatchDone, TypeOK
  <1>7. CASE Return
    BY <1>7, QuietInv DEF Return, TypeOK
  <1> QED
    BY <1>1, <1>2, <1>3, <1>4, <1>5, <1>6, <1>7

LEMMA StaleInv == IInv /\ Stale => IInv'
  <1> SUFFICES ASSUME IInv, Stale PROVE IInv'
    OBVIOUS
  <1>1. Tail(sock) \in Seq(Nat)
    BY HeadTailProperties DEF Stale, IInv, TypeOK
  <1> QED
    BY <1>1, QuietInv DEF Stale, IInv, TypeOK

(* The pairs of a command and one of the first n errors that belong        *)
(* together.                                                               *)
Pairs(n) == {p \in (1 .. Len(cmds)) \X (1 .. n) :
                err_list[p[2]] \in {seqs[p[1]], BatchSeq}}

LEMMA PairsNext ==
    ASSUME NEW n \in Nat, NEW D,
           \A i \in 1 .. Len(cmds) : i \in D <=> err_list[n + 1] \in {seqs[i], BatchSeq},
           D \subseteq 1 .. Len(cmds)
    PROVE  Pairs(n + 1) = Pairs(n) \cup {<<i, n + 1>> : i \in D}
  <1>1. 1 .. (n + 1) = (1 .. n) \cup {n + 1}
    OBVIOUS
  <1>2. ASSUME NEW p \in Pairs(n + 1) PROVE p \in Pairs(n) \cup {<<i, n + 1>> : i \in D}
    <2>1. PICK i \in 1 .. Len(cmds), j \in 1 .. (n + 1) :
              p = <<i, j>> /\ err_list[j] \in {seqs[i], BatchSeq}
      BY <1>2 DEF Pairs
    <2>2. CASE j = n + 1
      BY <2>1, <2>2
    <2>3. CASE j \in 1 .. n
      BY <2>1, <2>3 DEF Pairs
    <2> QED
      BY <1>1, <2>2, <2>3
  <1>3. ASSUME NEW p \in Pairs(n) PROVE p \in Pairs(n + 1)
    BY <1>1, <1>3 DEF Pairs
  <1>4. ASSUME NEW i \in D PROVE <<i, n + 1>> \in Pairs(n + 1)
    BY <1>1, <1>4 DEF Pairs
  <1> QED
    BY <1>2, <1>3, <1>4

LEMMA MatchInv == IInv /\ Match => IInv'
  <1> SUFFICES ASSUME IInv, Match PROVE IInv'
    OBVIOUS
  <1> DEFINE n    == matched + 1
             seq  == err_list[n]
             hits == {i \in Start(seq) .. Len(cmds) : seqs[i] = seq}
  <1>1. /\ Len(err_list) \in Nat /\ n \in 1 .. Len(err_list) /\ matched \in Nat
        /\ Len(cmds) \in Nat /\ Len(cmds) < UINT32_MAX /\ UINT32_MAX \in Nat
    BY LenType, SeqnumAssumption DEF IInv, TypeOK, Match
  <1>2. seq \in Nat
    BY <1>1, ElementOfSeq DEF IInv, TypeOK
  <1>3. /\ Len(seqs) = Len(cmds)
        /\ \A i \in 1 .. Len(cmds) : seqs[i] = i
    BY DEF Match, IInv, SeqsOK
  <1>4. /\ pos \in 1 .. Len(cmds) + 1
        /\ last = UINT32_MAX \/ (last = pos /\ pos \in 1 .. Len(cmds))
        /\ reported = Pairs(matched)
    BY DEF IInv, TypeOK, MatchOK, Pairs
  <1>5. Start(seq) \in 1 .. Len(cmds) + 1
    BY <1>1, <1>4 DEF Start
  <1>6. /\ pos' \in 1 .. Len(cmds) + 1
        /\ last' = UINT32_MAX \/ (last' = pos' /\ pos' \in 1 .. Len(cmds))
        /\ reported' = Pairs(n)
    <2>1. CASE seq \in 1 .. Len(cmds)
      <3>1. Start(seq) <= seq
        BY <1>1, <1>4, <2>1 DEF Start
      <3>2. hits = {seq}
        BY <1>1, <1>3, <1>5, <2>1, <3>1
      <3>3. seq # BatchSeq /\ hits # {}
        BY <2>1, <3>2 DEF BatchSeq
      <3>4. (CHOOSE h \in hits : \A g \in hits : h <= g) = seq
        BY <2>1, <3>2
      <3>5. /\ pos' = seq
            /\ last' = seqs[seq]
            /\ reported' = reported \cup {<<seq, n>>}
        BY <3>3, <3>4 DEF Match
      <3>6. Pairs(n) = Pairs(matched) \cup {<<i, n>> : i \in {seq}}
        BY <1>1, <1>3, <2>1, <3>3, PairsNext
      <3> QED
        BY <1>1, <1>3, <1>4, <2>1, <3>5, <3>6
    <2>2. CASE seq = BatchSeq
      <3>1. Start(seq) = 1
        BY <1>1, <1>4, <2>2 DEF Start, BatchSeq
      <3>2. /\ pos' = Len(cmds) + 1
            /\ last' = UINT32_MAX
            /\ reported' = reported \cup {<<i, n>> : i \in 1 .. Len(cmds)}
        BY <2>2, <3>1 DEF Match
      <3>3. Pairs(n) = Pairs(matched) \cup {<<i, n>> : i \in 1 .. Len(cmds)}
        BY <1>1, <2>2, PairsNext
      <3> QED
        BY <1>1, <1>4, <3>2, <3>3
    <2>3. CASE seq \notin 0 .. Len(cmds)
      <3>1. hits = {} /\ seq # BatchSeq
        BY <1>1, <1>3, <1>5, <2>3 DEF BatchSeq
      <3>2. /\ pos' = Len(cmds) + 1
            /\ last' = UINT32_MAX
            /\ reported' = reported \cup {<<i, n>> : i \in {}}
        <4> HIDE DEF hits, n
        <4> QED
          BY <3>1 DEF Match, hits, n
      <3>3. Pairs(n) = Pairs(matched) \cup {<<i, n>> : i \in {}}
        <4>1. \A i \in 1 .. Len(cmds) : seq \notin {seqs[i], BatchSeq}
          BY <1>1, <1>3, <2>3, <3>1
        <4> QED
          BY <1>1, <4>1, PairsNext
      <3> QED
        BY <1>1, <1>4, <3>2, <3>3
    <2> QED
      BY <1>1, <1>2, <2>1, <2>2, <2>3 DEF BatchSeq
  <1>7. /\ matched' = n
        /\ UNCHANGED <<stage, cmds, check, seqnum, seqs, batch, heard, answers, applied,
                       sock, room, overrun, err_list, ret>>
    BY DEF Match, bvars
  <1>8. TypeOK'
    <2>1. /\ stage' \in {"idle", "build", "kernel", "recv", "match", "done"}
          /\ cmds' \in Batches \cup {<<>>}
          /\ heard' \in 0 .. Len(batch')
          /\ seqnum' \in 0 .. Len(cmds') + 1
          /\ seqs' \in Seq(Nat) /\ Len(seqs') <= Len(cmds')
          /\ sock' \in Seq(Nat) /\ err_list' \in Seq(Nat) /\ ret' \in {0, 1}
          /\ room' \in Nat
      BY <1>7 DEF IInv, TypeOK
    <2>2. check' \in BOOLEAN /\ applied' \in BOOLEAN /\ overrun' \in BOOLEAN
      BY <1>7 DEF IInv, TypeOK
    <2>3. batch' \in Seq(Messages') /\ answers' \in Seq(Seqnums')
      BY <1>7 DEF IInv, TypeOK, Messages, Seqnums
    <2>4. matched' \in 0 .. Len(err_list') /\ pos' \in 1 .. Len(cmds') + 1
      BY <1>1, <1>6, <1>7
    <2>5. last' \in {UINT32_MAX} \cup Seqnums'
      BY <1>1, <1>6, <1>7 DEF Seqnums
    <2>6. reported' \subseteq (1 .. Len(cmds')) \X (1 .. Len(err_list'))
      <3>1. 1 .. n \subseteq 1 .. Len(err_list)
        BY <1>1
      <3> HIDE DEF n
      <3> QED
        BY <1>6, <1>7, <3>1, Zenon DEF Pairs
    <2> QED
      BY <2>1, <2>2, <2>3, <2>4, <2>5, <2>6, Zenon DEF TypeOK
  <1>9. SeqsOK'
    BY <1>7 DEF IInv, SeqsOK
  <1>10. MatchOK'
    <2>1. reported' = {p \in (1 .. Len(cmds')) \X (1 .. matched') :
                          err_list'[p[2]] \in {seqs'[p[1]], BatchSeq}}
      BY <1>6, <1>7 DEF Pairs
    <2>2. stage' = "match"
      BY <1>7 DEF Match
    <2> QED
      BY <1>6, <1>7, <2>1, <2>2 DEF MatchOK
  <1> QED
    BY <1>8, <1>9, <1>10 DEF IInv

LEMMA StutterInv == IInv /\ UNCHANGED vars => IInv'
  BY DEF IInv, TypeOK, SeqsOK, MatchOK, Seqnums, Messages, vars, mvars

LEMMA NextInv == IInv /\ [Next]_vars => IInv'
  <1> SUFFICES ASSUME IInv, [Next]_vars PROVE IInv'
    OBVIOUS
  <1>1. ASSUME NEW b \in Batches, NEW dry \in DryRuns, Begin(b, dry) PROVE IInv'
    BY <1>1, BeginInv
  <1>2. ASSUME NEW refused \in BOOLEAN, Kernel(refused) PROVE IInv'
    BY <1>2, KernelInv
  <1>3. CASE BuildFails \/ NotSent \/ SendFails \/ ReceiveFails
             \/ ReceiveDone \/ MatchDone \/ Return
    BY <1>3, StageInv
  <1> QED
    BY <1>1, <1>2, <1>3, BuildInv, SendInv, KernelDoneInv, KernelRefusesInv,
       ReceiveInv, MatchInv, StaleInv, StutterInv DEF Next

(* The variables of a run hold what they should, in every state.           *)
THEOREM Typing == Spec => []TypeOK
  <1>1. IInv => TypeOK
    BY DEF IInv
  <1> QED
    BY <1>1, InitInv, NextInv, PTL DEF Spec

(* Each error received is reported at the command whose sequence number it *)
(* carries and at no other: the walk along the commands that               *)
(* nft_netlink() saves itself from starting over never passes one by.      *)
THEOREM ErrorsReportedTheorem == Spec => []ErrorsReported
  <1>1. IInv => ErrorsReported
    BY DEF IInv, MatchOK, ErrorsReported
  <1> QED
    BY <1>1, InitInv, NextInv, PTL DEF Spec

-----------------------------------------------------------------------------
(* The answers to a run fit in the socket when no command makes more       *)
(* messages than answers fit in the 1024 bytes mnl_batch_talk() counts for *)
(* it, and the socket never starts without room for one.                   *)
SmallCommands == /\ \A c \in Commands : MsgsOf[c] <= PerCmd
                 /\ DefaultRoom > 0

Product == Len(cmds) * PerCmd

RoomOK == /\ room >= DefaultRoom
          /\ overrun = FALSE
          /\ stage # "recv" => sock = <<>>
          /\ stage \in {"build", "kernel"} => Len(batch) <= Len(seqs) * PerCmd + 1
          /\ stage = "kernel" => /\ Product <= room
                                 /\ Len(answers) < heard

(* What the batch did and what the answers and the result say of it.       *)
OutcomeOK == /\ stage \in {"build", "kernel"} => ~applied
             /\ stage = "recv" =>
                   /\ applied => err_list = <<>> /\ sock = <<>>
                   /\ err_list = <<>> /\ sock = <<>> /\ ~check => applied
             /\ stage = "match" => /\ ret = 1 => ~applied
                                   /\ ret = 0 /\ ~check => applied
             /\ AllOrNothing

RInv == RoomOK /\ OutcomeOK

LEMMA RoomTypes ==
    ASSUME IInv
    PROVE  /\ Len(cmds) \in Nat /\ Len(seqs) \in Nat /\ Len(batch) \in Nat
           /\ Len(answers) \in Nat /\ Len(err_list) \in Nat /\ Len(sock) \in Nat
           /\ PerCmd \in Nat /\ DefaultRoom \in Nat /\ room \in Nat /\ heard \in Nat
           /\ Product \in Nat
  <1>1. /\ Len(cmds) \in Nat /\ Len(seqs) \in Nat /\ Len(batch) \in Nat
        /\ Len(answers) \in Nat /\ Len(err_list) \in Nat /\ Len(sock) \in Nat
    BY LenType, LenProperties DEF IInv, TypeOK
  <1>2. /\ PerCmd \in Nat /\ DefaultRoom \in Nat /\ room \in Nat /\ heard \in Nat
    BY <1>1, RoomAssumption DEF IInv, TypeOK
  <1>3. Product \in Nat
    BY <1>1, <1>2 DEF Product
  <1> QED
    BY <1>1, <1>2, <1>3

LEMMA RInit == SmallCommands /\ Init => RInv
  BY RoomAssumption, EmptySeq DEF SmallCommands, Init, RInv, RoomOK, OutcomeOK, AllOrNothing

LEMMA RBegin ==
    ASSUME IInv, RInv, NEW b \in Batches, NEW dry \in DryRuns, Begin(b, dry)
    PROVE  RInv'
  <1>1. RoomOK'
    <2>1. PerCmd \in Nat
      BY RoomAssumption
    <2>2. stage' = "build" => Len(batch') <= Len(seqs') * PerCmd + 1
      <3>1. stage' = "build" => batch' = <<Header(BatchSeq)>> /\ seqs' = <<>>
        BY DEF Begin
      <3>2. Len(<<Header(BatchSeq)>>) = 1
        OBVIOUS
      <3>3. Len(<<>>) = 0 /\ 0 * PerCmd = 0
        BY <2>1, EmptySeq
      <3>4. 1 <= 0 * PerCmd + 1
        BY <3>3
      <3> QED
        BY <3>1, <3>2, <3>3, <3>4
    <2>3. sock = <<>> /\ sock' = sock
      BY DEF Begin, RInv, RoomOK
    <2> QED
      BY <2>2, <2>3 DEF Begin, RInv, RoomOK
  <1>2. OutcomeOK'
    BY DEF Begin, OutcomeOK, AllOrNothing
  <1> QED
    BY <1>1, <1>2 DEF RInv

LEMMA RBuild == SmallCommands /\ IInv /\ RInv /\ Build => RInv'
  <1> SUFFICES ASSUME SmallCommands, IInv, RInv, Build PROVE RInv'
    OBVIOUS
  <1> DEFINE c == cmds[Len(seqs) + 1]
             new == [j \in 1 .. MsgsOf[c] |-> Message(c, seqnum)]
  <1>1. c \in Commands
    <2>1. cmds \in Seq(Commands) /\ Len(seqs) + 1 \in 1 .. Len(cmds)
      BY LenType DEF Build, IInv
    <2> QED
      BY <2>1, ElementOfSeq
  <1>2. MsgsOf[c] \in Nat /\ MsgsOf[c] <= PerCmd
    BY <1>1, MsgsAssumption DEF SmallCommands
  <1>3. Len(batch') = Len(batch) + MsgsOf[c]
    <2>1. /\ batch' = batch \o new /\ batch \in Seq(Messages)
          /\ new \in Seq({Message(c, seqnum)}) /\ Len(new) = MsgsOf[c]
      <3>1. batch' = batch \o new
        BY DEF Build
      <3>2. batch \in Seq(Messages)
        BY DEF IInv, TypeOK
      <3>3. new \in Seq({Message(c, seqnum)}) /\ Len(new) = MsgsOf[c]
        BY ONLY <1>2
      <3> QED
        BY ONLY <3>1, <3>2, <3>3
    <2>2. batch \in Seq(Messages \cup {Message(c, seqnum)})
      BY ONLY <2>1
    <2>3. new \in Seq(Messages \cup {Message(c, seqnum)})
      BY <1>2
    <2> HIDE DEF new, c
    <2> QED
      BY <2>1, <2>2, <2>3, ConcatProperties
  <1>4. Len(seqs') = Len(seqs) + 1
    BY AppendProperties DEF Build, IInv, TypeOK
  <1>5. Len(seqs') * PerCmd = Len(seqs) * PerCmd + PerCmd
    BY <1>4, RoomTypes
  <1>6. Len(batch') <= Len(seqs') * PerCmd + 1
    <2>1. Len(batch) <= Len(seqs) * PerCmd + 1
      BY DEF Build, RInv, RoomOK
    <2>2. Len(seqs) * PerCmd \in Nat /\ Len(batch) \in Nat /\ PerCmd \in Nat
      BY RoomTypes
    <2> HIDE DEF c
    <2> QED
      BY <1>2, <1>3, <1>5, <2>1, <2>2
  <1>7. RoomOK'
    BY <1>6 DEF Build, RInv, RoomOK
  <1>8. OutcomeOK'
    BY DEF Build, RInv, OutcomeOK, AllOrNothing
  <1> QED
    BY <1>7, <1>8 DEF RInv

LEMMA SetRoomOK ==
    ASSUME IInv, RInv, SetRoom
    PROVE  room' >= DefaultRoom /\ Product <= room'
  <1>1. room' = IF Product > DefaultRoom THEN Product ELSE room
    BY DEF SetRoom, Product
  <1>2. room >= DefaultRoom
    BY DEF RInv, RoomOK
  <1> QED
    BY <1>1, <1>2, RoomTypes

LEMMA RSend == IInv /\ RInv /\ (Send \/ SendFails) => RInv'
  <1> SUFFICES ASSUME IInv, RInv, Send \/ SendFails PROVE RInv'
    OBVIOUS
  <1>1. room' >= DefaultRoom /\ Product <= room' /\ Product' = Product
    BY SetRoomOK DEF Send, SendFails, Product, bvars
  <1>2. CASE Send
    <2>1. RoomOK'
      BY <1>1, <1>2, EmptySeq DEF Send, Built, RInv, RoomOK, bvars
    <2>2. OutcomeOK'
      BY <1>2 DEF Send, Built, RInv, OutcomeOK, AllOrNothing, bvars
    <2> QED
      BY <2>1, <2>2 DEF RInv
  <1>3. CASE SendFails
    <2>1. RoomOK'
      BY <1>1, <1>3 DEF SendFails, Built, Leave, RInv, RoomOK, bvars
    <2>2. OutcomeOK'
      BY <1>3 DEF SendFails, Built, Leave, RInv, OutcomeOK, AllOrNothing, bvars
    <2> QED
      BY <2>1, <2>2 DEF RInv
  <1> QED
    BY <1>2, <1>3

LEMMA RKernel ==
    ASSUME IInv, RInv, NEW refused \in BOOLEAN, Kernel(refused)
    PROVE  RInv'
  <1>1. Len(answers') <= Len(answers) + 1
    <2>1. answers \in Seq(Seqnums) /\ Len(answers) \in Nat
      BY RoomTypes DEF IInv, TypeOK
    <2>2. Len(answers') = Len(answers) \/ Len(answers') = Len(answers) + 1
      BY <2>1, AppendProperties DEF Kernel
    <2> QED
      BY <2>1, <2>2
  <1>2. Len(answers') < heard'
    <2>1. Len(answers') \in Nat
      BY <1>1, KernelInv, RoomTypes, LenProperties DEF IInv, TypeOK
    <2>2. Len(answers) < heard /\ heard' = heard + 1
      BY DEF Kernel, RInv, RoomOK
    <2> QED
      BY <1>1, <2>1, <2>2, RoomTypes
  <1>3. RoomOK'
    BY <1>2 DEF Kernel, RInv, RoomOK, Product, bvars
  <1>4. OutcomeOK'
    BY DEF Kernel, RInv, OutcomeOK, AllOrNothing, bvars
  <1> QED
    BY <1>3, <1>4 DEF RInv

LEMMA RAnswer ==
    ASSUME IInv, RInv, stage = "kernel", NEW all \in Seq(Nat), Len(all) <= room,
           Answer(all), applied' => all = <<>>, all = <<>> /\ ~check => applied'
    PROVE  RInv'
  <1>1. sock' = all /\ overrun' = overrun /\ err_list = <<>>
    <2>1. Len(all) \in Nat /\ ~(Len(all) > room)
      BY RoomTypes, LenProperties
    <2>2. overrun' = (overrun \/ Len(all) > room) /\ overrun = FALSE
      BY DEF Answer, RInv, RoomOK
    <2>3. overrun' = overrun
      BY <2>1, <2>2, Zenon
    <2>4. sock' = all /\ err_list = <<>>
      BY DEF Answer, IInv, MatchOK
    <2> QED
      BY <2>3, <2>4
  <1>2. RoomOK'
    BY <1>1 DEF Answer, RInv, RoomOK
  <1>3. OutcomeOK'
    BY <1>1 DEF Answer, OutcomeOK, AllOrNothing, bvars
  <1> QED
    BY <1>2, <1>3 DEF RInv

LEMMA RKernelDone == IInv /\ RInv /\ KernelDone => RInv'
  <1> SUFFICES ASSUME IInv, RInv, KernelDone PROVE RInv'
    OBVIOUS
  <1>1. stage = "kernel" /\ sock = <<>> /\ heard = Len(batch) /\ Len(seqs) = Len(cmds)
    BY DEF KernelDone, RInv, RoomOK, IInv, SeqsOK
  <1>2. answers \in Seq(Nat)
    <2>1. Seqnums \subseteq Nat
      BY LenType DEF IInv, Seqnums
    <2>2. answers \in Seq(Seqnums)
      BY DEF IInv, TypeOK
    <2>3. \A i \in 1 .. Len(answers) : answers[i] \in Nat
      BY <2>1, <2>2, ElementOfSeq
    <2> QED
      BY <2>2, <2>3, SeqDef, LenProperties
  <1>3. sock \o answers = answers
    BY <1>1, <1>2, ConcatEmptySeq
  <1>4. Len(answers) <= room
    <2>1. /\ Len(answers) < heard /\ Product <= room
          /\ heard <= Product + 1
      BY <1>1 DEF RInv, RoomOK, Product
    <2> QED
      BY <2>1, RoomTypes
  <1>5. Len(Whole) > Len(batch) <=> ~check
    <2>1. batch \in Seq(Messages \cup {Header(seqnum)})
      BY ElementOfSeq, LenProperties, SeqDef DEF IInv, TypeOK
    <2>2. Len(Append(batch, Header(seqnum))) = Len(batch) + 1
      BY <2>1, AppendProperties
    <2> QED
      BY <2>2, RoomTypes DEF Whole
  <1>6. Answer(answers) /\ applied' = (answers = <<>> /\ Len(Whole) > Len(batch))
    BY <1>3 DEF KernelDone
  <1> QED
    BY <1>1, <1>2, <1>4, <1>5, <1>6, RAnswer

LEMMA RKernelRefuses == SmallCommands /\ IInv /\ RInv /\ KernelRefuses => RInv'
  <1> SUFFICES ASSUME SmallCommands, IInv, RInv, KernelRefuses PROVE RInv'
    OBVIOUS
  <1>1. stage = "kernel" /\ sock = <<>>
    BY DEF KernelRefuses, RInv, RoomOK
  <1> DEFINE all == Append(sock, BatchSeq)
  <1>2. all \in Seq(Nat) /\ Len(all) = 1 /\ all # <<>>
    BY <1>1, EmptySeq, AppendProperties DEF BatchSeq
  <1>3. Len(all) <= room
    BY <1>2, RoomTypes DEF SmallCommands, RInv, RoomOK
  <1>4. Answer(all) /\ applied' = FALSE
    BY DEF KernelRefuses
  <1> HIDE DEF all
  <1> QED
    BY <1>1, <1>2, <1>3, <1>4, RAnswer

LEMMA RReceive == IInv /\ RInv /\ Receive => RInv'
  <1> SUFFICES ASSUME IInv, RInv, Receive PROVE RInv'
    OBVIOUS
  <1>1. ~applied /\ applied' = applied
    BY DEF Receive, RInv, OutcomeOK
  <1>2. err_list' # <<>>
    <2>1. err_list \in Seq(Nat) /\ Len(err_list) \in Nat /\ Head(sock) \in Nat
      BY RoomTypes, HeadTailProperties DEF Receive, IInv, TypeOK
    <2>2. Len(err_list') = Len(err_list) + 1
      BY <2>1, AppendProperties DEF Receive
    <2>3. Len(err_list') # 0
      BY <2>1, <2>2
    <2> QED
      BY <2>3, EmptySeq
  <1>3. RoomOK'
    BY DEF Receive, RInv, RoomOK, Product, bvars
  <1>4. OutcomeOK'
    BY <1>1, <1>2 DEF Receive, OutcomeOK, AllOrNothing, bvars
  <1> QED
    BY <1>3, <1>4 DEF RInv

LEMMA RStage ==
    ASSUME IInv, RInv, \/ BuildFails \/ NotSent \/ ReceiveFails \/ ReceiveDone
                       \/ Match \/ MatchDone \/ Return \/ Stale
    PROVE  RInv'
  <1> USE DEF RInv, RoomOK, OutcomeOK, AllOrNothing, Product
  <1>1. CASE BuildFails
    BY <1>1 DEF BuildFails, Leave, bvars
  <1>2. CASE NotSent
    <2>1. ~check => Len(batch) <= 1
      <3>1. ASSUME ~check PROVE Len(Append(batch, Header(seqnum))) = 2
        BY <1>2, <3>1 DEF NotSent, Ready, Whole
      <3>2. batch \in Seq(Messages \cup {Header(seqnum)})
        BY ElementOfSeq, LenProperties, SeqDef DEF IInv, TypeOK
      <3>3. Len(Append(batch, Header(seqnum))) = Len(batch) + 1
        BY <3>2, AppendProperties
      <3> QED
        BY <3>1, <3>3, RoomTypes
    <2>2. Len(batch) \in Nat
      BY RoomTypes
    <2> QED
      BY <1>2, <2>1, <2>2 DEF NotSent, Built, Leave, bvars
  <1>3. CASE ReceiveFails
    BY <1>3 DEF ReceiveFails
  <1>4. CASE ReceiveDone
    BY <1>4 DEF ReceiveDone, bvars
  <1>5. CASE Match
    BY <1>5 DEF Match, bvars
  <1>6. CASE MatchDone
    BY <1>6 DEF MatchDone, bvars
  <1>7. CASE Return
    BY <1>7 DEF Return, bvars
  <1>8. CASE Stale
    BY <1>8 DEF Stale
  <1> QED
    BY <1>1, <1>2, <1>3, <1>4, <1>5, <1>6, <1>7, <1>8

LEMMA RStutter == RInv /\ UNCHANGED vars => RInv'
  BY DEF RInv, RoomOK, OutcomeOK, AllOrNothing, Product, vars

LEMMA RNext == SmallCommands /\ IInv /\ RInv /\ [Next]_vars => RInv'
  <1> SUFFICES ASSUME SmallCommands, IInv, RInv, [Next]_vars PROVE RInv'
    OBVIOUS
  <1>1. ASSUME NEW b \in Batches, NEW dry \in DryRuns, Begin(b, dry) PROVE RInv'
    BY <1>1, RBegin
  <1>2. ASSUME NEW refused \in BOOLEAN, Kernel(refused) PROVE RInv'
    BY <1>2, RKernel
  <1>3. CASE \/ BuildFails \/ NotSent \/ ReceiveFails \/ ReceiveDone
             \/ Match \/ MatchDone \/ Return \/ Stale
    BY <1>3, RStage
  <1> QED
    BY <1>1, <1>2, <1>3, RBuild, RSend, RKernelDone, RKernelRefuses, RReceive, RStutter
    DEF Next

LEMMA RoomInvariant == ASSUME SmallCommands PROVE Spec => [](IInv /\ RInv)
  <1>1. Init => IInv /\ RInv
    BY InitInv, RInit
  <1>2. IInv /\ RInv /\ [Next]_vars => (IInv /\ RInv)'
    BY NextInv, RNext
  <1> QED
    BY <1>1, <1>2, PTL DEF Spec

(* When the answers fit in the socket, nft_netlink() tells the truth about *)
(* what became of the commands: the kernel has carried all of them out, or *)
(* none.                                                                   *)
THEOREM AllOrNothingTheorem == ASSUME SmallCommands PROVE Spec => []AllOrNothing
  <1>1. IInv /\ RInv => AllOrNothing
    BY DEF RInv, OutcomeOK
  <1> QED
    BY <1>1, RoomInvariant, PTL

(* And it leaves no answer behind for a later request to stumble over.     *)
THEOREM AllAcknowledgedTheorem == ASSUME SmallCommands PROVE Spec => []AllAcknowledged
  <1>1. IInv /\ RInv => AllAcknowledged
    BY DEF RInv, RoomOK, AllAcknowledged
  <1> QED
    BY <1>1, RoomInvariant, PTL
=============================================================================
