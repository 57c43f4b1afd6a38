------------------------------ MODULE NftBatch ------------------------------
(***************************************************************************)
(* nft_netlink() of libnftables.c and mnl_batch_talk() of mnl.c: the       *)
(* commands of a run become the messages of one batch, the kernel applies  *)
(* the batch or refuses it, and each error it answers with is reported at  *)
(* the command whose message caused it, found by the sequence number.      *)
(*                                                                         *)
(* A command is told apart by the messages it puts in the batch.  The      *)
(* kernel answers while sendmsg() runs, to a socket of limited room.       *)
(***************************************************************************)
EXTENDS Naturals, Sequences

CONSTANTS
    Commands,      \* commands
    Batches,       \* the sequences of commands users run
    MsgsOf,        \* MsgsOf[c]: the messages do_command() makes of c; none of
                   \* a query, several of a set with many elements
    Bare,          \* commands whose message is only a header: flush ruleset
    Failing,       \* commands do_command() fails for: import, export, and
                   \* elements whose intervals overlap
    DryRuns,       \* the settings of nft_ctx_set_dry_run() users choose
    DefaultRoom,   \* how many answers the socket holds to begin with
    PerCmd,        \* how many fit in the 1024 bytes each command adds
    UINT32_MAX     \* larger than any sequence number in use

ASSUME BatchesAssumption == Batches \subseteq Seq(Commands)
ASSUME MsgsAssumption    == MsgsOf \in [Commands -> Nat]
ASSUME RoomAssumption    == DefaultRoom \in Nat /\ PerCmd \in Nat
ASSUME SeqnumAssumption  == /\ UINT32_MAX \in Nat \ {0}
                            /\ \A b \in Batches : Len(b) < UINT32_MAX
ASSUME DryRunsAssumption == DryRuns \subseteq BOOLEAN /\ DryRuns # {}

VARIABLES
    stage,      \* where nft_netlink() is
    cmds,       \* its commands
    check,      \* nft->check
    seqnum,     \* the next sequence number
    seqs,       \* seqs[i]: the sequence number of the i-th command
    batch,      \* the messages: their sequence number and if they are bare
    heard,      \* how many of them the kernel has read
    answers,    \* what it will answer: the messages it refused
    applied,    \* it committed the batch
    sock,       \* answers that wait in the socket: their sequence numbers
    room,       \* how many answers the socket holds
    overrun,    \* the socket had no room for an answer
    err_list,   \* the errors received: their sequence numbers
    matched,    \* how many of them were looked up
    pos,        \* the command the last lookup ended at
    last,       \* last_seqnum
    reported,   \* the pairs of a command and an error reported at it
    ret         \* the value nft_netlink() returns

mvars == <<matched, pos, last, reported>>
bvars == <<cmds, check, seqnum, seqs, batch>>
vars  == <<stage, cmds, check, seqnum, seqs, batch, heard, answers, applied, sock,
           room, overrun, err_list, matched, pos, last, reported, ret>>

-----------------------------------------------------------------------------
BatchSeq == 0

Header(s)  == [seq |-> s, bare |-> TRUE]

(* Mutant: the sequence number is taken after the one of the command.      *)
MessageLate(c, s) == [seq |-> s + 1, bare |-> c \in Bare]

Message(c, s) == [seq |-> s, bare |-> c \in Bare]

Init == /\ stage = "idle"
        /\ cmds = <<>> /\ check = FALSE
        /\ seqnum = 0 /\ seqs = <<>> /\ batch = <<>>
        /\ heard = 0 /\ answers = <<>> /\ applied = FALSE
        /\ sock = <<>> /\ room = DefaultRoom /\ overrun = FALSE
        /\ err_list = <<>>
        /\ matched = 0 /\ pos = 1 /\ last = UINT32_MAX /\ reported = {}
        /\ ret = 0

(* nft_netlink() is called: it opens the batch.                            *)
Begin(b, dry) ==
    /\ stage = "idle"
    /\ cmds' = b
    /\ check' = dry
    /\ seqs' = <<>>
    /\ heard' = 0 /\ answers' = <<>> /\ applied' = FALSE
    /\ err_list' = <<>>
    /\ matched' = 0 /\ pos' = 1 /\ last' = UINT32_MAX /\ reported' = {}
    /\ ret' = 0
    /\ IF b = <<>> THEN stage' = "done" /\ seqnum' = 0 /\ batch' = <<>>
       ELSE stage' = "build" /\ seqnum' = BatchSeq + 1 /\ batch' = <<Header(BatchSeq)>>
    /\ UNCHANGED <<sock, room, overrun>>

(* do_command() of the next command.                                       *)
Build == /\ stage = "build"
         /\ Len(seqs) < Len(cmds)
         /\ LET c == cmds[Len(seqs) + 1]
            IN  /\ c \notin Failing
                /\ batch' = batch \o [j \in 1 .. MsgsOf[c] |-> Message(c, seqnum)]
         /\ seqs' = Append(seqs, seqnum)
         /\ seqnum' = seqnum + 1
         /\ UNCHANGED <<stage, cmds, check, heard, answers, applied, sock, room, overrun,
                        err_list, mvars, ret>>

Leave(r) == stage' = "done" /\ ret' = r

BuildFails == /\ stage = "build"
              /\ Len(seqs) < Len(cmds)
              /\ cmds[Len(seqs) + 1] \in Failing
              /\ Leave(1)
              /\ UNCHANGED <<bvars, heard, answers, applied, sock, room, overrun, err_list, mvars>>

(* Mutant: the end is left out.                                            *)
Endless == batch

(* The end of the batch, which a dry run leaves out.                       *)
Whole == IF check THEN batch ELSE Append(batch, Header(seqnum))

(* mnl_batch_ready(): the batch is as long as two bare messages.           *)
Ready == ~(Len(Whole) = 2 /\ \A i \in DOMAIN Whole : Whole[i].bare)

(* mnl_set_rcvbuffer(): a run that needs more room than the socket came    *)
(* with sets it, and it stays so; another does not.                        *)
SetRoom == room' = IF Len(cmds) * PerCmd > DefaultRoom THEN Len(cmds) * PerCmd ELSE room

Built == stage = "build" /\ Len(seqs) = Len(cmds)

Send == /\ Built
        /\ Ready
        /\ stage' = "kernel"
        /\ heard' = 1
        /\ answers' = <<>>
        /\ SetRoom
        /\ UNCHANGED <<bvars, applied, sock, overrun, err_list, mvars, ret>>

(* nfnetlink, not part of this repository, reads the next message and does *)
(* what it says or refuses it, and goes on to the next.                    *)
Kernel(refused) ==
    /\ stage = "kernel"
    /\ heard < Len(batch)
    /\ heard' = heard + 1
    /\ answers' = IF refused THEN Append(answers, batch[heard + 1].seq) ELSE answers
    /\ UNCHANGED <<stage, bvars, applied, sock, room, overrun, err_list, mvars, ret>>

(* It has read them all: it commits a batch that is whole and without an   *)
(* error, and undoes any other.  What it has to say goes to the socket, or *)
(* to the winds.                                                           *)
Answer(all) == /\ sock' = IF Len(all) <= room THEN all ELSE SubSeq(all, 1, room)
               /\ overrun' = (overrun \/ Len(all) > room)
               /\ stage' = "recv"
               /\ UNCHANGED <<bvars, heard, answers, room, err_list, mvars, ret>>

KernelDone == /\ stage = "kernel"
              /\ heard = Len(batch)
              /\ applied' = (answers = <<>> /\ Len(Whole) > Len(batch))
              /\ Answer(sock \o answers)

(* It refuses the batch as a whole.                                        *)
KernelRefuses == /\ stage = "kernel"
                 /\ applied' = FALSE
                 /\ Answer(Append(sock, BatchSeq))

NotSent == /\ Built
           /\ ~Ready
           /\ Leave(0)
           /\ UNCHANGED <<bvars, heard, answers, applied, sock, room, overrun, err_list, mvars>>

SendFails == /\ Built
             /\ Ready
             /\ SetRoom
             /\ Leave(1)
             /\ UNCHANGED <<bvars, heard, answers, applied, sock, overrun, err_list, mvars>>

(* The loop of mnl_batch_talk(): recvfrom() fails once after an overrun,   *)
(* otherwise it takes one answer.                                          *)
Receive == /\ stage = "recv"
           /\ ~overrun
           /\ sock # <<>>
           /\ err_list' = Append(err_list, Head(sock))
           /\ sock' = Tail(sock)
           /\ UNCHANGED <<stage, bvars, heard, answers, applied, room, overrun, mvars, ret>>

ReceiveFails == /\ stage = "recv"
                /\ overrun
                /\ overrun' = FALSE
                /\ Leave(1)
                /\ UNCHANGED <<bvars, heard, answers, applied, sock, room, err_list, mvars>>

(* Mutant: the first error ends the loop.                                  *)
ReceiveOne == /\ stage = "recv"
              /\ ~overrun
              /\ sock = <<>> \/ err_list # <<>>
              /\ stage' = "match"
              /\ ret' = IF err_list = <<>> THEN 0 ELSE 1
              /\ UNCHANGED <<bvars, heard, answers, applied, sock, room, overrun, err_list, mvars>>

ReceiveDone == /\ stage = "recv"
               /\ ~overrun
               /\ sock = <<>>
               /\ stage' = "match"
               /\ ret' = IF err_list = <<>> THEN 0 ELSE 1
               /\ UNCHANGED <<bvars, heard, answers, applied, sock, room, overrun, err_list, mvars>>

(* The command a lookup starts at: the one the last lookup ended at, or,   *)
(* when the sequence number is a lower one, the first.  Mutants: the one   *)
(* behind it; never the first.                                             *)
StartBehind(seq) == IF seq < last THEN 1 ELSE pos + 1
StartNoRewind(seq) == IF last = UINT32_MAX THEN 1 ELSE pos

Start(seq) == IF seq < last THEN 1 ELSE pos

(* One turn of the loop over the errors.  An error about the whole batch   *)
(* is reported at every command; after one that is nobody's the next       *)
(* lookup starts over.                                                     *)
Match ==
    /\ stage = "match"
    /\ matched < Len(err_list)
    /\ matched' = matched + 1
    /\ LET seq   == err_list[matched + 1]
           hits  == {i \in Start(seq) .. Len(cmds) : seqs[i] = seq}
       IN  IF seq # BatchSeq /\ hits # {}
           THEN LET i == CHOOSE h \in hits : \A g \in hits : h <= g
                IN  /\ pos' = i
                    /\ last' = seqs[i]
                    /\ reported' = reported \cup {<<i, matched + 1>>}
           ELSE /\ pos' = Len(cmds) + 1
                /\ last' = UINT32_MAX
                /\ reported' = reported \cup
                      {<<i, matched + 1>> :
                         i \in IF seq = BatchSeq THEN Start(seq) .. Len(cmds) ELSE {}}
    /\ UNCHANGED <<stage, bvars, heard, answers, applied, sock, room, overrun, err_list, ret>>

MatchDone == /\ stage = "match"
             /\ matched = Len(err_list)
             /\ stage' = "done"
             /\ UNCHANGED <<bvars, heard, answers, applied, sock, room, overrun, err_list, mvars, ret>>

Return == /\ stage = "done"
          /\ stage' = "idle"
          /\ UNCHANGED <<bvars, heard, answers, applied, sock, room, overrun, err_list, mvars, ret>>

(* A request of a later cache_update() takes a stale answer for its own.   *)
Stale == /\ stage = "idle"
         /\ sock # <<>>
         /\ sock' = Tail(sock)
         /\ UNCHANGED <<stage, bvars, heard, answers, applied, room, overrun, err_list, mvars, ret>>

Next == \/ \E b \in Batches, dry \in DryRuns : Begin(b, dry)
        \/ Build
        \/ BuildFails
        \/ Send
        \/ \E refused \in BOOLEAN : Kernel(refused)
        \/ KernelDone
        \/ KernelRefuses
        \/ NotSent
        \/ SendFails
        \/ Receive
        \/ ReceiveFails
        \/ ReceiveDone
        \/ Match
        \/ MatchDone
        \/ Return
        \/ Stale

Spec == Init /\ [][Next]_vars

-----------------------------------------------------------------------------
(* Properties.                                                             *)

(* The variables hold what their C types and the code around them allow.   *)
Seqnums  == 0 .. Len(cmds)
Messages == [seq : Seqnums, bare : BOOLEAN]

TypeOK ==
    /\ stage \in {"idle", "build", "kernel", "recv", "match", "done"}
    /\ cmds \in Batches \cup {<<>>}
    /\ heard \in 0 .. Len(batch)
    /\ answers \in Seq(Seqnums)
    /\ check \in BOOLEAN
    /\ applied \in BOOLEAN /\ overrun \in BOOLEAN /\ room \in Nat
    /\ seqnum \in 0 .. Len(cmds) + 1
    /\ seqs \in Seq(Nat) /\ Len(seqs) <= Len(cmds)
    /\ batch \in Seq(Messages)
    /\ sock \in Seq(Nat) /\ err_list \in Seq(Nat)
    /\ matched \in 0 .. Len(err_list)
    /\ pos \in 1 .. Len(cmds) + 1
    /\ last \in {UINT32_MAX} \cup Seqnums
    /\ reported \subseteq (1 .. Len(cmds)) \X (1 .. Len(err_list))
    /\ ret \in {0, 1}

(* libnftables.c:67-91: whatever order the errors come in and however many *)
(* a command has, each one received is reported at the command whose       *)
(* sequence number it carries and at no other, and an error of the batch   *)
(* at every command.                                                       *)
ErrorsReported ==
    stage = "done" /\ matched = Len(err_list)
        => reported = {p \in (1 .. Len(cmds)) \X (1 .. Len(err_list)) :
                          err_list[p[2]] \in {seqs[p[1]], BatchSeq}}

(* A run that fails has changed nothing, and one that succeeds, when it is *)
(* not a dry run, has changed all it was asked to.                         *)
AllOrNothing ==
    stage = "done" => /\ ret = 1 => ~applied
                      /\ ret = 0 /\ ~check /\ Len(batch) > 1 => applied

(* mnl.c:428: "make sure we get all acknowledgments"; what is left in the  *)
(* socket would be taken for answers to later requests.                    *)
AllAcknowledged == stage = "done" => sock = <<>>
=============================================================================
