---------------------------- MODULE Presence_proofs ----------------------------
(***************************************************************************)
(* Presence, for any set of craftsmen, any number of handlers and crashes: *)
(* the types, that the index and the category keys agree, and that only    *)
(* craftsmen who may take work are found.                                  *)
(*                                                                         *)
(* The argument is the order of the one Redis connection.  A location ping *)
(* that read the category key before a removal deleted it is answered      *)
(* before that removal is (Ahead), so the position it writes back falls    *)
(* inside the removal and the craftsman counts as raced.  With no such     *)
(* race, a removal has taken out what its replies say it has (Left), and   *)
(* the only entries under another category than the key's are those left   *)
(* behind by a second go-online (Covered).                                 *)
(***************************************************************************)
EXTENDS Presence, SequenceTheorems, TLAPS

H == Craftsmen \X Ops
PING == "craftsman:location"

\* The awaits that end with a reply of Redis.
Waiting == {"found", "missing", "removed", "deleted", "indexed"}

\* Which awaits the handler of an entry point goes through.
Steps(op) ==
  CASE op \in OfflineOps -> {"idle", "lookup", "found", "missing", "removed", "deleted", "flag"}
    [] op \in OnlineOps  -> {"idle", "profile", "district", "indexed", "flag"}
    [] OTHER             -> {"idle", "found", "missing", "indexed"}

Shape == \A k \in Craftsmen : \A op \in Ops : pc[k][op] \in Steps(op)

\* Each handler that waits for a reply is in the pipeline once.
Pipe ==
  /\ \A i \in 1 .. Len(pipeline) : pc[pipeline[i][1]][pipeline[i][2]] \in Waiting
  /\ \A i, j \in 1 .. Len(pipeline) : pipeline[i] = pipeline[j] => i = j

\* A removal of k whose last reply comes after the i-th.
DeletedAfter(k, i) ==
  \E op \in OfflineOps : \E j \in (i + 1) .. Len(pipeline) :
    pipeline[j] = <<k, op>> /\ pc[k][op] = "deleted"

\* An entry of k under c would be the key's, one left behind, or from a race.
Covered(k, c) == key[k] = c \/ <<k, c>> \in leftBehind \/ k \in raced

WillBeCovered(k, c) == key'[k] = c \/ <<k, c>> \in leftBehind' \/ k \in raced'

\* A step after which that is still so, for every entry.
KeepsCovered ==
  \A k \in Craftsmen : \A c \in Categories : Covered(k, c) => WillBeCovered(k, c)

\* A ping that found the key is answered before a removal that deletes it.
Ahead ==
  \A k \in Craftsmen : \A i \in 1 .. Len(pipeline) :
    pipeline[i] = <<k, PING>> /\ pc[k][PING] = "found" =>
      /\ held[k][PING] \in Categories
      /\ Covered(k, held[k][PING]) \/ DeletedAfter(k, i)

\* k is in no index but one left behind.
Out(k) == \A c \in Categories : <<k, c>> \in geo => <<k, c>> \in leftBehind

\* What a removal nobody interfered with has taken out at each await.
Left ==
  \A k \in Craftsmen \ raced : \A op \in OfflineOps :
    /\ pc[k][op] = "found" => held[k][op] \in Categories /\ key[k] \in {held[k][op], NoCategory}
    /\ pc[k][op] \in {"missing", "removed", "deleted", "flag"} => Out(k)
    /\ pc[k][op] \in {"missing", "deleted", "flag"} => ~Online(k)

\* A go-online that is past its check was allowed, and is still, but for a race.
Checked ==
  /\ \A k \in Craftsmen : CategoryOf[k] \in Regulated =>
       \A op \in Ops : pc[k][op] \in {"district", "found"} => verified[k]
  /\ \A k \in Craftsmen \ raced : \A op \in Ops : pc[k][op] = "district" => active[k]

IInv == /\ TypeOK /\ Shape /\ Pipe /\ Ahead /\ Left /\ Checked
        /\ IndexMatchesKey /\ OnlyEligibleAreFound

USE DEF IInv, FindNearest, GetPresence, Online, redisVars, historyVars

-----------------------------------------------------------------------------
(* The pipeline. *)

\* One handler's await changes, nobody else's.
Moved(k, op, await) ==
  /\ pc' \in [Craftsmen -> [Ops -> Awaits]]
  /\ pc'[k][op] = await
  /\ \A l \in Craftsmen : \A o \in Ops : l # k \/ o # op => pc'[l][o] = pc[l][o]

LEMMA PingIsAnOp == PING \in Ops
BY DEF PING, Ops

LEMMA GotoMoves ==
  ASSUME TypeOK, NEW k \in Craftsmen, NEW op \in Ops, NEW await \in Awaits,
         Goto(k, op, await)
  PROVE  Moved(k, op, await)
BY DEF TypeOK, Goto, Moved

\* Only this handler's category changes.
HeldByOthers(k, op) ==
  /\ held' \in [Craftsmen -> [Ops -> Categories \cup {NoCategory}]]
  /\ \A l \in Craftsmen : \A o \in Ops : l # k \/ o # op => held'[l][o] = held[l][o]

LEMMA HeldChanges ==
  ASSUME TypeOK, NEW k \in Craftsmen, NEW op \in Ops, NEW c \in Categories \cup {NoCategory},
         held' = [held EXCEPT ![k][op] = c]
  PROVE  HeldByOthers(k, op) /\ held'[k][op] = c
BY DEF TypeOK, HeldByOthers

LEMMA Sent ==
  ASSUME TypeOK, NEW h \in H, pipeline' = Append(pipeline, h)
  PROVE  /\ pipeline' \in Seq(H) /\ Len(pipeline') = Len(pipeline) + 1
         /\ Len(pipeline) \in Nat
         /\ pipeline'[Len(pipeline) + 1] = h
         /\ \A i \in 1 .. Len(pipeline) : pipeline'[i] = pipeline[i]
<1>1. pipeline \in Seq(H)
  BY DEF TypeOK, H
<1> QED BY <1>1, AppendProperties, LenProperties

LEMMA Answered ==
  ASSUME TypeOK, pipeline # <<>>, pipeline' = Tail(pipeline)
  PROVE  /\ pipeline' \in Seq(H) /\ Len(pipeline') = Len(pipeline) - 1
         /\ Len(pipeline) \in Nat \ {0} /\ Head(pipeline) = pipeline[1]
         /\ \A i \in 1 .. Len(pipeline') : pipeline'[i] = pipeline[i + 1]
<1>1. pipeline \in Seq(H)
  BY DEF TypeOK, H
<1> QED BY <1>1, HeadTailProperties, EmptySeq, LenProperties

LEMMA HeadIsFirst ==
  ASSUME TypeOK, pipeline # <<>>
  PROVE  Head(pipeline) = pipeline[1] /\ 1 \in 1 .. Len(pipeline)
<1>1. pipeline \in Seq(H)
  BY DEF TypeOK, H
<1> QED BY <1>1, HeadTailProperties, EmptySeq, LenProperties

LEMMA AnsweredAndSent ==
  ASSUME TypeOK, pipeline # <<>>, NEW h \in H, pipeline' = Append(Tail(pipeline), h)
  PROVE  /\ pipeline' \in Seq(H) /\ Len(pipeline') = Len(pipeline)
         /\ Len(pipeline) \in Nat \ {0} /\ Head(pipeline) = pipeline[1]
         /\ pipeline'[Len(pipeline)] = h
         /\ \A i \in 1 .. Len(pipeline) - 1 : pipeline'[i] = pipeline[i + 1]
<1>1. pipeline \in Seq(H)
  BY DEF TypeOK, H
<1>2. /\ Tail(pipeline) \in Seq(H) /\ Len(Tail(pipeline)) = Len(pipeline) - 1
      /\ Len(pipeline) \in Nat \ {0} /\ Head(pipeline) = pipeline[1]
      /\ \A i \in 1 .. Len(pipeline) - 1 : Tail(pipeline)[i] = pipeline[i + 1]
  BY <1>1, HeadTailProperties, EmptySeq, LenProperties
<1> QED BY <1>2, AppendProperties

\* Every entry of the pipeline is a handler.
LEMMA Entries ==
  ASSUME TypeOK, NEW i \in 1 .. Len(pipeline)
  PROVE  /\ pipeline[i] \in H /\ pipeline[i] = <<pipeline[i][1], pipeline[i][2]>>
         /\ pipeline[i][1] \in Craftsmen /\ pipeline[i][2] \in Ops
<1>1. pipeline \in Seq(Craftsmen \X Ops)
  BY DEF TypeOK
<1>2. pipeline[i] \in Craftsmen \X Ops
  BY <1>1
<1> QED BY <1>2 DEF H

\* A handler that waits for nothing moves: the pipeline does not.
LEMMA PipeAfterGoto ==
  ASSUME TypeOK, Pipe, Ahead, NEW k \in Craftsmen, NEW op \in Ops, NEW await \in Awaits,
         pc[k][op] \notin Waiting, await # "found", Moved(k, op, await),
         UNCHANGED pipeline, HeldByOthers(k, op), KeepsCovered
  PROVE  Pipe' /\ Ahead'
<1>1. \A i \in 1 .. Len(pipeline) : pipeline[i] # <<k, op>>
  BY DEF Pipe
<1>2. \A i \in 1 .. Len(pipeline) :
        pc'[pipeline[i][1]][pipeline[i][2]] = pc[pipeline[i][1]][pipeline[i][2]]
  BY <1>1, Entries DEF Moved
<1>3. Pipe'
  BY <1>2 DEF Pipe
<1>4. Ahead'
  <2> SUFFICES ASSUME NEW l \in Craftsmen, NEW i \in 1 .. Len(pipeline),
                      pipeline[i] = <<l, PING>>, pc'[l][PING] = "found"
               PROVE  /\ held'[l][PING] \in Categories
                      /\ Covered(l, held[l][PING])' \/ DeletedAfter(l, i)'
    BY DEF Ahead
  <2>1. pc[l][PING] = "found" /\ held'[l][PING] = held[l][PING]
    BY <1>2, PingIsAnOp DEF Moved, HeldByOthers
  <2>a. SUFFICES ASSUME ~Covered(l, held[l][PING])
                 PROVE  DeletedAfter(l, i)'
    BY <2>1 DEF Ahead, KeepsCovered, Covered, WillBeCovered
  <2>2. PICK o \in OfflineOps : \E j \in (i + 1) .. Len(pipeline) :
          pipeline[j] = <<l, o>> /\ pc[l][o] = "deleted"
    BY <2>1, <2>a DEF Ahead, DeletedAfter
  <2>2a. PICK j \in (i + 1) .. Len(pipeline) :
          pipeline[j] = <<l, o>> /\ pc[l][o] = "deleted"
    BY <2>2
  <2>3. j \in 1 .. Len(pipeline)
    OBVIOUS
  <2> QED BY <1>2, <2>2a, <2>3 DEF DeletedAfter
<1> QED BY <1>3, <1>4

\* A command is sent by a handler that was waiting for nothing.
LEMMA PipeAfterSend ==
  ASSUME TypeOK, Pipe, Ahead, NEW k \in Craftsmen, NEW op \in Ops, NEW await \in Waiting,
         pc[k][op] \notin Waiting, Moved(k, op, await),
         pipeline' = Append(pipeline, <<k, op>>), HeldByOthers(k, op), KeepsCovered,
         op = PING /\ await = "found" =>
           held'[k][op] \in Categories /\ key'[k] = held'[k][op]
  PROVE  Pipe' /\ Ahead'
<1> DEFINE n == Len(pipeline)
<1>0. /\ Len(pipeline') = n + 1 /\ n \in Nat /\ pipeline'[n + 1] = <<k, op>>
      /\ \A i \in 1 .. n : pipeline'[i] = pipeline[i]
  BY Sent DEF H
<1>1. \A i \in 1 .. n : pipeline[i] # <<k, op>>
  BY DEF Pipe
<1>2. \A i \in 1 .. n :
        pc'[pipeline[i][1]][pipeline[i][2]] = pc[pipeline[i][1]][pipeline[i][2]]
  BY <1>1, Entries DEF Moved
<1> HIDE DEF n
<1>3. Pipe'
  <2>1. \A i \in 1 .. n + 1 : pc'[pipeline'[i][1]][pipeline'[i][2]] \in Waiting
    <3> SUFFICES ASSUME NEW i \in 1 .. n + 1
                 PROVE  pc'[pipeline'[i][1]][pipeline'[i][2]] \in Waiting
      OBVIOUS
    <3>1. CASE i = n + 1
      BY <1>0, <3>1 DEF Moved
    <3>2. CASE i # n + 1
      <4>1. i \in 1 .. n
        BY <1>0, <3>2
      <4> QED BY <1>0, <1>2, <4>1 DEF Pipe, n
    <3> QED BY <3>1, <3>2
  <2>2. \A i, j \in 1 .. n + 1 : pipeline'[i] = pipeline'[j] => i = j
    <3> SUFFICES ASSUME NEW i \in 1 .. n + 1, NEW j \in 1 .. n + 1,
                        pipeline'[i] = pipeline'[j]
                 PROVE  i = j
      OBVIOUS
    <3>1. CASE i = n + 1 \/ j = n + 1
      BY <1>0, <1>1, <3>1
    <3>2. CASE i # n + 1 /\ j # n + 1
      <4>1. i \in 1 .. n /\ j \in 1 .. n
        BY <1>0, <3>2
      <4> QED BY <1>0, <4>1 DEF Pipe, n
    <3> QED BY <3>1, <3>2
  <2> QED BY <1>0, <2>1, <2>2 DEF Pipe
<1>4. Ahead'
  <2> SUFFICES ASSUME NEW l \in Craftsmen, NEW i \in 1 .. n + 1,
                      pipeline'[i] = <<l, PING>>, pc'[l][PING] = "found"
               PROVE  /\ held'[l][PING] \in Categories
                      /\ Covered(l, held[l][PING])' \/ DeletedAfter(l, i)'
    BY <1>0 DEF Ahead
  <2>0. CASE i = n + 1
    <3>1. l = k /\ op = PING /\ await = "found"
      BY <1>0, <2>0 DEF Moved
    <3> QED BY <3>1 DEF Covered
  <2>1. SUFFICES ASSUME i \in 1 .. n
                 PROVE  /\ held'[l][PING] \in Categories
                        /\ Covered(l, held[l][PING])' \/ DeletedAfter(l, i)'
    BY <1>0, <2>0
  <2>2. pipeline[i] = <<l, PING>> /\ pc[l][PING] = "found" /\ <<l, PING>> # <<k, op>>
    BY <1>0, <1>1, <1>2, <2>1
  <2>b. held'[l][PING] = held[l][PING]
    BY <2>2, PingIsAnOp DEF HeldByOthers
  <2>a. SUFFICES ASSUME ~Covered(l, held[l][PING])
                 PROVE  DeletedAfter(l, i)'
    BY <2>1, <2>2, <2>b DEF Ahead, KeepsCovered, Covered, WillBeCovered, n
  <2>3. PICK o \in OfflineOps : \E j \in (i + 1) .. n :
          pipeline[j] = <<l, o>> /\ pc[l][o] = "deleted"
    BY <2>1, <2>2, <2>a DEF Ahead, DeletedAfter, n
  <2>3a. PICK j \in (i + 1) .. n :
          pipeline[j] = <<l, o>> /\ pc[l][o] = "deleted"
    BY <2>3
  <2>4. j \in 1 .. n /\ j \in (i + 1) .. n + 1
    BY <1>0
  <2> QED BY <1>0, <1>2, <2>3a, <2>4 DEF DeletedAfter
<1> QED BY <1>3, <1>4

\* A reply ends a wait.
LEMMA PipeAfterResume ==
  ASSUME TypeOK, Pipe, Ahead, NEW k \in Craftsmen, NEW op \in Ops, NEW await \in Awaits,
         pipeline # <<>>, Head(pipeline) = <<k, op>>, Moved(k, op, await),
         pipeline' = Tail(pipeline), HeldByOthers(k, op), KeepsCovered
  PROVE  Pipe' /\ Ahead'
<1> DEFINE n == Len(pipeline)
<1>0. /\ Len(pipeline') = n - 1 /\ n \in Nat \ {0} /\ pipeline[1] = <<k, op>>
      /\ \A i \in 1 .. n - 1 : pipeline'[i] = pipeline[i + 1]
  BY Answered
<1>1. \A i \in 2 .. n : pipeline[i] # <<k, op>>
  BY <1>0 DEF Pipe
<1>2. \A i \in 2 .. n :
        pc'[pipeline[i][1]][pipeline[i][2]] = pc[pipeline[i][1]][pipeline[i][2]]
  BY <1>1, Entries DEF Moved
<1> HIDE DEF n
<1>3. Pipe'
  <2>1. \A i \in 1 .. n - 1 : pc'[pipeline'[i][1]][pipeline'[i][2]] \in Waiting
    <3> SUFFICES ASSUME NEW i \in 1 .. n - 1
                 PROVE  pc'[pipeline'[i][1]][pipeline'[i][2]] \in Waiting
      OBVIOUS
    <3>1. i + 1 \in 1 .. n /\ i + 1 \in 2 .. n
      BY <1>0
    <3> QED BY <1>0, <1>2, <3>1 DEF Pipe, n
  <2>2. \A i, j \in 1 .. n - 1 : pipeline'[i] = pipeline'[j] => i = j
    <3> SUFFICES ASSUME NEW i \in 1 .. n - 1, NEW j \in 1 .. n - 1,
                        pipeline'[i] = pipeline'[j]
                 PROVE  i = j
      OBVIOUS
    <3>1. i + 1 \in 1 .. n /\ j + 1 \in 1 .. n
      BY <1>0
    <3>2. i + 1 = j + 1
      BY <1>0, <3>1 DEF Pipe, n
    <3> QED BY <3>2
  <2> QED BY <1>0, <2>1, <2>2 DEF Pipe
<1>4. Ahead'
  <2> SUFFICES ASSUME NEW l \in Craftsmen, NEW i \in 1 .. n - 1,
                      pipeline'[i] = <<l, PING>>, pc'[l][PING] = "found"
               PROVE  /\ held'[l][PING] \in Categories
                      /\ Covered(l, held[l][PING])' \/ DeletedAfter(l, i)'
    BY <1>0 DEF Ahead
  <2>1. i + 1 \in 1 .. n /\ i + 1 \in 2 .. n
    BY <1>0
  <2>2. pipeline[i + 1] = <<l, PING>> /\ pc[l][PING] = "found" /\ <<l, PING>> # <<k, op>>
    BY <1>0, <1>1, <1>2, <2>1
  <2>c. held'[l][PING] = held[l][PING]
    BY <2>2, PingIsAnOp DEF HeldByOthers
  <2>a. SUFFICES ASSUME ~Covered(l, held[l][PING])
                 PROVE  DeletedAfter(l, i)'
    BY <2>1, <2>2, <2>c DEF Ahead, KeepsCovered, Covered, WillBeCovered, n
  <2>b. DeletedAfter(l, i + 1)
    BY <2>1, <2>2, <2>a DEF Ahead, n
  <2>3. PICK o \in OfflineOps : \E j \in ((i + 1) + 1) .. n :
          pipeline[j] = <<l, o>> /\ pc[l][o] = "deleted"
    BY <2>b DEF DeletedAfter, n
  <2>3a. PICK j \in ((i + 1) + 1) .. n :
          pipeline[j] = <<l, o>> /\ pc[l][o] = "deleted"
    BY <2>3
  <2>4. j \in 2 .. n /\ j - 1 \in 1 .. n - 1 /\ j - 1 \in (i + 1) .. n - 1 /\ (j - 1) + 1 = j
    BY <1>0
  <2>5. pipeline'[j - 1] = <<l, o>>
    BY <1>0, <2>3a, <2>4
  <2>6. pc'[l][o] = "deleted"
    BY <1>2, <2>3a, <2>4
  <2> QED BY <1>0, <2>4, <2>5, <2>6 DEF DeletedAfter
<1> QED BY <1>3, <1>4

\* A reply ends one wait and starts another; only a DEL takes a key away.
LEMMA PipeAfterSendNext ==
  ASSUME TypeOK, Pipe, Ahead, NEW k \in Craftsmen, NEW op \in Ops,
         NEW await \in Waiting \ {"found"},
         pipeline # <<>>, Head(pipeline) = <<k, op>>, Moved(k, op, await),
         pipeline' = Append(Tail(pipeline), <<k, op>>),
         HeldByOthers(k, op),
         \A l \in Craftsmen : \A c \in Categories : Covered(l, c) =>
           Covered(l, c)' \/ (l = k /\ op \in OfflineOps /\ await = "deleted")
  PROVE  Pipe' /\ Ahead'
<1> DEFINE n == Len(pipeline)
<1>0. /\ Len(pipeline') = n /\ n \in Nat \ {0} /\ pipeline[1] = <<k, op>>
      /\ pipeline'[n] = <<k, op>>
      /\ \A i \in 1 .. n - 1 : pipeline'[i] = pipeline[i + 1]
  BY AnsweredAndSent DEF H
<1>1. \A i \in 2 .. n : pipeline[i] # <<k, op>>
  BY <1>0 DEF Pipe
<1>2. \A i \in 2 .. n :
        pc'[pipeline[i][1]][pipeline[i][2]] = pc[pipeline[i][1]][pipeline[i][2]]
  BY <1>1, Entries DEF Moved
<1> HIDE DEF n
<1>3. Pipe'
  <2>1. \A i \in 1 .. n : pc'[pipeline'[i][1]][pipeline'[i][2]] \in Waiting
    <3> SUFFICES ASSUME NEW i \in 1 .. n
                 PROVE  pc'[pipeline'[i][1]][pipeline'[i][2]] \in Waiting
      OBVIOUS
    <3>1. CASE i = n
      BY <1>0, <3>1 DEF Moved
    <3>2. CASE i # n
      <4>1. i \in 1 .. n - 1 /\ i + 1 \in 1 .. n /\ i + 1 \in 2 .. n
        BY <1>0, <3>2
      <4> QED BY <1>0, <1>2, <4>1 DEF Pipe, n
    <3> QED BY <3>1, <3>2
  <2>2. \A i, j \in 1 .. n : pipeline'[i] = pipeline'[j] => i = j
    <3> SUFFICES ASSUME NEW i \in 1 .. n, NEW j \in 1 .. n, pipeline'[i] = pipeline'[j]
                 PROVE  i = j
      OBVIOUS
    <3>1. CASE i = n /\ j = n
      BY <3>1
    <3>2. CASE i # n /\ j # n
      <4>1. /\ i \in 1 .. n - 1 /\ j \in 1 .. n - 1
            /\ i + 1 \in 1 .. n /\ j + 1 \in 1 .. n
        BY <1>0, <3>2
      <4>2. i + 1 = j + 1
        BY <1>0, <4>1 DEF Pipe, n
      <4> QED BY <4>2
    <3>3. CASE i # n /\ j = n
      <4>1. i \in 1 .. n - 1 /\ i + 1 \in 2 .. n
        BY <1>0, <3>3
      <4> QED BY <1>0, <1>1, <3>3, <4>1
    <3>4. CASE i = n /\ j # n
      <4>1. j \in 1 .. n - 1 /\ j + 1 \in 2 .. n
        BY <1>0, <3>4
      <4> QED BY <1>0, <1>1, <3>4, <4>1
    <3> QED BY <3>1, <3>2, <3>3, <3>4
  <2> QED BY <1>0, <2>1, <2>2 DEF Pipe
<1>4. Ahead'
  <2> SUFFICES ASSUME NEW l \in Craftsmen, NEW i \in 1 .. n,
                      pipeline'[i] = <<l, PING>>, pc'[l][PING] = "found"
               PROVE  /\ held'[l][PING] \in Categories
                      /\ Covered(l, held[l][PING])' \/ DeletedAfter(l, i)'
    BY <1>0 DEF Ahead
  <2>1. i \in 1 .. n - 1 /\ i + 1 \in 1 .. n /\ i + 1 \in 2 .. n
    <3>1. i # n
      BY <1>0 DEF Moved
    <3> QED BY <1>0, <3>1
  <2>2. pipeline[i + 1] = <<l, PING>> /\ pc[l][PING] = "found" /\ <<l, PING>> # <<k, op>>
    BY <1>0, <1>1, <1>2, <2>1
  <2>c. held'[l][PING] = held[l][PING]
    BY <2>2, PingIsAnOp DEF HeldByOthers
  <2>d. held[l][PING] \in Categories
    BY <2>1, <2>2 DEF Ahead, n
  <2>a. SUFFICES ASSUME ~Covered(l, held[l][PING])'
                 PROVE  DeletedAfter(l, i)'
    BY <2>c, <2>d
  <2>3. CASE Covered(l, held[l][PING])
    <3>1. l = k /\ op \in OfflineOps /\ await = "deleted"
      BY <2>3, <2>c, <2>d, <2>a DEF Covered
    <3>2. n \in (i + 1) .. n /\ pipeline'[n] = <<l, op>> /\ pc'[l][op] = "deleted"
      BY <1>0, <2>1, <3>1 DEF Moved
    <3> QED BY <1>0, <3>1, <3>2 DEF DeletedAfter
  <2>4. CASE ~Covered(l, held[l][PING])
    <3>1. DeletedAfter(l, i + 1)
      BY <2>1, <2>2, <2>4 DEF Ahead, n
    <3>2. PICK o \in OfflineOps : \E j \in ((i + 1) + 1) .. n :
            pipeline[j] = <<l, o>> /\ pc[l][o] = "deleted"
      BY <3>1 DEF DeletedAfter, n
    <3>3. PICK j \in ((i + 1) + 1) .. n : pipeline[j] = <<l, o>> /\ pc[l][o] = "deleted"
      BY <3>2
    <3>4. j \in 2 .. n /\ j - 1 \in 1 .. n - 1 /\ j - 1 \in (i + 1) .. n /\ (j - 1) + 1 = j
      BY <1>0, <2>1
    <3>5. pipeline'[j - 1] = <<l, o>> /\ pc'[l][o] = "deleted"
      BY <1>0, <1>2, <3>3, <3>4
    <3> QED BY <1>0, <3>4, <3>5 DEF DeletedAfter
  <2> QED BY <2>3, <2>4
<1> QED BY <1>3, <1>4

-----------------------------------------------------------------------------
(* What is found. *)

\* No entry point is of two kinds.
LEMMA OpsApart ==
  /\ OnlineOps \subseteq Ops /\ OfflineOps \subseteq Ops /\ PING \in Ops
  /\ OnlineOps \cap OfflineOps = {} /\ PING \notin OnlineOps \cup OfflineOps
  /\ \A op \in Ops : op \in OnlineOps \/ op \in OfflineOps \/ op = PING
  /\ "deactivate" \in OfflineOps
BY DEF Ops, OnlineOps, OfflineOps, PING

Found == Shape /\ Left /\ Checked /\ IndexMatchesKey /\ OnlyEligibleAreFound

\* A handler goes on without touching Redis, the profile or raced: it need only
\* deserve the await it goes to, and not leave a removal halfway.
LEMMA QuietStep ==
  ASSUME PresenceConstants, IInv, NEW k \in Craftsmen, NEW op \in Ops, NEW await \in Steps(op),
         Moved(k, op, await), HeldByOthers(k, op),
         UNCHANGED <<active, verified, geo, key, raced, leftBehind, crashes>>,
         op \in OfflineOps /\ await = "missing" /\ k \notin raced => Out(k) /\ ~Online(k),
         await = "removed" => FALSE,
         await = "deleted" => FALSE,
         await = "found" => Online(k) /\ held'[k][op] = key[k] /\ key[k] \in Categories,
         await = "district" => MayGoOnline(k),
         pc[k][op] # "removed",
         op \in OfflineOps /\ pc[k][op] # "idle" =>
            /\ await = "idle" => pc[k][op] \in {"deleted", "flag"}
            /\ await = "flag" => pc[k][op] = "deleted",
         op \in OfflineOps /\ await = "flag" => pc[k][op] # "idle"
  PROVE  Found'
<1>1. Shape'
  BY DEF Shape, Moved
<1>2. Left'
  <2> SUFFICES ASSUME NEW l \in Craftsmen \ raced, NEW o \in OfflineOps
               PROVE  /\ pc'[l][o] = "found" => /\ held'[l][o] \in Categories
                                               /\ key[l] \in {held'[l][o], NoCategory}
                      /\ pc'[l][o] \in {"missing", "removed", "deleted", "flag"} => Out(l)
                      /\ pc'[l][o] \in {"missing", "deleted", "flag"} => ~Online(l)
    BY DEF Left, Out
  <2>1. CASE l = k /\ o = op
    BY <2>1, OpsApart DEF Left, Moved
  <2>2. CASE l # k \/ o # op
    BY <2>2, OpsApart DEF Left, Moved, HeldByOthers
  <2> QED BY <2>1, <2>2
<1>3. Checked'
  BY DEF Checked, Moved, MayGoOnline, OnlyEligibleAreFound, PresenceConstants
<1>4. IndexMatchesKey'
  <2> SUFFICES ASSUME NEW l \in Craftsmen, NEW o \in OfflineOps, pc[l][o] = "removed"
               PROVE  pc'[l][o] = "removed"
    BY DEF IndexMatchesKey
  <2> QED BY OpsApart DEF Moved, TypeOK
<1>5. OnlyEligibleAreFound'
  <2> SUFFICES ASSUME NEW l \in Craftsmen \ raced, ~active[l], ~Removing(l)', Removing(l)
               PROVE  ~Online(l) /\ Out(l)
    BY DEF OnlyEligibleAreFound, Out
  <2>1. PICK o \in OfflineOps : pc[l][o] # "idle" /\ pc'[l][o] = "idle"
    BY DEF Removing
  <2>2. l = k /\ o = op /\ await = "idle"
    BY <2>1, OpsApart DEF Moved
  <2>3. pc[k][op] \in {"deleted", "flag"}
    BY <2>1, <2>2
  <2> QED BY <2>1, <2>2, <2>3 DEF Left
<1> QED BY <1>1, <1>2, <1>3, <1>4, <1>5 DEF Found

\* No craftsman, no handler, no presence: the initial state.
LEMMA InitIInv == ASSUME PresenceConstants, Init PROVE IInv
<1>1. \A k \in Craftsmen : \A op \in Ops : pc[k][op] = "idle"
  BY DEF Init
<1>2. TypeOK
  BY DEF PresenceConstants, Init, TypeOK, Awaits
<1>3. Shape
  BY <1>1, OpsApart DEF Shape, Steps
<1>4. Pipe /\ Ahead
  BY DEF Init, Pipe, Ahead, DeletedAfter
<1>5. Left /\ Checked
  BY <1>1, OpsApart DEF Left, Checked
<1>6. IndexMatchesKey /\ OnlyEligibleAreFound
  BY DEF Init, IndexMatchesKey, OnlyEligibleAreFound
<1> QED BY <1>2, <1>3, <1>4, <1>5, <1>6

\* A handler that was waiting for nothing begins or continues without Redis.
LEMMA GotoIInv ==
  ASSUME PresenceConstants, IInv, NEW k \in Craftsmen, NEW op \in Ops,
         \/ GoOnline(k, op) \/ ReadProfile(k, op) \/ DistrictClosed(k, op)
         \/ GoOffline(k, op) /\ op \in RestOps
  PROVE  IInv'
<1>1. PICK await \in Awaits :
        /\ Goto(k, op, await)
        /\ UNCHANGED <<accountVars, geo, key, held, pipeline, raced, leftBehind, crashes>>
        /\ pc[k][op] \in {"idle", "profile", "district"}
        /\ await \in Steps(op) /\ await \in {"idle", "profile", "district", "lookup"}
        /\ await = "district" => MayGoOnline(k)
        /\ op \in OfflineOps => pc[k][op] = "idle"
  <2>1. CASE GoOnline(k, op)
    BY <2>1, OpsApart DEF GoOnline, Awaits, Steps
  <2>2. CASE ReadProfile(k, op)
    <3>1. op \in OnlineOps
      BY <2>2, OpsApart DEF ReadProfile, Shape, Steps
    <3> QED BY <2>2, <3>1, OpsApart DEF ReadProfile, Awaits, Steps
  <2>3. CASE DistrictClosed(k, op)
    <3>1. op \in OnlineOps
      BY <2>3, OpsApart DEF DistrictClosed, Shape, Steps
    <3> QED BY <2>3, <3>1, OpsApart DEF DistrictClosed, Awaits, Steps
  <2>4. CASE GoOffline(k, op) /\ op \in RestOps
    BY <2>4, OpsApart DEF GoOffline, Awaits, Steps
  <2> QED BY <2>1, <2>2, <2>3, <2>4
<1>2. Moved(k, op, await)
  BY <1>1, GotoMoves
<1>a. HeldByOthers(k, op) /\ KeepsCovered
  BY <1>1 DEF HeldByOthers, KeepsCovered, Covered, WillBeCovered, TypeOK
<1>3. Pipe' /\ Ahead'
  BY <1>1, <1>2, <1>a, PipeAfterGoto DEF Waiting
<1>4. Found'
  BY <1>1, <1>2, <1>a, QuietStep DEF accountVars
<1>5. TypeOK'
  BY <1>1, <1>2 DEF TypeOK, accountVars, Moved
<1> QED BY <1>3, <1>4, <1>5 DEF Found

\* A ping, or a removal at its GET.
LEMMA GetIInv ==
  ASSUME PresenceConstants, IInv, NEW k \in Craftsmen, NEW op \in Ops,
         \/ op = PING /\ Ping(k)
         \/ GoOffline(k, op) /\ op \notin RestOps
         \/ LookUpCategory(k, op)
  PROVE  IInv'
<1> DEFINE await == IF key[k] # NoCategory THEN "found" ELSE "missing"
<1>1. /\ Goto(k, op, await) /\ pipeline' = Append(pipeline, <<k, op>>)
      /\ held' = [held EXCEPT ![k][op] = key[k]]
      /\ UNCHANGED <<accountVars, geo, key, raced, leftBehind, crashes>>
      /\ pc[k][op] \in {"idle", "lookup"}
      /\ op \in OfflineOps \/ op = PING
  <2>1. CASE op = PING /\ Ping(k)
    BY <2>1 DEF Ping, GetCategory, Send, PING
  <2>2. CASE GoOffline(k, op) /\ op \notin RestOps
    BY <2>2 DEF GoOffline, GetCategory, Send
  <2>3. CASE LookUpCategory(k, op)
    <3>1. op \in OfflineOps
      BY <2>3, OpsApart DEF LookUpCategory, Shape, Steps
    <3> QED BY <2>3, <3>1 DEF LookUpCategory, GetCategory, Send
  <2> QED BY <2>1, <2>2, <2>3
<1>2. await \in Awaits /\ await \in Waiting /\ await \in Steps(op)
  BY <1>1, OpsApart DEF Awaits, Waiting, Steps
<1>a. key[k] \in Categories \cup {NoCategory}
  BY DEF TypeOK
<1>d. held' = [held EXCEPT ![k][op] = key[k]]
  BY <1>1
<1>b. HeldByOthers(k, op) /\ held'[k][op] = key[k]
  BY <1>a, <1>d, HeldChanges
<1>c. KeepsCovered
  BY <1>1 DEF KeepsCovered, Covered, WillBeCovered
<1>3. await = "found" => Online(k) /\ held'[k][op] = key[k] /\ key[k] \in Categories
  BY <1>a, <1>b
<1>4. await = "missing" => ~Online(k)
  OBVIOUS
<1>5. await \in {"found", "missing"}
  OBVIOUS
<1> HIDE DEF await
<1>6. Moved(k, op, await)
  BY <1>1, <1>2, GotoMoves
<1>7. Pipe' /\ Ahead'
  BY <1>1, <1>2, <1>3, <1>6, <1>b, <1>c, PipeAfterSend DEF Waiting
<1>8. await = "missing" /\ k \notin raced => Out(k) /\ ~Online(k)
  BY <1>4 DEF IndexMatchesKey, Out, PresenceConstants
<1>9. Found'
  BY <1>1, <1>2, <1>3, <1>5, <1>6, <1>8, <1>b, QuietStep DEF accountVars
<1>10. TypeOK'
  BY <1>1, <1>6, <1>b, Sent DEF TypeOK, accountVars, Moved, HeldByOthers, H
<1> QED BY <1>7, <1>9, <1>10 DEF Found

\* The reply that ends a handler, or lets it go on to its database statement.
LEMMA ResumeIInv ==
  ASSUME PresenceConstants, IInv, NEW k \in Craftsmen, NEW op \in Ops,
         Indexed(k, op) \/ Deleted(k, op) \/ (op = PING /\ StrayPing(k))
  PROVE  IInv'
<1>1. PICK await \in {"idle", "flag"} :
        /\ Goto(k, op, await) /\ pipeline' = Tail(pipeline)
        /\ pipeline # <<>> /\ Head(pipeline) = <<k, op>>
        /\ UNCHANGED <<accountVars, geo, key, held, raced, leftBehind, crashes>>
        /\ pc[k][op] \in {"indexed", "deleted", "missing"}
        /\ await \in Steps(op)
        /\ op \in OfflineOps => pc[k][op] = "deleted"
  <2>1. CASE Indexed(k, op)
    <3>1. op \in OnlineOps \/ op = PING
      BY <2>1, OpsApart DEF Indexed, Replied, Shape, Steps
    <3>2. op = PING => op \notin RestOps
      BY DEF PING, RestOps
    <3> QED BY <2>1, <3>1, <3>2, OpsApart DEF Indexed, Replied, Resume, Steps
  <2>2. CASE Deleted(k, op)
    <3>1. op \in OfflineOps
      BY <2>2, OpsApart DEF Deleted, Replied, Shape, Steps
    <3> QED BY <2>2, <3>1, OpsApart DEF Deleted, Replied, Resume, Steps
  <2>3. CASE op = PING /\ StrayPing(k)
    BY <2>3, OpsApart DEF StrayPing, Replied, Resume, Steps, PING
  <2> QED BY <2>1, <2>2, <2>3
<1>2. await \in Awaits
  BY DEF Awaits
<1>3. Moved(k, op, await)
  BY <1>1, <1>2, GotoMoves
<1>a. HeldByOthers(k, op) /\ KeepsCovered
  BY <1>1 DEF HeldByOthers, KeepsCovered, Covered, WillBeCovered, TypeOK
<1>4. Pipe' /\ Ahead'
  BY <1>1, <1>2, <1>3, <1>a, PipeAfterResume
<1>5. Found'
  BY <1>1, <1>3, <1>a, QuietStep DEF accountVars
<1>6. TypeOK'
  BY <1>1, <1>3, Answered DEF TypeOK, accountVars, Moved, H
<1> QED BY <1>4, <1>5, <1>6 DEF Found

\* The flag of the profile, written last.
LEMMA WriteFlagIInv ==
  ASSUME PresenceConstants, IInv, NEW k \in Craftsmen, NEW op \in Ops, WriteFlag(k, op)
  PROVE  IInv'
<1>1. /\ Goto(k, op, "idle") /\ pc[k][op] = "flag"
      /\ available' = [available EXCEPT ![k] = (op = "available")]
      /\ UNCHANGED <<active, verified, geo, key, held, pipeline, raced, leftBehind, crashes>>
  BY DEF WriteFlag
<1>2. "idle" \in Awaits /\ "idle" \in Steps(op)
  BY OpsApart DEF Awaits, Steps
<1>3. Moved(k, op, "idle")
  BY <1>1, <1>2, GotoMoves
<1>a. HeldByOthers(k, op) /\ KeepsCovered
  BY <1>1 DEF HeldByOthers, KeepsCovered, Covered, WillBeCovered, TypeOK
<1>4. Pipe' /\ Ahead'
  BY <1>1, <1>2, <1>3, <1>a, PipeAfterGoto DEF Waiting
<1>5. Found'
  BY <1>1, <1>2, <1>3, <1>a, QuietStep
<1>6. TypeOK'
  BY <1>1, <1>3 DEF TypeOK, Moved
<1> QED BY <1>4, <1>5, <1>6 DEF Found

\* An insertion under c: GEOADD and SET of setOnline, or the GEOADD of a ping
\* whose key was there, or whose craftsman is being removed.
LEMMA InsertIInv ==
  ASSUME PresenceConstants, IInv, NEW k \in Craftsmen, NEW op \in Ops, NEW c \in Categories,
         EnterUnder(k, op, c) \/ (op = PING /\ MovePosition(k) /\ c = held[k][op])
  PROVE  IInv'
<1>1. /\ UNCHANGED <<accountVars, crashes>>
      /\ geo' = geo \cup {<<k, c>>}
      /\ raced' = IF Removing(k) THEN raced \cup {k} ELSE raced
      /\ Goto(k, op, "indexed")
      /\ pc[k][op] \in {"district", "found"}
      /\ op \notin OfflineOps
      /\ held' = held \/ held' = [held EXCEPT ![k][op] = NoCategory]
  <2>1. CASE EnterUnder(k, op, c)
    <3>1. op \notin OfflineOps
      BY <2>1, OpsApart DEF EnterUnder, Shape, Steps
    <3> QED BY <2>1, <3>1 DEF EnterUnder, Send
  <2>2. CASE op = PING /\ MovePosition(k) /\ c = held[k][op]
    BY <2>2, OpsApart DEF MovePosition, Replied, SendNext, Forget, PING
  <2> QED BY <2>1, <2>2
<1>a. HeldByOthers(k, op)
  <2>1. CASE held' = held
    BY <2>1 DEF TypeOK, HeldByOthers
  <2>2. CASE held' = [held EXCEPT ![k][op] = NoCategory]
    BY <2>2 DEF TypeOK, HeldByOthers
  <2> QED BY <1>1, <2>1, <2>2
<1>2. Moved(k, op, "indexed")
  BY <1>1, GotoMoves DEF Awaits
<1>3. "indexed" \in Steps(op)
  BY <1>1, OpsApart DEF Steps
\* What the two insertions have in common.
<1> DEFINE Entered ==
      /\ Pipe' /\ Ahead' /\ pipeline' \in Seq(H)
      /\ key' \in [Craftsmen -> Categories \cup {NoCategory}]
      /\ leftBehind' \subseteq Craftsmen \X Categories
      /\ \A l \in Craftsmen \ {k} :
           /\ key'[l] = key[l]
           /\ \A d \in Categories : <<l, d>> \in leftBehind' <=> <<l, d>> \in leftBehind
      /\ key'[k] = key[k] \/ key'[k] = c
      /\ k \notin raced' => /\ WillBeCovered(k, c)
                            /\ \A d \in Categories : <<k, d>> \in geo => WillBeCovered(k, d)
                            /\ active[k] \/ (key'[k] = key[k] /\ leftBehind' = leftBehind)
<1>6. Entered
  <2>1. CASE EnterUnder(k, op, c)
    <3>1. /\ pipeline' = Append(pipeline, <<k, op>>) /\ key' = [key EXCEPT ![k] = c]
          /\ leftBehind' = (leftBehind \cup {<<k, d>> : d \in {key[k]} \ {NoCategory}})
                              \ {<<k, c>>}
          /\ pc[k][op] = "district"
      BY <2>1 DEF EnterUnder, Send
    <3>2. /\ key' \in [Craftsmen -> Categories \cup {NoCategory}]
          /\ leftBehind' \subseteq Craftsmen \X Categories
          /\ key'[k] = c /\ \A l \in Craftsmen \ {k} : key'[l] = key[l]
      BY <3>1 DEF TypeOK
    <3>3. /\ \A l \in Craftsmen \ {k} : \A d \in Categories :
               <<l, d>> \in leftBehind' <=> <<l, d>> \in leftBehind
          /\ \A d \in Categories \ {c} : <<k, d>> \in leftBehind \/ d = key[k] =>
               <<k, d>> \in leftBehind'
      BY <3>1 DEF PresenceConstants
    <3>4. raced \subseteq raced'
      BY <1>1
    <3>5. KeepsCovered
      BY <3>2, <3>3, <3>4 DEF KeepsCovered, Covered, WillBeCovered
    <3>6. Pipe' /\ Ahead'
      BY <1>1, <1>2, <1>a, <3>1, <3>5, PipeAfterSend DEF Waiting
    <3>7. pipeline' \in Seq(H)
      BY <3>1, Sent DEF H
    <3>8. k \notin raced => active[k]
      BY <3>1 DEF Checked
    <3>9. k \notin raced' => \A d \in Categories : <<k, d>> \in geo => WillBeCovered(k, d)
      BY <3>4, <3>5 DEF IndexMatchesKey, KeepsCovered, Covered, WillBeCovered
    <3>10. WillBeCovered(k, c)
      BY <3>2 DEF WillBeCovered
    <3> QED BY <3>2, <3>3, <3>4, <3>6, <3>7, <3>8, <3>9, <3>10
  <2>2. CASE op = PING /\ MovePosition(k) /\ c = held[k][op]
    <3>1. /\ pipeline' = Append(Tail(pipeline), <<k, op>>) /\ key' = key
          /\ leftBehind' = leftBehind
          /\ pc[k][op] = "found" /\ pipeline # <<>> /\ Head(pipeline) = <<k, op>>
      BY <2>2 DEF MovePosition, Replied, SendNext, PING
    <3>a. raced \subseteq raced'
      BY <1>1
    <3>b. KeepsCovered
      BY <3>1, <3>a DEF KeepsCovered, Covered, WillBeCovered
    <3>2. Pipe' /\ Ahead'
      BY <1>1, <1>2, <1>a, <3>1, <3>b, PipeAfterSendNext DEF Waiting, KeepsCovered, Covered, WillBeCovered
    <3>3. pipeline' \in Seq(H) /\ pipeline[1] = <<k, PING>> /\ 1 \in 1 .. Len(pipeline)
      BY <2>2, <3>1, AnsweredAndSent DEF H
    <3>4. Covered(k, c) \/ Removing(k)
      BY <2>2, <3>1, <3>3 DEF Ahead, DeletedAfter, Removing
    <3>5. k \notin raced' => WillBeCovered(k, c)
      BY <1>1, <3>4, <3>b DEF KeepsCovered, Covered, WillBeCovered
    <3>6. k \notin raced' => \A d \in Categories : <<k, d>> \in geo => WillBeCovered(k, d)
      BY <3>a, <3>b DEF IndexMatchesKey, KeepsCovered, Covered, WillBeCovered
    <3>7. /\ key' \in [Craftsmen -> Categories \cup {NoCategory}]
          /\ leftBehind' \subseteq Craftsmen \X Categories
      BY <3>1 DEF TypeOK
    <3> QED BY <3>1, <3>2, <3>3, <3>5, <3>6, <3>7
  <2> QED BY <2>1, <2>2
<1> HIDE DEF Entered
<1>p. k \notin raced' => /\ WillBeCovered(k, c)
                         /\ \A d \in Categories : <<k, d>> \in geo => WillBeCovered(k, d)
                         /\ active[k] \/ (key'[k] = key[k] /\ leftBehind' = leftBehind)
  BY <1>6 DEF Entered
<1>7. TypeOK'
  BY <1>1, <1>2, <1>a, <1>6 DEF TypeOK, accountVars, Moved, HeldByOthers, H, Entered
<1>8. \A l \in Craftsmen : \A o \in OfflineOps : pc'[l][o] = pc[l][o] /\ held'[l][o] = held[l][o]
  BY <1>1, <1>2, <1>a, OpsApart DEF Moved, HeldByOthers
<1>9. \A l \in Craftsmen : Removing(l)' <=> Removing(l)
  BY <1>8 DEF Removing
<1>10. k \in raced' \/ ~Removing(k)
  BY <1>1
<1>11. Shape'
  BY <1>2, <1>3 DEF Shape, Moved
<1>b. \A l \in Craftsmen \ {k} : Out(l) => Out(l)'
  BY <1>1, <1>6 DEF Out, Entered
<1>12. Left'
  <2> SUFFICES ASSUME NEW l \in Craftsmen \ raced', NEW o \in OfflineOps, pc[l][o] # "idle"
               PROVE  /\ l # k /\ key'[l] = key[l] /\ l \notin raced
                      /\ Out(l) => Out(l)'
    BY <1>8 DEF Left
  <2>1. l # k
    BY <1>10 DEF Removing
  <2> QED BY <1>1, <1>6, <1>b, <2>1 DEF Entered
<1>13. Checked'
  BY <1>1, <1>2 DEF Checked, Moved, accountVars
<1>14. IndexMatchesKey'
  <2>1. ASSUME NEW l \in Craftsmen, l \notin raced', NEW d \in Categories,
               <<l, d>> \in geo' \ leftBehind'
        PROVE  d = key'[l]
    <3>1. CASE l = k
      <4>1. k \notin raced' /\ (<<k, d>> \in geo \/ d = c)
        BY <1>1, <2>1, <3>1
      <4>2. WillBeCovered(k, d)
        BY <1>p, <4>1
      <4> QED BY <2>1, <3>1, <4>1, <4>2 DEF WillBeCovered
    <3>2. CASE l # k
      BY <1>1, <1>6, <2>1, <3>2 DEF Entered, IndexMatchesKey
    <3> QED BY <3>1, <3>2
  <2>2. ASSUME NEW l \in Craftsmen, Online(l)', <<l, key'[l]>> \notin geo'
        PROVE  (\E o \in OfflineOps : pc'[l][o] = "removed") \/ (crashes > 0 /\ l \in raced')
    <3>1. Online(l) /\ <<l, key[l]>> \notin geo
      BY <1>1, <1>6, <2>2 DEF Entered
    <3> QED BY <1>1, <1>8, <3>1 DEF IndexMatchesKey
  <2> QED BY <1>1, <2>1, <2>2 DEF IndexMatchesKey
<1>15. OnlyEligibleAreFound'
  <2>1. CategoryOf[k] \in Regulated => verified[k]
    BY <1>1 DEF Checked
  <2>2. ASSUME NEW l \in Craftsmen, CategoryOf[l] \in Regulated, ~verified[l]
        PROVE  ~Online(l)' /\ \A d \in Categories : <<l, d>> \notin geo'
    BY <1>1, <1>6, <2>1, <2>2 DEF Entered, OnlyEligibleAreFound
  <2>3. ASSUME NEW l \in Craftsmen, l \notin raced', ~active[l], ~Removing(l)
        PROVE  ~Online(l)' /\ Out(l)'
    <3>0. l \notin raced /\ ~Online(l) /\ Out(l)
      BY <1>1, <2>3 DEF OnlyEligibleAreFound, Out
    <3>1. CASE l = k
      <4>1. key'[k] = key[k] /\ leftBehind' = leftBehind
        <5>1. ~active[k] /\ k \notin raced' /\ active[k] \in BOOLEAN
          BY <2>3, <3>1 DEF TypeOK
        <5> QED BY <1>p, <5>1
      <4>2. <<k, c>> \in leftBehind'
        <5>1. WillBeCovered(k, c) /\ k \notin raced' /\ key'[k] = NoCategory
          BY <1>p, <2>3, <3>0, <3>1, <4>1
        <5> QED BY <5>1 DEF WillBeCovered, PresenceConstants
      <4> QED BY <1>1, <3>0, <3>1, <4>1, <4>2 DEF Out
    <3>2. CASE l # k
      BY <1>6, <1>b, <3>0, <3>2 DEF Entered
    <3> QED BY <3>1, <3>2
  <2> QED BY <1>1, <1>9, <2>2, <2>3 DEF OnlyEligibleAreFound, Out, accountVars
<1> QED BY <1>6, <1>7, <1>11, <1>12, <1>13, <1>14, <1>15 DEF Entered

\* A removal's ZREM and its DEL.
LEMMA RemoveIInv ==
  ASSUME PresenceConstants, IInv, NEW k \in Craftsmen, NEW op \in Ops,
         RemovePosition(k, op) \/ DeleteKey(k, op)
  PROVE  IInv'
<1>1. PICK await \in {"removed", "deleted"} :
        /\ op \in OfflineOps
        /\ Goto(k, op, await) /\ pipeline' = Append(Tail(pipeline), <<k, op>>)
        /\ pipeline # <<>> /\ Head(pipeline) = <<k, op>>
        /\ UNCHANGED <<accountVars, raced, leftBehind, crashes>>
        /\ await = "removed" => /\ pc[k][op] = "found" /\ key' = key
                                /\ geo' = geo \ {<<k, held[k][op]>>}
                                /\ held' = [held EXCEPT ![k][op] = NoCategory]
        /\ await = "deleted" => /\ pc[k][op] \in {"removed", "missing"} /\ geo' = geo
                                /\ key' = [key EXCEPT ![k] = NoCategory] /\ held' = held
  BY DEF RemovePosition, DeleteKey, Replied, SendNext, Forget
<1>2. Moved(k, op, await)
  BY <1>1, GotoMoves DEF Awaits
<1>a. HeldByOthers(k, op)
  <2>1. CASE held' = held
    BY <2>1 DEF TypeOK, HeldByOthers
  <2>2. CASE held' = [held EXCEPT ![k][op] = NoCategory]
    BY <2>2 DEF TypeOK, HeldByOthers
  <2> QED BY <1>1, <2>1, <2>2
<1>b. /\ key' \in [Craftsmen -> Categories \cup {NoCategory}]
      /\ \A l \in Craftsmen \ {k} : key'[l] = key[l]
      /\ key'[k] = key[k] \/ key'[k] = NoCategory
      /\ await = "deleted" => key'[k] = NoCategory
      /\ geo' \subseteq geo
      /\ \A l \in Craftsmen \ {k} : \A d \in Categories : <<l, d>> \in geo' <=> <<l, d>> \in geo
  BY <1>1 DEF TypeOK
<1>c. \A l \in Craftsmen : \A c \in Categories : Covered(l, c) =>
        Covered(l, c)' \/ (l = k /\ op \in OfflineOps /\ await = "deleted")
  BY <1>1, <1>b DEF Covered
<1>3. Pipe' /\ Ahead'
  BY <1>1, <1>2, <1>a, <1>c, PipeAfterSendNext DEF Waiting
<1>4. TypeOK'
  BY <1>1, <1>2, <1>a, <1>b, AnsweredAndSent DEF TypeOK, accountVars, Moved, HeldByOthers, H
<1>5. Shape'
  BY <1>1, <1>2 DEF Shape, Moved, Steps
<1>d. \A l \in Craftsmen : Out(l) => Out(l)'
  BY <1>1, <1>b DEF Out
\* A ZREM leaves the craftsman in no index but one left behind.
<1>e. k \notin raced => Out(k)'
  <2>1. CASE await = "removed"
    <3> SUFFICES ASSUME k \notin raced, NEW d \in Categories,
                        <<k, d>> \in geo', <<k, d>> \notin leftBehind
                 PROVE  FALSE
      BY <1>1 DEF Out
    <3>1. d = key[k]
      BY <1>b DEF IndexMatchesKey
    <3>2. d = held[k][op]
      BY <1>1, <2>1, <3>1 DEF Left, PresenceConstants
    <3> QED BY <1>1, <2>1, <3>2
  <2>2. CASE await = "deleted"
    BY <1>1, <1>d, <2>2 DEF Left
  <2> QED BY <1>1, <2>1, <2>2
<1>6. Left'
  <2> SUFFICES ASSUME NEW l \in Craftsmen \ raced, NEW o \in OfflineOps
               PROVE  /\ pc'[l][o] = "found" => /\ held'[l][o] \in Categories
                                               /\ key'[l] \in {held'[l][o], NoCategory}
                      /\ pc'[l][o] \in {"missing", "removed", "deleted", "flag"} => Out(l)'
                      /\ pc'[l][o] \in {"missing", "deleted", "flag"} => ~Online(l)'
    BY <1>1 DEF Left
  <2>1. CASE l = k /\ o = op
    BY <1>1, <1>2, <1>b, <1>e, <2>1 DEF Moved
  <2>2. CASE l # k \/ o # op
    BY <1>1, <1>2, <1>a, <1>b, <1>d, <2>2, OpsApart DEF Left, Moved, HeldByOthers
  <2> QED BY <2>1, <2>2
<1>7. Checked'
  BY <1>1, <1>2 DEF Checked, Moved, accountVars
<1>8. IndexMatchesKey'
  <2>2. ASSUME NEW l \in Craftsmen \ raced, NEW d \in Categories,
               <<l, d>> \in geo' \ leftBehind
        PROVE  d = key'[l]
    <3>1. CASE l = k
      BY <1>e, <2>2, <3>1, <1>1 DEF Out
    <3>2. CASE l # k
      BY <1>b, <2>2, <3>2 DEF IndexMatchesKey
    <3> QED BY <3>1, <3>2
  <2>3. ASSUME NEW l \in Craftsmen, Online(l)', <<l, key'[l]>> \notin geo'
        PROVE  (\E o \in OfflineOps : pc'[l][o] = "removed") \/ (crashes > 0 /\ l \in raced)
    <3>1. CASE l = k
      BY <1>1, <1>2, <1>b, <2>3, <3>1 DEF Moved
    <3>2. CASE l # k
      <4>1. key'[l] \in Categories /\ Online(l) /\ <<l, key[l]>> \notin geo
        BY <1>b, <2>3, <3>2 DEF TypeOK
      <4>2. \A o \in OfflineOps : pc'[l][o] = pc[l][o]
        BY <1>2, <3>2, OpsApart DEF Moved
      <4> QED BY <4>1, <4>2 DEF IndexMatchesKey
    <3> QED BY <3>1, <3>2
  <2> QED BY <1>1, <2>2, <2>3 DEF IndexMatchesKey
<1>9. OnlyEligibleAreFound'
  <2>1. \A l \in Craftsmen : Removing(l) => Removing(l)'
    BY <1>1, <1>2, OpsApart DEF Removing, Moved
  <2>2. \A l \in Craftsmen : ~Online(l) => ~Online(l)'
    BY <1>b
  <2> QED BY <1>1, <1>b, <2>1, <2>2 DEF OnlyEligibleAreFound, accountVars
<1> QED BY <1>3, <1>4, <1>5, <1>6, <1>7, <1>8, <1>9

\* The profile is deactivated, and the removal begins.
LEMMA DeactivateIInv ==
  ASSUME PresenceConstants, IInv, NEW k \in Craftsmen, Deactivate(k)
  PROVE  IInv'
<1> DEFINE op == "deactivate"
<1>0. op \in OfflineOps /\ op \in Ops /\ "lookup" \in Awaits /\ "lookup" \in Steps(op)
  BY OpsApart DEF Awaits, Steps
<1>1. /\ pc[k][op] = "idle" /\ Goto(k, op, "lookup")
      /\ active' = [active EXCEPT ![k] = FALSE]
      /\ available' = [available EXCEPT ![k] = FALSE]
      /\ raced' = IF \E o \in OnlineOps : pc[k][o] = "district"
                  THEN raced \cup {k} ELSE raced
      /\ UNCHANGED <<verified, geo, key, held, pipeline, leftBehind, crashes>>
  BY DEF Deactivate
<1>2. Moved(k, op, "lookup")
  BY <1>0, <1>1, GotoMoves
<1>a. HeldByOthers(k, op) /\ KeepsCovered
  BY <1>1 DEF HeldByOthers, KeepsCovered, Covered, WillBeCovered, TypeOK
<1>3. Pipe' /\ Ahead'
  BY <1>0, <1>1, <1>2, <1>a, PipeAfterGoto DEF Waiting
<1>4. TypeOK'
  BY <1>1, <1>2 DEF TypeOK, Moved
<1>5. Shape'
  BY <1>0, <1>2 DEF Shape, Moved
<1>6. Left'
  BY <1>0, <1>1, <1>2, OpsApart DEF Left, Moved, Out
<1>7. Checked'
  <2>1. ASSUME NEW l \in Craftsmen \ raced', NEW o \in Ops, pc'[l][o] = "district"
        PROVE  active'[l]
    <3>1. pc[l][o] = "district" /\ l \notin raced
      BY <1>0, <1>1, <1>2, <2>1 DEF Moved
    <3>2. o \in OnlineOps
      BY <3>1, OpsApart DEF Shape, Steps
    <3>3. l # k
      BY <1>1, <2>1, <3>1, <3>2
    <3> QED BY <1>1, <3>1, <3>3 DEF Checked, TypeOK
  <2> QED BY <1>0, <1>1, <1>2, <2>1 DEF Checked, Moved
<1>8. IndexMatchesKey'
  <2>1. ASSUME NEW l \in Craftsmen, NEW o \in OfflineOps, pc[l][o] = "removed"
        PROVE  pc'[l][o] = "removed"
    BY <1>0, <1>1, <1>2, <2>1, OpsApart DEF Moved
  <2> QED BY <1>1, <2>1 DEF IndexMatchesKey
<1>9. OnlyEligibleAreFound'
  <2>1. Removing(k)'
    BY <1>0, <1>2 DEF Removing, Moved
  <2>2. \A l \in Craftsmen \ {k} : (Removing(l)' <=> Removing(l)) /\ active'[l] = active[l]
    BY <1>0, <1>1, <1>2, OpsApart DEF Removing, Moved, TypeOK
  <2> QED BY <1>1, <2>1, <2>2 DEF OnlyEligibleAreFound
<1> QED BY <1>3, <1>4, <1>5, <1>6, <1>7, <1>8, <1>9

\* Documents approved, a profile active again, and steps that change nothing.
LEMMA AccountIInv ==
  ASSUME IInv, UNCHANGED <<geo, key, pc, held, pipeline, raced, leftBehind, crashes, available>>,
         active' \in [Craftsmen -> BOOLEAN], verified' \in [Craftsmen -> BOOLEAN],
         \A k \in Craftsmen : active[k] => active'[k],
         \A k \in Craftsmen : verified[k] => verified'[k],
         PresenceConstants
  PROVE  IInv'
<1>a. TypeOK'
  BY DEF TypeOK
<1>b. Shape'
  BY DEF Shape
<1>c. Pipe'
  BY DEF Pipe
<1>d. Ahead'
  <2>1. \A k \in Craftsmen : \A i \in 1 .. Len(pipeline) : DeletedAfter(k, i)' <=> DeletedAfter(k, i)
    BY DEF DeletedAfter
  <2> QED BY <2>1 DEF Ahead, Covered
<1>e. Left'
  BY DEF Left, Out
<1>1. TypeOK' /\ Shape' /\ Pipe' /\ Ahead' /\ Left'
  BY <1>a, <1>b, <1>c, <1>d, <1>e
<1>2. Checked'
  BY DEF Checked, PresenceConstants
<1>3. IndexMatchesKey'
  BY DEF IndexMatchesKey
<1>4. OnlyEligibleAreFound'
  BY DEF OnlyEligibleAreFound, Removing, PresenceConstants
<1> QED BY <1>1, <1>2, <1>3, <1>4

\* The process stops.
LEMMA CrashIInv == ASSUME PresenceConstants, IInv, Crash PROVE IInv'
<1>1. /\ crashes < MaxCrashes /\ crashes' = crashes + 1
      /\ raced' = raced \cup {k \in Craftsmen : Removing(k)}
      /\ pc' = [k \in Craftsmen |-> [op \in Ops |-> "idle"]] /\ pipeline' = <<>>
      /\ held' = [k \in Craftsmen |-> [op \in Ops |-> NoCategory]]
      /\ UNCHANGED <<accountVars, geo, key, leftBehind>>
  BY DEF Crash
<1>2. \A k \in Craftsmen : \A op \in Ops : pc'[k][op] = "idle"
  BY <1>1
<1>3. TypeOK'
  BY <1>1 DEF TypeOK, accountVars, Awaits, PresenceConstants
<1>4. Shape'
  BY <1>2, OpsApart DEF Shape, Steps
<1>5. Pipe' /\ Ahead'
  BY <1>1 DEF Pipe, Ahead
<1>6. Left' /\ Checked'
  BY <1>2, OpsApart DEF Left, Checked
<1>7. IndexMatchesKey'
  BY <1>1 DEF IndexMatchesKey, Removing, TypeOK
<1>8. OnlyEligibleAreFound'
  BY <1>1 DEF OnlyEligibleAreFound, accountVars
<1> QED BY <1>3, <1>4, <1>5, <1>6, <1>7, <1>8

\* Every step keeps the invariant.
LEMMA StepIInv == ASSUME PresenceConstants, IInv, [Next]_presenceVars PROVE IInv'
<1>1. ASSUME NEW k \in Craftsmen, NEW op \in Ops,
             GoOnline(k, op) \/ GoOffline(k, op) \/ Continue(k, op)
      PROVE  IInv'
  <2>1. CASE GoOnline(k, op) \/ ReadProfile(k, op) \/ DistrictClosed(k, op)
             \/ (GoOffline(k, op) /\ op \in RestOps)
    BY <2>1, GotoIInv
  <2>2. CASE (GoOffline(k, op) /\ op \notin RestOps) \/ LookUpCategory(k, op)
    BY <2>2, GetIInv
  <2>3. CASE Indexed(k, op) \/ Deleted(k, op) \/ (op = PING /\ StrayPing(k))
    BY <2>3, ResumeIInv
  <2>4. CASE WriteFlag(k, op)
    BY <2>4, WriteFlagIInv
  <2>5. CASE EnterPresence(k, op) \/ (op = PING /\ MovePosition(k))
    <3>1. CASE EnterPresence(k, op)
      <4>1. PICK c \in AskedCategories(k, op) : EnterUnder(k, op, c)
        BY <3>1 DEF EnterPresence
      <4>2. c \in Categories
        BY DEF AskedCategories, PresenceConstants
      <4> QED BY <4>1, <4>2, InsertIInv
    <3>2. CASE op = PING /\ MovePosition(k)
      <4>1. pipeline # <<>> /\ pipeline[1] = <<k, PING>> /\ 1 \in 1 .. Len(pipeline)
            /\ pc[k][PING] = "found"
        BY <3>2, HeadIsFirst DEF MovePosition, Replied, PING
      <4>2. held[k][op] \in Categories
        BY <3>2, <4>1 DEF Ahead
      <4> QED BY <3>2, <4>2, InsertIInv
    <3> QED BY <2>5, <3>1, <3>2
  <2>6. CASE RemovePosition(k, op) \/ DeleteKey(k, op)
    BY <2>6, RemoveIInv
  <2>7. PING = "craftsman:location"
    BY DEF PING
  <2> QED BY <1>1, <2>1, <2>2, <2>3, <2>4, <2>5, <2>6, <2>7 DEF Continue
<1>2. ASSUME NEW k \in Craftsmen, Ping(k) PROVE IInv'
  BY <1>2, GetIInv, OpsApart
<1>3. ASSUME NEW k \in Craftsmen, Deactivate(k) PROVE IInv'
  BY <1>3, DeactivateIInv
<1>4. ASSUME NEW k \in Craftsmen, Verify(k) \/ Reactivate(k) PROVE IInv'
  <2>1. /\ UNCHANGED <<geo, key, pc, held, pipeline, raced, leftBehind, crashes, available>>
        /\ active' \in [Craftsmen -> BOOLEAN] /\ verified' \in [Craftsmen -> BOOLEAN]
        /\ \A l \in Craftsmen : active[l] => active'[l]
        /\ \A l \in Craftsmen : verified[l] => verified'[l]
    BY <1>4 DEF Verify, Reactivate, TypeOK
  <2> QED BY <2>1, AccountIInv
<1>5. CASE Crash
  BY <1>5, CrashIInv
<1>6. CASE UNCHANGED presenceVars
  <2>1. UNCHANGED <<active, verified, available, geo, key, pc, held, pipeline, raced, leftBehind, crashes>>
    BY <1>6 DEF presenceVars, accountVars
  <2> QED BY <2>1, AccountIInv DEF TypeOK
<1> QED BY <1>1, <1>2, <1>3, <1>4, <1>5, <1>6 DEF Next

LEMMA IInvHolds == SafeSpec => []IInv
<1> USE PresenceConstants
<1>1. Init => IInv
  BY InitIInv
<1>2. IInv /\ [Next]_presenceVars => IInv'
  BY StepIInv
<1> QED BY <1>1, <1>2, PTL DEF SafeSpec

\* Every handler is always at an await it has and every variable keeps its
\* type (presence.service.ts).
THEOREM TypeCorrect == SafeSpec => []TypeOK
<1>1. IInv => TypeOK
  OBVIOUS
<1> QED BY <1>1, IInvHolds, PTL

(***************************************************************************)
(* The GEO indexes and the category keys agree whatever handlers overlap,  *)
(* up to a removal under way, the insertions that ran into one and the     *)
(* entries left behind under an earlier category                           *)
(* (presence.service.ts:91-158).                                           *)
(***************************************************************************)
THEOREM IndexAgrees == SafeSpec => []IndexMatchesKey
<1>1. IInv => IndexMatchesKey
  OBVIOUS
<1> QED BY <1>1, IInvHolds, PTL

(***************************************************************************)
(* No craftsman of a regulated trade is found without their documents, in  *)
(* whichever index, and nobody whose deactivation is through but for the   *)
(* named races and an index left behind (presence.service.ts:47-52,        *)
(* 65-82): the check before the awaits and the order of the connection are *)
(* enough for that, for any number of handlers and categories.             *)
(***************************************************************************)
THEOREM OnlyEligible == SafeSpec => []OnlyEligibleAreFound
<1>1. IInv => OnlyEligibleAreFound
  OBVIOUS
<1> QED BY <1>1, IInvHolds, PTL
=============================================================================
