----------------------------- MODULE CommandPool -----------------------------
(***************************************************************************)
(* A command pool with its primary and secondary command buffers           *)
(* (driver/command.c): allocation of buffers and of the blocks of their    *)
(* lists, and vkCmdExecuteCommands, which copies what secondary buffers    *)
(* recorded into the current job of a primary one.                         *)
(*                                                                         *)
(* A recorded command names buffer objects by their place in the handles   *)
(* of its job, so each such word of a secondary buffer is translated when  *)
(* it is copied.  The words of the uniforms, of the bin list and of the    *)
(* shader records are translated alike, and are one sequence here.         *)
(***************************************************************************)
EXTENDS Integers, SequencesExt, FiniteSetsExt, TLC

CONSTANTS
  Primaries, Secondaries,       \* command buffers of the pool by the level they
                                \* are allocated with; 128 in the driver
  Blocks,                       \* blocks of the pool for lists; 512 in the driver
  Objects,                      \* buffer objects recorded commands refer to
  Unknown,                      \* not a buffer object
  MaxDraws, MaxWords, MaxHandles \* bounds: words of a secondary and of a primary
                                \* buffer, and handles when a job is begun

Buffers == Primaries \cup Secondaries
ListsOfBuffer == 7              \* each starts with one block

VARIABLES
  live,                         \* allocated buffers
  handles, words,               \* handlesCl and index words of a buffer
  off,                          \* handlesBufOffset of its current marker
  recording, inPass,            \* between vkBegin and vkEnd; in a render pass
  executed,                     \* history: copied since it was recorded
  held,                         \* blocks of its lists
  room,                         \* free blocks
  broken                        \* a pointer that is not one was followed

content == <<handles, words, off, recording, inPass, executed>>
vars == <<live, content, held, room, broken>>

(* A word that holds a handle index: the index, the object it was recorded *)
(* for, the job it belongs to, and the history of whether it was copied    *)
(* by a first execution through a valid marker.                            *)
Word(index, object, job, sure) ==
  [index |-> index, object |-> object, job |-> job, sure |-> sure]

(* Position of an object among the handles hs behind the first "from",     *)
(* counted from there; a new handle gets the next one.                     *)
IndexOf(hs, from, object) ==
  LET at == {i \in from + 1 .. Len(hs) : hs[i] = object} IN
  IF at = {} THEN Len(hs) - from ELSE Min(at) - from - 1
WithHandle(hs, from, object) ==
  IF \E i \in from + 1 .. Len(hs) : hs[i] = object THEN hs ELSE Append(hs, object)

-----------------------------------------------------------------------------
Fresh(b) ==
  /\ handles' = [c \in Buffers |-> IF c \in b THEN <<>> ELSE handles[c]]
  /\ words' = [c \in Buffers |-> IF c \in b THEN <<>> ELSE words[c]]
  /\ off' = [c \in Buffers |-> IF c \in b THEN 0 ELSE off[c]]
  /\ recording' = recording \ b /\ inPass' = inPass \ b /\ executed' = executed \ b

(* vkAllocateCommandBuffers for buffers there is room for. *)
vkAllocateCommandBuffers(bs) ==
  /\ bs # {} /\ bs \in SUBSET Primaries \cup SUBSET Secondaries
  /\ bs \cap live = {}
  /\ room >= ListsOfBuffer * Cardinality(bs)
  /\ live' = live \cup bs
  /\ held' = [b \in Buffers |-> IF b \in bs THEN ListsOfBuffer ELSE held[b]]
  /\ room' = room - ListsOfBuffer * Cardinality(bs)
  /\ Fresh(bs)
  /\ UNCHANGED broken

(* The same for n buffers when there is only room for fewer: the entry the *)
(* loop stops at is null, or its list has no blocks, and those behind it   *)
(* are not set.  The clean-up follows every entry all the same.            *)
allocationFails(n) ==
  LET fitting == Min({Cardinality(Buffers \ live), room \div ListsOfBuffer})
      entries == [i \in 1 .. n |-> IF i <= fitting THEN "buffer"
                                   ELSE IF i = fitting + 1 THEN "null or incomplete"
                                   ELSE "not set"]
  IN  /\ n > fitting
      /\ broken' = (\E i \in 1 .. n : entries[i] # "buffer")
      /\ UNCHANGED <<live, content, held, room>>

(* Bug: the blocks of one list are forgotten. *)
freeForgetsList(b) ==
  /\ b \in live
  /\ live' = live \ {b}
  /\ room' = room + held[b] - 1
  /\ held' = [held EXCEPT ![b] = 0]
  /\ Fresh({b})
  /\ UNCHANGED broken

vkFreeCommandBuffers(b) ==
  /\ b \in live
  /\ live' = live \ {b}
  /\ room' = room + held[b]
  /\ held' = [held EXCEPT ![b] = 0]
  /\ Fresh({b})
  /\ UNCHANGED broken

(* vkBeginCommandBuffer of a buffer of a resetable pool; a secondary one   *)
(* is inside its render pass from then on.                                 *)
vkBeginCommandBuffer(b) ==
  /\ b \in live \ recording
  /\ handles' = [handles EXCEPT ![b] = <<>>]
  /\ words' = [words EXCEPT ![b] = <<>>]
  /\ off' = [off EXCEPT ![b] = 0]
  /\ recording' = recording \cup {b}
  /\ inPass' = IF b \in Secondaries THEN inPass \cup {b} ELSE inPass \ {b}
  /\ executed' = executed \ {b}
  /\ UNCHANGED <<live, held, room, broken>>

vkEndCommandBuffer(b) ==
  /\ b \in recording /\ (b \in Primaries => b \notin inPass)
  /\ recording' = recording \ {b} /\ inPass' = inPass \ {b}
  /\ UNCHANGED <<live, handles, words, off, executed, held, room, broken>>

(* vkCmdBeginRenderPass: a new job, with a handle for its target. *)
vkCmdBeginRenderPass(p, target) ==
  /\ p \in recording \ inPass /\ Len(handles[p]) < MaxHandles
  /\ off' = [off EXCEPT ![p] = Len(handles[p])]
  /\ handles' = [handles EXCEPT ![p] = Append(@, target)]
  /\ inPass' = inPass \cup {p}
  /\ UNCHANGED <<live, words, recording, executed, held, room, broken>>

vkCmdEndRenderPass(p) ==
  /\ p \in inPass
  /\ inPass' = inPass \ {p}
  /\ UNCHANGED <<live, handles, words, off, recording, executed, held, room, broken>>

(* Whatever a draw refers to, in a secondary buffer. *)
vkCmdDraw(s, object) ==
  /\ s \in recording /\ Len(words[s]) < MaxDraws
  /\ words' = [words EXCEPT ![s] =
       Append(@, Word(IndexOf(handles[s], 0, object), object, 0, TRUE))]
  /\ handles' = [handles EXCEPT ![s] = WithHandle(@, 0, object)]
  /\ UNCHANGED <<live, off, recording, inPass, executed, held, room, broken>>

-----------------------------------------------------------------------------
(* What a word of secondary buffer s names now, by its own handles. *)
Named(s, w) == IF w.index < Len(handles[s]) THEN handles[s][w.index + 1] ELSE Unknown

(* Bug: the index is looked up among the handles of all jobs. *)
translatedFromStart(hs, job, from, w, object, sure) ==
  <<WithHandle(hs, 0, object), Word(IndexOf(hs, 0, object), w.object, job, sure)>>

(* One word translated: the primary's handles, and the word as copied.  It *)
(* is looked up behind "from", where the marker says the job's handles     *)
(* start.                                                                  *)
translated(hs, job, from, w, object, sure) ==
  <<WithHandle(hs, from, object), Word(IndexOf(hs, from, object), w.object, job, sure)>>

(* All words of s, by the marker of primary p: <<handles, copied words>>.  *)
Translated(p, s, hs, from, sure) ==
  LET next(r, w) ==
        LET t == translated(r[1], off[p], from, w, Named(s, w), sure /\ s \notin executed)
        IN  <<t[1], Append(r[2], t[2])>>
      after[n \in 0 .. Len(words[s])] ==
        IF n = 0 THEN <<hs, <<>>>> ELSE next(after[n - 1], words[s][n])
  IN  after[Len(words[s])]

(* The words of s keep their translation, written in place. *)
Rewritten(s, copied) ==
  [i \in DOMAIN words[s] |-> [words[s][i] EXCEPT !.index = copied[i].index]]

(* vkCmdExecuteCommands of one or two buffers.  The copy of the first one  *)
(* may move the primary's bin list; the marker of the primary is then read *)
(* through the old pointer for the second, from blocks that were cleared,  *)
(* are unchanged, or hold something else by now.                           *)
vkCmdExecuteCommands(p, s) ==
  /\ p \in inPass
  /\ s \in live \ recording /\ words[s] # <<>>
  /\ Len(words[p]) + Len(words[s]) <= MaxWords
  /\ LET t == Translated(p, s, handles[p], off[p], TRUE) IN
     /\ handles' = [handles EXCEPT ![p] = t[1]]
     /\ words' = [words EXCEPT ![p] = @ \o t[2], ![s] = Rewritten(s, t[2])]
  /\ executed' = executed \cup {s}
  /\ \E grown \in {n \in 0 .. 1 : n <= room} :
       held' = [held EXCEPT ![p] = @ + grown] /\ room' = room - grown
  /\ UNCHANGED <<live, off, recording, inPass, broken>>

vkCmdExecuteTwo(p, s1, s2) ==
  /\ p \in inPass /\ s1 # s2
  /\ \A s \in {s1, s2} : s \in live \ recording /\ words[s] # <<>>
  /\ Len(words[p]) + Len(words[s1]) + Len(words[s2]) <= MaxWords
  /\ \E moved \in {m \in BOOLEAN : m => room > 0} :
     \E from \in IF moved THEN 0 .. off[p] ELSE {off[p]} :
       LET t1 == Translated(p, s1, handles[p], off[p], TRUE)
           t2 == Translated(p, s2, t1[1], from, ~ moved)
       IN  /\ handles' = [handles EXCEPT ![p] = t2[1]]
           /\ words' = [words EXCEPT ![p] = @ \o t1[2] \o t2[2],
                                     ![s1] = Rewritten(s1, t1[2]), ![s2] = Rewritten(s2, t2[2])]
           /\ held' = [held EXCEPT ![p] = @ + (IF moved THEN 1 ELSE 0)]
           /\ room' = room - (IF moved THEN 1 ELSE 0)
  /\ executed' = executed \cup {s1, s2}
  /\ UNCHANGED <<live, off, recording, inPass, broken>>

Init ==
  /\ live = {}
  /\ handles = [b \in Buffers |-> <<>>] /\ words = [b \in Buffers |-> <<>>]
  /\ off = [b \in Buffers |-> 0]
  /\ recording = {} /\ inPass = {} /\ executed = {}
  /\ held = [b \in Buffers |-> 0] /\ room = Blocks /\ broken = FALSE

Running ==
  \/ \E n \in 1 .. Cardinality(Buffers) : allocationFails(n)
  \/ \E bs \in SUBSET Buffers : vkAllocateCommandBuffers(bs)
  \/ \E b \in Buffers : vkFreeCommandBuffers(b) \/ vkBeginCommandBuffer(b) \/ vkEndCommandBuffer(b)
  \/ \E p \in Primaries : vkCmdEndRenderPass(p)
  \/ \E p \in Primaries, o \in Objects : vkCmdBeginRenderPass(p, o)
  \/ \E s \in Secondaries, o \in Objects : vkCmdDraw(s, o)
  \/ \E p \in Primaries, s \in Secondaries : vkCmdExecuteCommands(p, s)
  \/ \E p \in Primaries, s1, s2 \in Secondaries : vkCmdExecuteTwo(p, s1, s2)
Next == ~ broken /\ Running

Spec == Init /\ [][Next]_vars

-----------------------------------------------------------------------------
(* The blocks the buffers hold, each buffer's by number.                   *)
heldBlocks == UNION {{b} \X (1 .. held[b]) : b \in Buffers}

(* Blocks are neither lost nor held twice: the free ones and those of the  *)
(* live buffers are all there are, and buffers that are not live hold none *)
(* (command.c:130-137, 789-799).                                           *)
BlocksConserved ==
  /\ room \in 0 .. Blocks
  /\ room + Cardinality(heldBlocks) = Blocks
  /\ \A b \in Buffers : (b \in live) = (held[b] >= ListsOfBuffer)

(* An index copied from a secondary buffer names, among the handles of the *)
(* job it was copied to, the object the secondary recorded; also when the  *)
(* primary has earlier jobs or executes several buffers.  Not claimed of   *)
(* words copied by a second execution, which translates what the first one *)
(* wrote in place (command.c:1029), nor of words copied after the bin list *)
(* moved in the same call (command.c:1004).                                *)
CopiedIndicesNameHandles ==
  \A p \in Primaries :
    \A i \in DOMAIN words[p] :
      LET w == words[p][i] IN
      w.sure => /\ w.job + w.index + 1 \in DOMAIN handles[p]
                /\ handles[p][w.job + w.index + 1] = w.object
=============================================================================
