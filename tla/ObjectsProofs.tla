---------------------------- MODULE ObjectsProofs ----------------------------
(***************************************************************************)
(* Objects of any number, with any create infos and any number of shader   *)
(* stages: destroying returns what creating allocated, mappings stay, and  *)
(* the device file stays open; and the counters of queries and the sets of *)
(* a descriptor pool, each with the invariant it rests on.                 *)
(*                                                                         *)
(* The three parts of Objects share no state but who lives, so there are   *)
(* three invariants, each inductive under TypeOK alone.                    *)
(***************************************************************************)
EXTENDS MCObjects, FiniteSetTheorems, SequenceTheorems, NaturalsInduction,
        WellFoundedInduction, TLAPS

(* What the variables hold, whatever the part in use; flags are only tested. *)
TypeOK ==
  /\ uses \in {"objects", "memory", "instances"}
  /\ info \in [Ids -> Infos \cup {MemoryInfo}]
  /\ status \in [Ids -> {"none", "live", "failed", "gone"}]
  /\ size \in [Ids -> Nat]
  /\ mapped \in [Ids -> [at : Int, len : Nat]]
  /\ pages \in [1 .. Pages -> Ids \cup {None}]
  /\ controlFd \in Int /\ refCounter \in Int
  /\ IsFiniteSet(openFiles) /\ IsFiniteSet(users) /\ users \subseteq Ids

-----------------------------------------------------------------------------
(* What is allocated belongs to an object that was created: to a live one  *)
(* parts its create info has, to a gone one at most what is known to stay, *)
(* and what was freed but never allocated is as known.                     *)
LiveHas(o) == IF uses = "instances" THEN {Part("instance")} ELSE Range(Parts(info[o].kind))
PartsOK(o) ==
  /\ status[o] = "live" => \A a \in heap : a[1] = o => \E p \in LiveHas(o) : a = <<o, p>>
  /\ status[o] = "gone" =>
       \/ Of(o) = {}
       \/ info[o].kind = "QueryPool" /\ Of(o) = {<<o, Part("pool")>>}
       \/ info[o].kind = "Device" /\ Of(o) = {<<o, Part("emulation")>>}
WildOK(w) ==
  LET c == info[w[1]] IN
  /\ w[1] \in Ids /\ status[w[1]] = "gone"
  /\ \/ c.kind = "PipelineLayout" /\ ~ {Part("setLayouts"), Part("pushConstantRanges")} \subseteq c.given
     \/ c.kind = "DescriptorPool"
HeapOK ==
  /\ \A a \in heap : a[1] \in Ids /\ status[a[1]] # "none"
  /\ \A o \in Ids : PartsOK(o)
  /\ \A w \in wild : WildOK(w)

(* No mapping is longer than its memory, and none is there before it. *)
MappedOK ==
  \A o \in Ids : mapped[o].len <= size[o] /\ (status[o] = "none" => mapped[o].len = 0)

(* Memory that is mapped has the pages of its mapping, until memory that   *)
(* was mapped in part is freed.                                            *)
MappingOK(o) == \A p \in Place(mapped[o].at, mapped[o].len) : p \in 1 .. Pages /\ pages[p] = o
MappingsOK == ~ freedMapped => \A o \in Ids : MappingOK(o)

(* The counter counts the users, which are there: the live instances and   *)
(* those that failed with the file open.  As long as the file was not      *)
(* lost, it is open just when it has users.                                *)
FileOK ==
  /\ refCounter = Cardinality(users)
  /\ \A o \in users : status[o] # "none"
  /\ \A o \in Ids : uses = "instances" /\ status[o] = "live" => o \in users
  /\ ~ fileLost => IF users = {} THEN controlFd = 0 ELSE controlFd # 0 /\ controlFd \in openFiles

IInv == TypeOK /\ HeapOK /\ MappedOK /\ MappingsOK /\ FileOK

-----------------------------------------------------------------------------
(* Lemmas about the lists of parts. *)

(* What is in a sequence over S is in S. *)
LEMMA MembersOfSeq == ASSUME NEW S, NEW s \in Seq(S) PROVE Range(s) \subseteq S
BY DEF Range

(* There are as many stages as their number says. *)
LEMMA StagesAreCounted == Cardinality(Stages) \in Nat /\ Stages = 1 .. Cardinality(Stages)
BY ObjectsAssumption, FS_CardinalityType

(* Single parts, as a list. *)
LEMMA NamedIsOf ==
  ASSUME NEW S, NEW names, Len(names) \in Nat, DOMAIN names = 1 .. Len(names),
         \A n \in 1 .. Len(names) : Part(names[n]) \in S
  PROVE  Named(names) \in Seq(S)
BY DEF Named

(* A division by a positive number has a quotient and a remainder. *)
LEMMA Division ==
  ASSUME NEW i \in Nat, NEW n \in Nat \ {0}, NEW k \in Nat, i < k * n
  PROVE  i % n \in 0 .. n - 1 /\ i \div n \in 0 .. k - 1
<1>1. i = n * (i \div n) + (i % n) /\ i % n \in 0 .. n - 1 /\ i \div n \in Nat
  OBVIOUS
<1>2. ASSUME NEW q \in Nat, q >= k PROVE n * q >= n * k
  BY <1>2
<1> QED
  BY <1>1, <1>2

(* Parts that every stage has, as a list. *)
LEMMA InTurnIsOf ==
  ASSUME NEW S, NEW names, Len(names) \in Nat \ {0},
         \A n \in 1 .. Len(names) : PerStage(names[n]) \subseteq S
  PROVE  InTurn(names) \in Seq(S)
<1> DEFINE n == Len(names)
           k == Cardinality(Stages)
           list == [i \in 1 .. k * n |-> <<names[1 + ((i - 1) % n)], 1 + ((i - 1) \div n)>>]
<1>1. n \in Nat \ {0} /\ k \in Nat /\ k * n \in Nat
  BY StagesAreCounted
<1>2. ASSUME NEW i \in 1 .. k * n
      PROVE  <<names[1 + ((i - 1) % n)], 1 + ((i - 1) \div n)>> \in S
  <2>1. i - 1 \in Nat /\ i - 1 < k * n
    BY <1>1
  <2>2. (i - 1) % n \in 0 .. n - 1 /\ (i - 1) \div n \in 0 .. k - 1
    BY <1>1, <2>1, Division
  <2>3. 1 + ((i - 1) % n) \in 1 .. n /\ 1 + ((i - 1) \div n) \in Stages
    BY <1>1, <2>2, StagesAreCounted
  <2> QED
    BY <2>3 DEF PerStage
<1>3. PICK m \in Nat : m = k * n
  BY <1>1
<1>4. list \in [1 .. m -> S]
  BY <1>2, <1>3
<1>5. list = InTurn(names)
  BY DEF InTurn
<1> HIDE DEF list
<1> QED
  BY <1>4, <1>5

(* What an object has is what destroying it frees, but for the struct of a *)
(* query pool and what a device made for emulated commands.                *)
Kept(kind) ==
  CASE kind = "QueryPool" -> {Part("pool")}
    [] kind = "Device" -> {Part("emulation")}
    [] OTHER -> {}
LEMMA PartsAreFreed ==
  ASSUME NEW kind \in ObjectKinds
  PROVE  Range(Parts(kind)) \subseteq Freed(kind) \cup Kept(kind)
<1> DEFINE F == Freed(kind) \cup Kept(kind)
<1> SUFFICES Parts(kind) \in Seq(F)
  BY MembersOfSeq
<1>1. CASE kind = "GraphicsPipeline"
  <2>1. F = PipelineFreed /\ Parts(kind) = GraphicsPipeline
    BY <1>1 DEF Freed, Kept, Parts
  <2>2. Named(<<"pipeline">>) \in Seq(F)
    BY <2>1, NamedIsOf DEF PipelineFreed
  <2>3. InTurn(<<"name">>) \in Seq(F)
    BY <2>1, InTurnIsOf DEF PipelineFreed
  <2>4. Named(<<"attributes", "bindings", "viewports", "scissors", "blendStates",
                "dynamicStates">>) \in Seq(F)
    BY <2>1, NamedIsOf DEF PipelineFreed
  <2> QED
    BY <2>1, <2>2, <2>3, <2>4 DEF GraphicsPipeline
<1>2. CASE kind = "PipelineLayout"
  <2>1. F = PipelineLayoutFreed /\ Parts(kind) = PipelineLayout
    BY <1>2 DEF Freed, Kept, Parts
  <2>2. Named(<<"layout", "setLayouts", "pushConstantRanges", "elements">>) \in Seq(F)
    BY <2>1, NamedIsOf DEF PipelineLayoutFreed
  <2> QED
    BY <2>1, <2>2 DEF PipelineLayout
<1>3. CASE kind = "RenderPass"
  <2>1. F = RenderPassFreed /\ Parts(kind) = RenderPass
    BY <1>3 DEF Freed, Kept, Parts
  <2>2. Named(<<"renderPass", "attachments", "subpasses">>) \in Seq(F)
    BY <2>1, NamedIsOf DEF RenderPassFreed
  <2>3. InTurn(References) \in Seq(F)
    BY <2>1, InTurnIsOf DEF RenderPassFreed, References
  <2>4. Named(<<"dependencies">>) \in Seq(F)
    BY <2>1, NamedIsOf DEF RenderPassFreed
  <2> QED
    BY <2>1, <2>2, <2>3, <2>4 DEF RenderPass
<1>4. CASE kind = "Framebuffer"
  <2>1. F = FramebufferFreed /\ Parts(kind) = Framebuffer
    BY <1>4 DEF Freed, Kept, Parts
  <2>2. Named(<<"framebuffer", "attachmentViews">>) \in Seq(F)
    BY <2>1, NamedIsOf DEF FramebufferFreed
  <2> QED
    BY <2>1, <2>2 DEF Framebuffer
<1>5. CASE kind = "ShaderModule"
  <2>1. F = ShaderModuleFreed /\ Parts(kind) = ShaderModule
    BY <1>5 DEF Freed, Kept, Parts
  <2>2. Named(<<"shader">>) \in Seq(F)
    BY <2>1, NamedIsOf DEF ShaderModuleFreed
  <2>3. InTurn(<<"code", "mappings">>) \in Seq(F)
    BY <2>1, InTurnIsOf DEF ShaderModuleFreed
  <2> QED
    BY <2>1, <2>2, <2>3 DEF ShaderModule
<1>6. CASE kind = "Image"
  <2>1. F = ImageFreed /\ Parts(kind) = Image
    BY <1>6 DEF Freed, Kept, Parts
  <2>2. Named(<<"image", "queueFamilies">>) \in Seq(F)
    BY <2>1, NamedIsOf DEF ImageFreed
  <2> QED
    BY <2>1, <2>2 DEF Image
<1>7. CASE kind = "QueryPool"
  <2>1. F = QueryPoolFreed \cup {Part("pool")} /\ Parts(kind) = QueryPool
    BY <1>7 DEF Freed, Kept, Parts
  <2>2. Named(<<"pool", "queries", "perfmons">>) \in Seq(F)
    BY <2>1, NamedIsOf DEF QueryPoolFreed
  <2> QED
    BY <2>1, <2>2 DEF QueryPool
<1>8. CASE kind = "DescriptorSetLayout"
  <2>1. F = DescriptorSetLayoutFreed /\ Parts(kind) = DescriptorSetLayout
    BY <1>8 DEF Freed, Kept, Parts
  <2>2. Named(<<"layout", "bindings">>) \in Seq(F)
    BY <2>1, NamedIsOf DEF DescriptorSetLayoutFreed
  <2> QED
    BY <2>1, <2>2 DEF DescriptorSetLayout
<1>9. CASE kind = "DescriptorPool"
  <2>1. F = DescriptorPoolFreed /\ Parts(kind) = DescriptorPool
    BY <1>9 DEF Freed, Kept, Parts
  <2>2. Named(<<"pool", "sets", "elements", "images", "buffers", "texelBuffers">>) \in Seq(F)
    BY <2>1, NamedIsOf DEF DescriptorPoolFreed
  <2> QED
    BY <2>1, <2>2 DEF DescriptorPool
<1>10. CASE kind = "CommandPool"
  <2>1. F = CommandPoolFreed /\ Parts(kind) = CommandPool
    BY <1>10 DEF Freed, Kept, Parts
  <2>2. Named(<<"pool", "commandBuffers", "blocks">>) \in Seq(F)
    BY <2>1, NamedIsOf DEF CommandPoolFreed
  <2> QED
    BY <2>1, <2>2 DEF CommandPool
<1>11. CASE kind = "Device"
  <2>1. F = DeviceFreed \cup {Part("emulation")} /\ Parts(kind) = Device
    BY <1>11 DEF Freed, Kept, Parts
  <2>2. Named(<<"device", "queues", "emulation">>) \in Seq(F)
    BY <2>1, NamedIsOf DEF DeviceFreed
  <2> QED
    BY <2>1, <2>2 DEF Device
<1>12. CASE kind = "DeviceMemory"
  <2>1. F = MemoryFreed /\ Parts(kind) = DeviceMemory
    BY <1>12 DEF Freed, Kept, Parts
  <2>2. Named(<<"bo", "memory">>) \in Seq(F)
    BY <2>1, NamedIsOf DEF MemoryFreed
  <2> QED
    BY <2>1, <2>2 DEF DeviceMemory
<1>13. CASE kind \in {"ImageView", "Buffer", "BufferView", "Sampler", "Fence", "Semaphore"}
  <2>1. PICK name : Parts(kind) = Named(<<name>>)
    BY <1>13 DEF Parts, ImageView, Buffer, BufferView, Sampler, Fence, Semaphore
  <2>2. Parts(kind) = <<Part(name)>>
    BY <2>1 DEF Named
  <2>3. F = {Part(name)}
    BY <1>13, <2>2 DEF Freed, Kept
  <2> QED
    BY <2>2, <2>3
<1> QED
  BY <1>1, <1>2, <1>3, <1>4, <1>5, <1>6, <1>7, <1>8, <1>9, <1>10, <1>11, <1>12, <1>13 DEF ObjectKinds

-----------------------------------------------------------------------------
(* The three parts, each at its start and under a step of one object.      *)

(* The invariant holds of the initial states. *)
LEMMA InitInvariant == Init => IInv
<1> SUFFICES ASSUME Init PROVE IInv
  OBVIOUS
<1> USE DEF Init
<1>1. TypeOK
  <2>1. IsFiniteSet(openFiles) /\ IsFiniteSet(users)
    BY FS_EmptySet
  <2>2. /\ size \in [Ids -> Nat] /\ mapped \in [Ids -> [at : Int, len : Nat]]
        /\ pages \in [1 .. Pages -> Ids \cup {None}]
    OBVIOUS
  <2>3. /\ info \in [Ids -> Infos \cup {MemoryInfo}]
        /\ status \in [Ids -> {"none", "live", "failed", "gone"}]
    OBVIOUS
  <2> QED
    BY <2>1, <2>2, <2>3 DEF TypeOK
<1>2. HeapOK
  BY DEF HeapOK, PartsOK
<1>3. MappedOK
  BY DEF MappedOK
<1>4. FileOK
  BY FS_EmptySet DEF FileOK
<1>5. MappingsOK
  BY DEF MappingsOK, MappingOK, Place
<1> QED
  BY <1>1, <1>2, <1>3, <1>4, <1>5 DEF IInv

(* Only what belongs to one object changes. *)
StatusStep(o) ==
  /\ uses' = uses
  /\ status' = [status EXCEPT ![o] = status'[o]]
  /\ info' = [info EXCEPT ![o] = info'[o]]
HeapStep(o) ==
  /\ StatusStep(o)
  /\ \A a \in heap' : a \in heap \/ a[1] = o
  /\ \A a \in heap : a \in heap' \/ a[1] = o
  /\ \A w \in wild' : w \in wild \/ w[1] = o

(* The types of what belongs to one object are kept. *)
LEMMA StatusTypes ==
  ASSUME TypeOK, NEW o \in Ids, StatusStep(o),
         status'[o] \in {"none", "live", "failed", "gone"}, info'[o] \in Infos \cup {MemoryInfo}
  PROVE  /\ uses' \in {"objects", "memory", "instances"}
         /\ info' \in [Ids -> Infos \cup {MemoryInfo}]
         /\ status' \in [Ids -> {"none", "live", "failed", "gone"}]
BY DEF TypeOK, StatusStep

(* A step of one object leaves what belongs to the others as it is.        *)
LEMMA HeapStepOK ==
  ASSUME TypeOK, HeapOK, NEW o \in Ids, HeapStep(o),
         status[o] # "gone", status'[o] # "none", PartsOK(o)',
         \A w \in wild' : w[1] = o => WildOK(w)'
  PROVE  HeapOK'
<1>1. \A u \in Ids \ {o} : status'[u] = status[u] /\ info'[u] = info[u] /\ uses' = uses
  BY DEF TypeOK, HeapStep, StatusStep
<1>2. ASSUME NEW a \in heap' PROVE a[1] \in Ids /\ status'[a[1]] # "none"
  BY <1>1, <1>2 DEF HeapStep, HeapOK
<1>3. ASSUME NEW u \in Ids \ {o} PROVE PartsOK(u)'
  <2>1. Of(u)' = Of(u) /\ \A a \in heap' : a[1] = u => a \in heap
    BY <1>3 DEF Of, HeapStep
  <2>2. LiveHas(u)' = LiveHas(u)
    BY <1>1, <1>3 DEF LiveHas
  <2>3. PartsOK(u)
    BY DEF HeapOK
  <2> QED
    BY <1>1, <2>1, <2>2, <2>3 DEF PartsOK
<1>4. ASSUME NEW w \in wild' PROVE WildOK(w)'
  <2>1. CASE w \in wild
    BY <1>1, <2>1 DEF HeapOK, WildOK
  <2> QED
    BY <2>1 DEF HeapStep
<1> QED
  BY <1>2, <1>3, <1>4 DEF HeapOK

(* Nothing is allocated for an object that was not created. *)
LEMMA NothingBefore == ASSUME HeapOK, NEW o, status[o] = "none" PROVE \A a \in heap : a[1] # o
BY DEF HeapOK

(* Creating an object, completely or not. *)
LEMMA CreateStep ==
  ASSUME TypeOK, HeapOK, uses # "instances", uses' = uses,
         NEW o \in Ids, NEW c \in Infos \cup {MemoryInfo}, NEW k \in {0} \cup Steps(c),
         create(o, c, k)
  PROVE  /\ StatusStep(o) /\ HeapOK'
         /\ status[o] = "none" /\ status'[o] \in {"live", "failed"} /\ info'[o] = c
<1>1. StatusStep(o) /\ status[o] = "none" /\ status'[o] \in {"live", "failed"} /\ info'[o] = c
  BY DEF create, Mark, TypeOK, StatusStep
<1>2. \A q \in Allocated(c) \cup Before(c, k) : q \in Range(Parts(c.kind))
  BY DEF Allocated, Before, Steps, Range
<1>3. PICK new : new \subseteq Range(Parts(c.kind)) /\ heap' = heap \cup {<<o, q>> : q \in new}
  BY <1>2 DEF create
<1>4. HeapStep(o)
  BY <1>1, <1>3 DEF HeapStep, create
<1>5. PartsOK(o)'
  <2>1. LiveHas(o)' = Range(Parts(c.kind))
    BY <1>1 DEF LiveHas
  <2> QED
    BY <1>1, <1>3, <2>1, NothingBefore DEF PartsOK
<1>6. \A w \in wild' : w[1] # o
  BY <1>1 DEF HeapOK, WildOK, create
<1> QED
  BY <1>1, <1>4, <1>5, <1>6, HeapStepOK

(* Destroying an object. *)
LEMMA DestroyStep ==
  ASSUME TypeOK, HeapOK, uses # "instances", uses' = uses, NEW o \in Ids, destroy(o)
  PROVE  /\ StatusStep(o) /\ HeapOK'
         /\ status[o] = "live" /\ status'[o] = "gone" /\ info'[o] = info[o]
<1> DEFINE c == info[o]
<1>1. StatusStep(o) /\ status[o] = "live" /\ status'[o] = "gone" /\ info'[o] = c
  BY DEF destroy, Mark, TypeOK, StatusStep
<1>2. HeapStep(o)
  BY <1>1 DEF HeapStep, destroy
<1>3. c.kind \in ObjectKinds
  BY ObjectsAssumption DEF TypeOK, MemoryInfo, ObjectKinds
<1>4. \A a \in heap' : a[1] = o => \E p \in Kept(c.kind) : a = <<o, p>>
  <2>1. \A a \in heap : a[1] = o => \E p \in Range(Parts(c.kind)) : a = <<o, p>>
    BY <1>1 DEF HeapOK, PartsOK, LiveHas
  <2>2. heap' = heap \ {<<o, p>> : p \in Freed(c.kind)}
    BY DEF destroy
  <2> HIDE DEF c
  <2> QED
    BY <1>3, <2>1, <2>2, PartsAreFreed
<1>5. PartsOK(o)'
  BY <1>1, <1>4 DEF PartsOK, Of, Kept
<1>6. ASSUME NEW w \in wild', w[1] = o PROVE WildOK(w)'
  <2>1. w \notin wild
    BY <1>1, <1>6 DEF HeapOK, WildOK
  <2>2. LeftUnset(c) # {}
    BY <2>1 DEF destroy
  <2> QED
    BY <1>1, <1>6, <2>2 DEF WildOK, LeftUnset
<1> QED
  BY <1>1, <1>2, <1>5, <1>6, HeapStepOK

(* Memory and its mappings, at every step. *)
LEMMA MemoryStep ==
  ASSUME TypeOK, HeapOK, MappedOK, MappingsOK, uses = "memory", uses' = uses, NEW o \in Ids,
         vkAllocateMemory(o) \/ vkMapMemory(o) \/ vkUnmapMemory(o) \/ vkFreeMemory(o)
  PROVE  TypeOK' /\ HeapOK' /\ MappedOK' /\ MappingsOK'
<1>1. CASE vkAllocateMemory(o)
  <2>1. PICK k \in {0} \cup Steps(MemoryInfo) : create(o, MemoryInfo, k)
    BY <1>1 DEF vkAllocateMemory
  <2>2. /\ StatusStep(o) /\ HeapOK' /\ status[o] = "none"
        /\ status'[o] \in {"live", "failed"} /\ info'[o] = MemoryInfo
    BY <2>1, CreateStep
  <2>3. PICK n \in 1 .. MaxSize : size' = [size EXCEPT ![o] = n]
    BY <1>1 DEF vkAllocateMemory
  <2>4. UNCHANGED <<mapped, pages, freedMapped, fileVars>>
    BY <1>1 DEF vkAllocateMemory
  <2>5. TypeOK'
    <3>1. size' \in [Ids -> Nat]
      BY <2>3, ObjectsAssumption DEF TypeOK
    <3> QED
      BY <2>2, <2>4, <3>1, StatusTypes DEF TypeOK, fileVars
  <2>6. MappedOK'
    BY <2>2, <2>3, <2>4 DEF TypeOK, StatusStep, MappedOK
  <2>7. MappingsOK'
    BY <2>4 DEF MappingsOK, MappingOK
  <2> QED
    BY <2>2, <2>5, <2>6, <2>7
<1>2. CASE vkMapMemory(o)
  <2>1. /\ status[o] = "live" /\ mapped[o].len = 0
        /\ UNCHANGED <<objectVars, size, freedMapped, fileVars>>
    BY <1>2 DEF vkMapMemory
  <2>2. PICK n \in 1 .. size[o], at \in 1 .. Pages :
          /\ Place(at, n) \subseteq 1 .. Pages
          /\ \A p \in Place(at, n) : pages[p] = None
          /\ pages' = [p \in 1 .. Pages |-> IF p \in Place(at, n) THEN o ELSE pages[p]]
          /\ mapped' \in {mapped, [mapped EXCEPT ![o] = [at |-> at, len |-> n]]}
    BY <1>2 DEF vkMapMemory
  <2>3. HeapOK'
    BY <2>1 DEF objectVars, HeapOK, PartsOK, WildOK, LiveHas, Of
  <2>4. n \in Nat /\ at \in Int /\ n <= size[o]
    BY <2>2 DEF TypeOK
  <2>5. TypeOK'
    <3>1. /\ pages' \in [1 .. Pages -> Ids \cup {None}]
          /\ mapped' \in [Ids -> [at : Int, len : Nat]]
      BY <2>2, <2>4 DEF TypeOK
    <3> QED
      BY <2>1, <3>1 DEF TypeOK, objectVars, fileVars
  <2>6. MappedOK'
    <3>1. \A u \in Ids : mapped'[u] = mapped[u] \/ (u = o /\ mapped'[u].len = n)
      BY <2>2 DEF TypeOK
    <3> QED
      BY <2>1, <2>4, <3>1 DEF objectVars, MappedOK
  <2>7. ASSUME MappingsOK, ~ freedMapped, NEW u \in Ids PROVE MappingOK(u)'
    <3>1. CASE u = o /\ mapped' # mapped
      <4>1. mapped'[u].at = at /\ mapped'[u].len = n
        BY <2>2, <3>1 DEF TypeOK
      <4> QED
        BY <2>2, <3>1, <4>1 DEF MappingOK
    <3>2. CASE mapped'[u] = mapped[u]
      <4>1. \A p \in Place(mapped[u].at, mapped[u].len) : p \in 1 .. Pages /\ pages[p] = u
        BY <2>7 DEF MappingsOK, MappingOK
      <4>2. u # None
        BY ObjectsAssumption DEF None
      <4> QED
        BY <2>2, <3>2, <4>1, <4>2 DEF MappingOK
    <3> QED
      BY <2>2, <3>1, <3>2 DEF TypeOK
  <2> QED
    BY <2>1, <2>3, <2>5, <2>6, <2>7 DEF MappingsOK
<1> DEFINE unmapped == [mapped EXCEPT ![o] = [at |-> 0, len |-> 0]]
<1>3. ASSUME NEW len \in {mapped[o].len, size[o]}, mapped' = unmapped, size' = size,
             mapped[o].len # 0, pages' = Removed(pages, mapped[o].at, len)
      PROVE  /\ pages' \in [1 .. Pages -> Ids \cup {None}]
             /\ ~ freedMapped /\ len = mapped[o].len => \A u \in Ids : MappingOK(u)'
  <2>1. pages' \in [1 .. Pages -> Ids \cup {None}]
    BY <1>3 DEF Removed, TypeOK
  <2>2. ASSUME ~ freedMapped, len = mapped[o].len, NEW u \in Ids \ {o} PROVE MappingOK(u)'
    <3>1. mapped'[u] = mapped[u]
      BY <1>3, <2>2 DEF TypeOK
    <3>2. \A p \in Place(mapped[u].at, mapped[u].len) : p \in 1 .. Pages /\ pages[p] = u
      BY <2>2 DEF MappingsOK, MappingOK
    <3>3. \A p \in Place(mapped[o].at, mapped[o].len) : pages[p] = o
      BY <2>2 DEF MappingsOK, MappingOK
    <3> QED
      BY <1>3, <2>2, <3>1, <3>2, <3>3 DEF Removed, MappingOK
  <2>3. MappingOK(o)'
    <3>1. mapped'[o].len = 0 /\ mapped'[o].at = 0
      BY <1>3 DEF TypeOK
    <3> QED
      BY <3>1 DEF MappingOK, Place
  <2> QED
    BY <2>1, <2>2, <2>3
<1>4. CASE vkUnmapMemory(o)
  <2>1. /\ mapped' = unmapped /\ mapped[o].len # 0
        /\ pages' = Removed(pages, mapped[o].at, mapped[o].len)
        /\ UNCHANGED <<objectVars, size, freedMapped, fileVars>>
    BY <1>4 DEF vkUnmapMemory, TypeOK
  <2>2. HeapOK'
    BY <2>1 DEF objectVars, HeapOK, PartsOK, WildOK, LiveHas, Of
  <2>3. /\ pages' \in [1 .. Pages -> Ids \cup {None}]
        /\ ~ freedMapped => \A u \in Ids : MappingOK(u)'
    BY <1>3, <2>1
  <2>4. TypeOK'
    BY <2>1, <2>3 DEF TypeOK, objectVars, fileVars
  <2>5. MappedOK'
    BY <2>1 DEF TypeOK, objectVars, MappedOK
  <2>6. MappingsOK'
    BY <2>1, <2>3 DEF MappingsOK
  <2> QED
    BY <2>2, <2>4, <2>5, <2>6
<1>5. CASE vkFreeMemory(o)
  <2>1. /\ mapped' = unmapped /\ UNCHANGED <<size, fileVars>>
        /\ IF mapped[o].len = 0 THEN UNCHANGED <<pages, freedMapped>>
           ELSE /\ pages' = Removed(pages, mapped[o].at, size[o])
                /\ freedMapped' = (freedMapped \/ mapped[o].len < size[o])
    BY <1>5 DEF vkFreeMemory
  <2>2. /\ StatusStep(o) /\ HeapOK' /\ status[o] = "live"
        /\ status'[o] = "gone" /\ info'[o] = info[o]
    BY <1>5, DestroyStep DEF vkFreeMemory
  <2>3. mapped[o].len # 0 =>
          /\ pages' \in [1 .. Pages -> Ids \cup {None}]
          /\ ~ freedMapped' => size[o] = mapped[o].len /\ \A u \in Ids : MappingOK(u)'
    <3>1. mapped[o].len <= size[o] /\ mapped[o].len \in Nat /\ size[o] \in Nat
      BY DEF MappedOK, TypeOK
    <3>2. ASSUME mapped[o].len # 0, ~ freedMapped' PROVE ~ freedMapped /\ size[o] = mapped[o].len
      <4>1. ~ freedMapped /\ ~ mapped[o].len < size[o]
        BY <2>1, <3>2, Zenon
      <4> QED
        BY <3>1, <4>1
    <3> QED
      BY <1>3, <2>1, <3>2
  <2>4. TypeOK'
    <3>1. info[o] \in Infos \cup {MemoryInfo} /\ unmapped \in [Ids -> [at : Int, len : Nat]]
      BY DEF TypeOK
    <3>2. pages' \in [1 .. Pages -> Ids \cup {None}]
      BY <2>1, <2>3 DEF TypeOK
    <3> HIDE DEF unmapped
    <3> QED
      BY <2>1, <2>2, <3>1, <3>2, StatusTypes DEF TypeOK, fileVars
  <2>5. MappedOK'
    BY <2>1, <2>2 DEF TypeOK, StatusStep, MappedOK
  <2>6. MappingsOK'
    <3>1. ASSUME mapped[o].len = 0, ~ freedMapped, NEW u \in Ids PROVE MappingOK(u)'
      <4>1. /\ mapped'[u].len = mapped[u].len
            /\ u # o => mapped'[u] = mapped[u]
            /\ u = o => mapped'[u].len = 0 /\ mapped'[u].at = 0
        BY <2>1, <3>1 DEF TypeOK
      <4> QED
        BY <2>1, <3>1, <4>1 DEF MappingsOK, MappingOK, Place
    <3> QED
      BY <2>1, <2>3, <3>1 DEF MappingsOK
  <2> QED
    BY <2>2, <2>4, <2>5, <2>6
<1> QED
  BY <1>1, <1>2, <1>4, <1>5

(* Instances: what opening and closing the device file does to its users.  *)
LEMMA OpenStep ==
  ASSUME TypeOK, FileOK, openIoctl
  PROVE  /\ controlFd' \in Int /\ IsFiniteSet(openFiles') /\ refCounter' = refCounter + 1
         /\ controlFd # 0 => controlFd' = controlFd /\ openFiles' = openFiles
         /\ controlFd = 0 => controlFd' # 0 /\ controlFd' \in openFiles'
<1>1. Cardinality(openFiles) \in Nat
  BY FS_CardinalityType DEF TypeOK
<1>2. CASE Open
  <2>1. IsFiniteSet(openFiles')
    BY <1>2, FS_AddElement DEF Open, TypeOK
  <2> QED
    BY <1>1, <1>2, <2>1 DEF openIoctl, Open
<1> QED
  BY <1>2 DEF openIoctl, TypeOK

(* Instances, at every step. *)
LEMMA InstanceStep ==
  ASSUME TypeOK, HeapOK, MappedOK, FileOK, uses = "instances", uses' = uses, NEW o \in Ids,
         vkCreateInstance(o) \/ vkDestroyInstance(o)
  PROVE  TypeOK' /\ HeapOK' /\ MappedOK' /\ FileOK'
<1> DEFINE instance == <<o, Part("instance")>>
<1>0. /\ info' = info /\ wild' = wild /\ UNCHANGED memoryVars
      /\ status' = [status EXCEPT ![o] = status'[o]] /\ StatusStep(o)
      /\ \/ status[o] = "none" /\ status'[o] \in {"failed", "live"}
         \/ status[o] = "live" /\ status'[o] = "gone"
  BY DEF vkCreateInstance, vkDestroyInstance, Mark, TypeOK, StatusStep
<1>1. HeapOK'
  <2>1. HeapStep(o)
    BY <1>0 DEF vkCreateInstance, vkDestroyInstance, HeapStep
  <2>2. status'[o] = "live" => \A a \in heap' : a \in heap \/ a = instance
    BY <1>0 DEF vkCreateInstance, vkDestroyInstance, Mark, TypeOK
  <2>3. status'[o] = "gone" => \A a \in heap' : a \in heap /\ a # instance
    BY <1>0 DEF vkCreateInstance, vkDestroyInstance, Mark, TypeOK
  <2>4. PartsOK(o)'
    <3>1. LiveHas(o)' = {Part("instance")} /\ LiveHas(o) = {Part("instance")}
      BY DEF LiveHas
    <3>2. CASE status[o] = "none"
      BY <1>0, <2>2, <3>1, <3>2, NothingBefore DEF PartsOK
    <3>3. CASE status[o] = "live"
      <4>1. \A a \in heap : a[1] = o => a = instance
        BY <3>1, <3>3 DEF HeapOK, PartsOK
      <4>2. Of(o)' = {}
        BY <1>0, <2>3, <3>3, <4>1 DEF Of
      <4> QED
        BY <1>0, <3>3, <4>2 DEF PartsOK
    <3> QED
      BY <1>0, <3>2, <3>3
  <2>5. \A w \in wild' : w[1] # o
    BY <1>0 DEF HeapOK, WildOK
  <2> QED
    BY <1>0, <2>1, <2>4, <2>5, HeapStepOK
<1>2. MappedOK'
  BY <1>0 DEF MappedOK, memoryVars, TypeOK
<1>3. /\ uses' \in {"objects", "memory", "instances"}
      /\ info' \in [Ids -> Infos \cup {MemoryInfo}]
      /\ status' \in [Ids -> {"none", "live", "failed", "gone"}]
  BY <1>0, StatusTypes DEF TypeOK
<1>4. /\ \A u \in Ids \ {o} : status'[u] = status[u]
      /\ Cardinality(users) \in Nat /\ o \in Ids
  BY <1>0, FS_CardinalityType DEF TypeOK
<1>5. CASE UNCHANGED fileVars /\ status'[o] = "failed"
  <2>1. TypeOK'
    BY <1>0, <1>3, <1>5 DEF TypeOK, fileVars, memoryVars
  <2>2. FileOK'
    BY <1>4, <1>5 DEF FileOK, fileVars, TypeOK
  <2> QED
    BY <1>1, <1>2, <2>1, <2>2
<1>6. CASE openIoctlFails /\ status'[o] = "failed"
  <2>1. TypeOK'
    BY <1>0, <1>3, <1>6 DEF TypeOK, openIoctlFails, memoryVars
  <2>2. FileOK'
    BY <1>4, <1>6 DEF FileOK, openIoctlFails, TypeOK
  <2> QED
    BY <1>1, <1>2, <2>1, <2>2
<1>7. CASE /\ openIoctl /\ users' = users \cup {o} /\ fileLost' = fileLost
           /\ status[o] = "none" /\ status'[o] \in {"failed", "live"}
  <2>1. o \notin users
    BY <1>7 DEF FileOK
  <2>2. IsFiniteSet(users') /\ Cardinality(users') = Cardinality(users) + 1
    BY <1>7, <2>1, FS_AddElement DEF TypeOK
  <2>3. TypeOK'
    BY <1>0, <1>3, <1>4, <1>7, <2>2, OpenStep DEF TypeOK, memoryVars
  <2>4. FileOK'
    BY <1>4, <1>7, <2>2, OpenStep DEF FileOK, TypeOK
  <2> QED
    BY <1>1, <1>2, <2>3, <2>4
<1>8. CASE vkDestroyInstance(o)
  <2>1. /\ closeIoctl /\ users' = users \ {o} /\ (fileLost \/ users' = {} => fileLost')
        /\ fileLost => fileLost'
        /\ status[o] = "live" /\ status'[o] = "gone"
    BY <1>0, <1>8 DEF vkDestroyInstance
  <2>2. o \in users
    BY <2>1 DEF FileOK
  <2>3. IsFiniteSet(users') /\ Cardinality(users') = Cardinality(users) - 1
    BY <2>1, <2>2, FS_RemoveElement DEF TypeOK
  <2>4. Cardinality(users') = 0 => users' = {}
    BY <2>3, FS_EmptySet
  <2>5. /\ IsFiniteSet(openFiles') /\ refCounter' = refCounter - 1 /\ controlFd' = controlFd
        /\ refCounter' # 0 => openFiles' = openFiles
    <3>1. openFiles' \subseteq openFiles
      BY <2>1 DEF closeIoctl
    <3> QED
      BY <2>1, <3>1, FS_Subset DEF closeIoctl, TypeOK
  <2>6. TypeOK'
    BY <1>0, <1>3, <2>1, <2>3, <2>5 DEF TypeOK, memoryVars
  <2>7. FileOK'
    <3>1. refCounter' = Cardinality(users')
      BY <1>4, <2>3, <2>5 DEF FileOK
    <3>2. \A u \in users' : status'[u] # "none"
      BY <1>4, <2>1 DEF FileOK, TypeOK
    <3>3. \A u \in Ids : uses' = "instances" /\ status'[u] = "live" => u \in users'
      BY <1>4, <2>1 DEF FileOK, TypeOK
    <3>4. ASSUME ~ fileLost' PROVE users' # {} /\ controlFd' # 0 /\ controlFd' \in openFiles'
      <4>1. ~ fileLost /\ users' # {} /\ users # {}
        BY <2>1, <2>2, <3>4
      <4>2. openFiles' = openFiles /\ controlFd' = controlFd
        BY <2>4, <2>5, <3>1, <4>1
      <4> QED
        BY <4>1, <4>2 DEF FileOK
    <3> QED
      BY <3>1, <3>2, <3>3, <3>4 DEF FileOK
  <2> QED
    BY <1>1, <1>2, <2>6, <2>7
<1> QED
  <2>1. ASSUME vkCreateInstance(o)
        PROVE  \/ UNCHANGED fileVars /\ status'[o] = "failed"
               \/ openIoctlFails /\ status'[o] = "failed"
               \/ /\ openIoctl /\ users' = users \cup {o} /\ fileLost' = fileLost
                  /\ status[o] = "none" /\ status'[o] \in {"failed", "live"}
    BY <2>1 DEF vkCreateInstance, Mark, TypeOK
  <2> QED
    BY <1>5, <1>6, <1>7, <1>8, <2>1

-----------------------------------------------------------------------------
(* The invariant holds of every execution: an object's own step keeps its  *)
(* part, and what it leaves alone the other two.                           *)
LEMMA StepInvariant == IInv /\ [Next]_vars => IInv'
<1> SUFFICES ASSUME IInv, [Next]_vars PROVE IInv'
  OBVIOUS
<1>0. TypeOK /\ HeapOK /\ MappedOK /\ MappingsOK /\ FileOK
  BY DEF IInv
<1>2. CASE UNCHANGED vars
  <2> USE <1>0, <1>2 DEF vars, objectVars, memoryVars, fileVars
  <2>1. TypeOK'
    BY DEF TypeOK
  <2>2. HeapOK'
    BY DEF HeapOK, PartsOK, LiveHas, Of, WildOK
  <2>3. MappedOK' /\ MappingsOK'
    BY DEF MappedOK, MappingsOK, MappingOK
  <2>4. FileOK'
    BY DEF FileOK
  <2> QED
    BY <2>1, <2>2, <2>3, <2>4 DEF IInv
<1>3. ASSUME NEW o \in Ids, uses' = uses, uses = "objects", Creates(o) \/ Destroys(o)
      PROVE  IInv'
  <2>1. /\ HeapOK' /\ StatusStep(o) /\ UNCHANGED <<memoryVars, fileVars>>
        /\ info'[o] \in Infos \cup {MemoryInfo}
        /\ \/ status[o] = "none" /\ status'[o] \in {"live", "failed"}
           \/ status[o] = "live" /\ status'[o] = "gone"
    BY <1>0, <1>3, CreateStep, DestroyStep DEF Creates, Destroys, TypeOK
  <2>2. \A u \in Ids : status'[u] = "none" => status[u] = "none"
    BY <1>0, <2>1 DEF StatusStep, TypeOK
  <2>3. \A u \in Ids : status[u] # "none" => status'[u] # "none"
    BY <1>0, <2>1 DEF StatusStep, TypeOK
  <2>4. TypeOK'
    BY <1>0, <2>1, StatusTypes DEF TypeOK, memoryVars, fileVars
  <2>5. MappedOK' /\ MappingsOK'
    BY <1>0, <2>1, <2>2 DEF MappedOK, MappingsOK, MappingOK, memoryVars
  <2>6. FileOK'
    BY <1>0, <1>3, <2>1, <2>3 DEF FileOK, fileVars, TypeOK
  <2> QED
    BY <2>1, <2>4, <2>5, <2>6 DEF IInv
<1>4. ASSUME NEW o \in Ids, uses' = uses, uses = "memory",
             \/ vkAllocateMemory(o) \/ vkMapMemory(o) \/ vkUnmapMemory(o) \/ vkFreeMemory(o)
      PROVE  IInv'
  <2>1. TypeOK' /\ HeapOK' /\ MappedOK' /\ MappingsOK'
    BY <1>0, <1>4, MemoryStep
  <2>2. UNCHANGED fileVars
    BY <1>4 DEF vkAllocateMemory, vkMapMemory, vkUnmapMemory, vkFreeMemory
  <2>3. \A u \in Ids : status[u] # "none" => status'[u] # "none"
    BY <1>0, <1>4
    DEF vkAllocateMemory, vkMapMemory, vkUnmapMemory, vkFreeMemory, create, destroy, Mark,
        objectVars, TypeOK
  <2>4. FileOK'
    BY <1>0, <1>4, <2>2, <2>3 DEF FileOK, fileVars, TypeOK
  <2> QED
    BY <2>1, <2>4 DEF IInv
<1>5. ASSUME NEW o \in Ids, uses' = uses, uses = "instances",
             vkCreateInstance(o) \/ vkDestroyInstance(o)
      PROVE  IInv'
  <2>1. TypeOK' /\ HeapOK' /\ MappedOK' /\ FileOK'
    BY <1>0, <1>5, InstanceStep
  <2>2. MappingsOK'
    BY <1>0, <1>5 DEF vkCreateInstance, vkDestroyInstance, memoryVars, MappingsOK, MappingOK
  <2> QED
    BY <2>1, <2>2 DEF IInv
<1> QED
  BY <1>2, <1>3, <1>4, <1>5 DEF Next

(* All three parts of the invariant are invariant. *)
THEOREM Invariance == Spec => []IInv
<1>1. Init => IInv
  BY InitInvariant
<1>2. IInv /\ [Next]_vars => IInv'
  BY StepInvariant
<1> QED
  BY <1>1, <1>2, PTL DEF Spec

(* Destroying an object gives back all that creating it allocated, but     *)
(* where that is known not to be so, for every create info (the vkCreate   *)
(* and vkDestroy calls of pipeline.c, renderpass.c, shader.c, resource.c,  *)
(* descriptorSet.c, query.c, command.c, memory.c and device.c).            *)
THEOREM DestroyingReturns == Spec => []DestroyReturnsEverything
<1>1. IInv => DestroyReturnsEverything
  BY DEF IInv, HeapOK, PartsOK, WildOK, DestroyReturnsEverything
<1> QED
  BY <1>1, Invariance, PTL

(* Mappings stay, for any number of memory objects and pages (memory.c).   *)
THEOREM MappingsAreKept == Spec => []MappingsStay
<1>1. IInv => MappingsStay
  BY DEF IInv, MappingsOK, MappingOK, MappingsStay
<1> QED
  BY <1>1, Invariance, PTL

(* The device file stays open while an instance lives, for any number of   *)
(* instances that come and go in any order (kernelInterface.c:9-40).       *)
THEOREM FileIsKeptOpen == Spec => []FileStaysOpen
<1>1. IInv => FileStaysOpen
  BY DEF IInv, FileOK, FileStaysOpen
<1> QED
  BY <1>1, Invariance, PTL


-----------------------------------------------------------------------------
(* Queries, as MCObjects instantiates them.  A pool knows its monitors,    *)
(* and as long as the first query is not spoiled, its monitors have        *)
(* counted the jobs they should have.                                      *)
Monitored == Q!Queries \X Q!Passes

IdsOK ==
  /\ perfmonIDs \in [Monitored -> Monitored \cup {Uninitialised, Refused}]
  /\ \A m \in Monitored :
       /\ perfmonIDs[m] \in {m, Uninitialised, Refused}
       /\ m[2] < Q!Monitors(pool) => perfmonIDs[m] # Uninitialised
  /\ 0 < Q!Monitors(pool) => perfmonIDs[<<0, 0>>] = <<0, 0>>
  /\ perfmonIDs[<<0, 1>>] = Refused => Len(pool) < NumEvents

CountsOK ==
  /\ monitors \in [Monitored -> [events : {Q!EventsOf(pool, d) : d \in Q!Passes}, jobs : Nat]]
  /\ \A m \in Monitored : monitors[m].events = Q!EventsOf(pool, m[2])
  /\ ran \in [Monitored -> Nat]
  /\ 0 \notin spoiled =>
       \A d \in Q!Passes : perfmonIDs[<<0, d>>] = <<0, d>> =>
                             monitors[<<0, d>>].jobs = ran[<<0, d>>]

QueriesInv ==
  /\ pool # NoQuery => pool \in Selections /\ IdsOK /\ CountsOK
  /\ perfmonID = active /\ perfmonID \in Q!Queries \cup {NoQuery}
  /\ markers = wanted /\ markers \in Seq(Q!Queries \cup {NoQuery})

(* Where the events of a query lie in its monitors.                        *)
LEMMA PlaceOfEvent ==
  ASSUME NEW n \in Nat, n <= 2 * PerMonitor, NEW k \in 1 .. n
  PROVE  LET d == (k - 1) \div PerMonitor
             r == (k - 1) % PerMonitor
         IN  /\ d \in {0, 1} /\ r \in Nat /\ d * PerMonitor + r = k - 1
             /\ r < n /\ r < PerMonitor
             /\ d < (n + PerMonitor - 1) \div PerMonitor
<1> DEFINE b == PerMonitor
           a == k - 1
           t == n + b - 1
<1>1. b \in Nat \ {0} /\ a \in Nat /\ a < n /\ a < 2 * b /\ t \in Nat
  BY QueriesAssumption
<1>2. CASE a < b
  <2>1. a \div b = 0 /\ a % b = a
    BY <1>1, <1>2
  <2>2. b <= t
    BY <1>1
  <2>3. t \div b >= 1
    BY <1>1, <2>2
  <2> QED
    BY <1>1, <1>2, <2>1, <2>3
<1>3. CASE b <= a
  <2>1. a \div b = 1 /\ a % b = a - b
    BY <1>1, <1>3
  <2>2. 2 * b <= t
    BY <1>1, <1>3
  <2>3. t \div b >= 2
    BY <1>1, <2>2
  <2> QED
    BY <1>1, <1>3, <2>1, <2>3
<1> QED
  BY <1>1, <1>2, <1>3

(* An event a monitor of a query is created with, and which monitors can   *)
(* have an event that was never written.                                   *)
LEMMA EventsAre ==
  ASSUME NEW c \in Selections, NEW d \in Q!Passes
  PROVE  /\ DOMAIN Q!EventsOf(c, d) = 0 .. Q!Min({Len(c), PerMonitor}) - 1
         /\ \A k \in 0 .. Q!Min({Len(c), PerMonitor}) - 1 :
              Q!EventsOf(c, d)[k] = Q!enabledCounter(c, d * PerMonitor + k)
BY DEF Q!EventsOf

LEMMA SmallerOf ==
  ASSUME NEW m \in Nat, NEW n \in Nat
  PROVE  Q!Min({m, n}) = IF m < n THEN m ELSE n
<1>1. CASE m < n
  BY <1>1 DEF Q!Min
<1>2. CASE ~ (m < n)
  BY <1>2 DEF Q!Min
<1> QED
  BY <1>1, <1>2

LEMMA UnwrittenEvents ==
  ASSUME NEW c \in Selections, NEW d \in Q!Passes, NEW id,
         Refused \in Q!vc4_create_perfmon(Q!EventsOf(c, d), id), id # Refused
  PROVE  d = 1 /\ Len(c) < NumEvents
<1>1. /\ c \in Seq(0 .. NumEvents - 1) /\ Len(c) \in Nat /\ PerMonitor \in Nat \ {0}
      /\ NumEvents \in Nat /\ Uninitialised \notin 0 .. NumEvents - 1 /\ Len(c) <= NumEvents
  BY QueriesAssumption
<1>2. d \in {0, 1}
  BY DEF Q!Passes
<1> DEFINE m == Q!Min({Len(c), PerMonitor})
<1>3. m \in Nat /\ m <= Len(c)
  BY <1>1, SmallerOf
<1>4. PICK k \in 0 .. m - 1 : Q!enabledCounter(c, d * PerMonitor + k) = Uninitialised
  <2>1. Uninitialised \in {Q!EventsOf(c, d)[k] : k \in DOMAIN Q!EventsOf(c, d)}
    BY DEF Q!vc4_create_perfmon
  <2> QED
    BY <2>1, EventsAre
<1> HIDE DEF m
<1>5. PICK i \in Nat : i = d * PerMonitor + k
  BY <1>1, <1>2, <1>3
<1>6. ~ (i < Len(c))
  <2>1. ASSUME i < Len(c)  PROVE  FALSE
    <3>1. i + 1 \in 1 .. Len(c)
      BY <1>1, <2>1
    <3>2. c[i + 1] \in 0 .. NumEvents - 1
      BY <1>1, <3>1, ElementOfSeq
    <3> QED
      BY <1>1, <1>4, <1>5, <2>1, <3>2 DEF Q!enabledCounter
  <2> QED
    BY <2>1
<1>7. d # 0
  BY <1>1, <1>3, <1>5, <1>6
<1>8. i < NumEvents \/ Uninitialised = 0
  BY <1>4, <1>5, <1>6 DEF Q!enabledCounter
<1>9. NumEvents # 0 \/ Len(c) < NumEvents
  BY <1>1, <1>3
<1> QED
  BY <1>1, <1>2, <1>3, <1>6, <1>7, <1>8, <1>9

LEMMA PoolsAreMonitored ==
  ASSUME NEW c \in Selections, Q!vkCreateQueryPool(c)
  PROVE  pool' = c /\ IdsOK' /\ CountsOK'
<1>1. PICK ids \in [Monitored -> {Uninitialised, Refused} \cup Monitored] :
        /\ perfmonIDs' = ids
        /\ \A m \in Monitored :
             ids[m] \in IF m[2] < Q!Monitors(c)
                        THEN Q!vc4_create_perfmon(Q!EventsOf(c, m[2]), m) ELSE {Uninitialised}
  BY DEF Q!vkCreateQueryPool, Monitored
<1>2. /\ pool' = c /\ ran' = [m \in Monitored |-> 0]
      /\ monitors' = [m \in Monitored |-> [events |-> Q!EventsOf(c, m[2]), jobs |-> 0]]
  BY DEF Q!vkCreateQueryPool, Monitored
<1>3. \A m \in Monitored : m[2] \in Q!Passes /\ m # Refused /\ m # Uninitialised
  BY QueriesAssumption DEF Monitored
<1>4. /\ <<0, 0>> \in Monitored /\ <<0, 1>> \in Monitored
      /\ \A d \in Q!Passes : <<0, d>> \in Monitored
  BY DEF Monitored, Q!Queries, Q!Passes
<1>5. CountsOK'
  <2>1. /\ monitors' \in [Monitored -> [events : {Q!EventsOf(c, d) : d \in Q!Passes}, jobs : Nat]]
        /\ \A m \in Monitored : monitors'[m].events = Q!EventsOf(c, m[2])
        /\ \A m \in Monitored : monitors'[m].jobs = 0
    BY <1>2, <1>3
  <2> QED
    BY <1>2, <1>4, <2>1 DEF CountsOK
<1>6. ASSUME NEW m \in Monitored
      PROVE  /\ ids[m] \in {m, Uninitialised, Refused}
             /\ m[2] < Q!Monitors(c) => ids[m] # Uninitialised
             /\ ids[m] = Refused => m[2] = 1 /\ Len(c) < NumEvents
  <2>1. CASE m[2] < Q!Monitors(c)
    <3>1. ids[m] \in Q!vc4_create_perfmon(Q!EventsOf(c, m[2]), m)
      BY <1>1, <2>1
    <3>2. ids[m] \in {m, Refused}
      BY <3>1 DEF Q!vc4_create_perfmon
    <3>3. ids[m] = Refused => m[2] = 1 /\ Len(c) < NumEvents
      BY <1>3, <3>1, UnwrittenEvents
    <3> QED
      BY <1>3, <2>1, <3>2, <3>3, QueriesAssumption
  <2>2. CASE ~ (m[2] < Q!Monitors(c))
    BY <1>1, <1>3, <2>2, QueriesAssumption
  <2> QED
    BY <2>1, <2>2
<1>7. IdsOK'
  <2>1. 0 < Q!Monitors(c) => ids[<<0, 0>>] = <<0, 0>>
    BY <1>4, <1>6
  <2>2. ids[<<0, 1>>] = Refused => Len(c) < NumEvents
    BY <1>4, <1>6
  <2> QED
    BY <1>1, <1>2, <1>6, <2>1, <2>2 DEF IdsOK, Q!Monitors
<1> QED
  BY <1>2, <1>5, <1>7


(* The module of the queries has the cardinality of its own instance.      *)
LEMMA SameCardinality == \A S : Q!Cardinality(S) = Cardinality(S)
BY Zenon DEF Q!Cardinality, Cardinality

(* The jobs recorded for a query are finitely many.                        *)
LEMMA JobsAreCounted ==
  ASSUME markers \in Seq(Q!Queries \cup {NoQuery}), NEW q
  PROVE  Q!JobsFor(markers, q) \in Nat
<1>1. DOMAIN markers = 1 .. Len(markers) /\ Len(markers) \in Nat
  OBVIOUS
<1>2. IsFiniteSet({j \in DOMAIN markers : markers[j] = q})
  <2>1. IsFiniteSet(1 .. Len(markers))
    BY <1>1, FS_Interval
  <2> QED
    BY <1>1, <2>1, FS_Subset
<1> QED
  BY <1>2, FS_CardinalityType, SameCardinality DEF Q!JobsFor

(* A submit adds the jobs of a query to its own monitor for the pass, and  *)
(* to no other of its monitors, or the query is spoiled.                   *)
LEMMA SubmitCounts ==
  ASSUME QueriesInv, NEW p \in Q!Passes, Q!vkQueueSubmit(p)
  PROVE  QueriesInv'
<1>1. pool # NoQuery /\ pool \in Selections /\ IdsOK /\ CountsOK
  BY DEF QueriesInv, Q!vkQueueSubmit
<1>2. /\ UNCHANGED <<pool, perfmonIDs, perfmonID, inPass, markers, active, wanted>>
      /\ ran' = [m \in DOMAIN ran |-> ran[m] + IF m[2] = p THEN Q!JobsFor(wanted, m[1]) ELSE 0]
  BY DEF Q!vkQueueSubmit
<1> DEFINE J(q) == Q!JobsFor(markers, q)
<1>3. PICK hit \in {NoQuery} \cup Monitored :
        LET counted(q) == IF perfmonIDs[<<q, p>>] = Uninitialised THEN hit ELSE perfmonIDs[<<q, p>>]
            adds(q, m) == IF counted(q) = m THEN Q!JobsFor(markers, q) ELSE 0
            added(m) == adds(0, m) + adds(1, m)
        IN  /\ monitors' = [m \in DOMAIN monitors |-> [monitors[m] EXCEPT !.jobs = @ + added(m)]]
            /\ spoiled' = IF hit = NoQuery THEN spoiled ELSE spoiled \cup {hit[1]}
  BY DEF Q!vkQueueSubmit, Monitored
<1> DEFINE counted(q) == IF perfmonIDs[<<q, p>>] = Uninitialised THEN hit ELSE perfmonIDs[<<q, p>>]
           adds(q, m) == IF counted(q) = m THEN J(q) ELSE 0
           added(m) == adds(0, m) + adds(1, m)
<1>4. /\ monitors' = [m \in DOMAIN monitors |-> [monitors[m] EXCEPT !.jobs = @ + added(m)]]
      /\ spoiled' = IF hit = NoQuery THEN spoiled ELSE spoiled \cup {hit[1]}
  BY <1>3
<1>5. J(0) \in Nat /\ J(1) \in Nat
  BY JobsAreCounted DEF QueriesInv
<1> HIDE DEF J
<1>6. \A m : added(m) \in Nat
  BY <1>5
<1> HIDE DEF counted, adds, added
<1>7. /\ DOMAIN monitors = Monitored /\ DOMAIN ran = Monitored
      /\ monitors \in [Monitored -> [events : {Q!EventsOf(pool, d) : d \in Q!Passes}, jobs : Nat]]
      /\ ran \in [Monitored -> Nat]
      /\ \A m \in Monitored : monitors[m].events = Q!EventsOf(pool, m[2])
  BY <1>1 DEF CountsOK
<1>8. /\ monitors' \in [Monitored -> [events : {Q!EventsOf(pool, d) : d \in Q!Passes}, jobs : Nat]]
      /\ \A m \in Monitored : /\ monitors'[m].events = monitors[m].events
                              /\ monitors'[m].jobs = monitors[m].jobs + added(m)
  BY <1>4, <1>6, <1>7
<1>9. \A m \in Monitored : m[1] \in {0, 1} /\ m[2] \in {0, 1}
  BY DEF Monitored, Q!Queries, Q!Passes
<1>10. /\ ran' \in [Monitored -> Nat]
       /\ \A m \in Monitored : ran'[m] = ran[m] + IF m[2] = p THEN J(m[1]) ELSE 0
  <2>1. wanted = markers
    BY DEF QueriesInv
  <2>2. \A m \in Monitored : (IF m[2] = p THEN J(m[1]) ELSE 0) \in Nat
    BY <1>5, <1>9
  <2> QED
    BY <1>2, <1>7, <2>1, <2>2 DEF J
<1>11. ASSUME 0 \notin spoiled', NEW d \in Q!Passes, perfmonIDs[<<0, d>>] = <<0, d>>
       PROVE  monitors'[<<0, d>>].jobs = ran'[<<0, d>>]
  <2>1. <<0, d>> \in Monitored /\ <<0, p>> \in Monitored /\ <<1, p>> \in Monitored
    BY DEF Monitored, Q!Queries, Q!Passes
  <2>2. monitors[<<0, d>>].jobs = ran[<<0, d>>] /\ ran[<<0, d>>] \in Nat
    BY <1>1, <1>4, <1>11, <2>1 DEF CountsOK
  <2>3. hit # <<0, d>>
    BY <1>4, <1>11, <2>1, QueriesAssumption DEF Monitored
  <2>4. counted(1) # <<0, d>>
    <3>1. perfmonIDs[<<1, p>>] \in {<<1, p>>, Uninitialised, Refused}
      BY <1>1, <2>1 DEF IdsOK
    <3> QED
      BY <2>1, <2>3, <3>1, QueriesAssumption DEF counted, Monitored
  <2>5. counted(0) = <<0, d>> <=> d = p
    <3>1. perfmonIDs[<<0, p>>] \in {<<0, p>>, Uninitialised, Refused}
      BY <1>1, <2>1 DEF IdsOK
    <3>2. <<0, d>> # Refused /\ <<0, d>> # Uninitialised
      BY <2>1, QueriesAssumption DEF Monitored
    <3> QED
      BY <1>11, <2>3, <3>1, <3>2 DEF counted
  <2>6. added(<<0, d>>) = IF d = p THEN J(0) ELSE 0
    BY <1>5, <2>4, <2>5 DEF added, adds
  <2> QED
    BY <1>8, <1>10, <2>1, <2>2, <2>6
<1>12. CountsOK'
  BY <1>2, <1>7, <1>8, <1>10, <1>11 DEF CountsOK
<1>13. IdsOK'
  BY <1>1, <1>2 DEF IdsOK
<1> QED
  BY <1>1, <1>2, <1>12, <1>13 DEF QueriesInv

(* Reading and recording leave the pool and its counts alone.              *)
LEMMA PoolKept ==
  ASSUME QueriesInv, UNCHANGED <<pool, perfmonIDs, monitors, ran>>,
         0 \notin spoiled' => 0 \notin spoiled,
         perfmonID' = active', perfmonID' \in Q!Queries \cup {NoQuery},
         markers' = wanted', markers' \in Seq(Q!Queries \cup {NoQuery})
  PROVE  QueriesInv'
<1>1. IdsOK => IdsOK'
  BY DEF IdsOK
<1>2. ASSUME CountsOK  PROVE  CountsOK'
  <2>1. /\ monitors' \in [Monitored -> [events : {Q!EventsOf(pool', d) : d \in Q!Passes}, jobs : Nat]]
        /\ \A m \in Monitored : monitors'[m].events = Q!EventsOf(pool', m[2])
        /\ ran' \in [Monitored -> Nat]
    BY <1>2 DEF CountsOK
  <2>2. 0 \notin spoiled' =>
         \A d \in Q!Passes : perfmonIDs'[<<0, d>>] = <<0, d>> =>
                               monitors'[<<0, d>>].jobs = ran'[<<0, d>>]
    BY <1>2 DEF CountsOK
  <2> QED
    BY <2>1, <2>2 DEF CountsOK
<1> QED
  BY <1>1, <1>2 DEF QueriesInv

LEMMA QuerySteps == QueriesInv /\ [Q!Next]_queryVars => QueriesInv'
<1> SUFFICES ASSUME QueriesInv, [Q!Next]_queryVars  PROVE  QueriesInv'
  OBVIOUS
<1>1. ASSUME NEW c \in Selections, Q!vkCreateQueryPool(c)  PROVE  QueriesInv'
  <2>1. pool' = c /\ IdsOK' /\ CountsOK'
    BY <1>1, PoolsAreMonitored
  <2>2. UNCHANGED <<perfmonID, markers, active, wanted>>
    BY <1>1 DEF Q!vkCreateQueryPool
  <2> QED
    BY <2>1, <2>2 DEF QueriesInv
<1>2. CASE Q!vkDestroyQueryPool
  BY <1>2 DEF Q!vkDestroyQueryPool, QueriesInv
<1>3. ASSUME NEW q \in Q!Queries, Q!vkCmdResetQueryPool(q)  PROVE  QueriesInv'
  <2>1. /\ UNCHANGED <<pool, perfmonIDs, monitors, perfmonID, inPass, markers, active, wanted, ran>>
        /\ 0 \notin spoiled' => 0 \notin spoiled
    BY <1>3 DEF Q!vkCmdResetQueryPool
  <2> QED
    BY <2>1, PoolKept DEF QueriesInv
<1>4. ASSUME NEW p \in Q!Passes, Q!vkQueueSubmit(p)  PROVE  QueriesInv'
  BY <1>4, SubmitCounts
<1>5. CASE \/ \E q \in Q!Queries : Q!vkCmdBeginQuery(q)
           \/ Q!vkCmdEndQuery \/ Q!vkCmdBeginRenderPass \/ Q!vkCmdEndRenderPass
           \/ Q!vkResetCommandBuffer \/ UNCHANGED queryVars
  <2>1. UNCHANGED <<pool, perfmonIDs, monitors, ran, spoiled>>
    BY <1>5 DEF Q!vkCmdBeginQuery, Q!vkCmdEndQuery, Q!vkCmdBeginRenderPass,
         Q!vkCmdEndRenderPass, Q!vkResetCommandBuffer, queryVars
  <2>2. perfmonID' = active' /\ perfmonID' \in Q!Queries \cup {NoQuery}
    BY <1>5 DEF Q!vkCmdBeginQuery, Q!vkCmdEndQuery, Q!vkCmdBeginRenderPass,
         Q!vkCmdEndRenderPass, Q!vkResetCommandBuffer, queryVars, QueriesInv
  <2>3. markers' = wanted' /\ markers' \in Seq(Q!Queries \cup {NoQuery})
    <3>1. CASE Q!vkCmdBeginRenderPass
      BY <3>1, AppendProperties DEF Q!vkCmdBeginRenderPass, QueriesInv
    <3>2. CASE Q!vkResetCommandBuffer
      <4>1. markers' = << >> /\ wanted' = << >>
        BY <3>2 DEF Q!vkResetCommandBuffer
      <4> QED
        BY <4>1, EmptySeq
    <3>3. CASE UNCHANGED <<markers, wanted>>
      BY <3>3 DEF QueriesInv
    <3> QED
      BY <1>5, <3>1, <3>2, <3>3 DEF Q!vkCmdBeginQuery, Q!vkCmdEndQuery, Q!vkCmdEndRenderPass, queryVars
  <2> QED
    BY <2>1, <2>2, <2>3, PoolKept
<1> QED
  BY <1>1, <1>2, <1>3, <1>4, <1>5 DEF Q!Next, queryVars

(* The results of the first query are its own counts, for any events,      *)
(* monitors and passes (query.c:27-218, device.c:234, command.c:572-584):  *)
(* what is read of a query that is not spoiled is what was asked for,      *)
(* counted over the jobs recorded between its begin and its end.           *)
THEOREM QueriesCountTheirOwn == PartsSpec => []ResultsAreOfTheQuery
<1>1. PartsInit => QueriesInv
  BY QueriesAssumption DEF PartsInit, Q!Init, QueriesInv
<1>2. QueriesInv /\ [PartsNext]_<<vars, setVars, queryVars, part>> => QueriesInv'
  BY QuerySteps DEF PartsNext, queryVars
<1>3. QueriesInv => ResultsAreOfTheQuery
  <2> SUFFICES ASSUME QueriesInv, pool # NoQuery, 0 \notin spoiled, NEW k \in DOMAIN pool
      PROVE  LET d == (k - 1) \div PerMonitor
             IN  \/ Q!results(0, 1)[k] = [event |-> pool[k], jobs |-> ran[<<0, d>>]]
                 \/ d = 1 /\ Len(pool) < NumEvents /\ perfmonIDs[<<0, 1>>] = Refused
    BY DEF ResultsAreOfTheQuery, Q!ResultsAreOfTheQuery
  <2> DEFINE d == (k - 1) \div PerMonitor
             r == (k - 1) % PerMonitor
             n == Len(pool)
  <2>1. /\ pool \in Seq(0 .. NumEvents - 1) /\ n \in Nat /\ n <= 2 * PerMonitor /\ n <= NumEvents
        /\ PerMonitor \in Nat \ {0} /\ k \in 1 .. n /\ pool \in Selections /\ NumEvents \in Nat
    BY QueriesAssumption DEF QueriesInv
  <2>2. /\ d \in {0, 1} /\ r \in Nat /\ d * PerMonitor + r = k - 1 /\ r < n /\ r < PerMonitor
        /\ d < Q!Monitors(pool)
    BY <2>1, PlaceOfEvent DEF Q!Monitors
  <2>3. Q!results(0, 1)[k] = Q!counterValue(0, d, r)
    BY DEF Q!results
  <2> HIDE DEF d, r
  <2>4. d \in Q!Passes /\ <<0, d>> \in Monitored
    BY <2>2 DEF Monitored, Q!Queries, Q!Passes
  <2>5. monitors[<<0, d>>].events = Q!EventsOf(pool, d)
    BY <2>4 DEF QueriesInv, CountsOK
  <2>6. r \in DOMAIN monitors[<<0, d>>].events
    <3>1. r \in 0 .. Q!Min({n, PerMonitor}) - 1
      <4>1. Q!Min({n, PerMonitor}) = IF n < PerMonitor THEN n ELSE PerMonitor
        BY <2>1, SmallerOf
      <4> QED
        BY <2>1, <2>2, <4>1
    <3> QED
      BY <2>1, <2>4, <2>5, <3>1, EventsAre
  <2>7. monitors[<<0, d>>].events[r] = pool[k]
    <3>1. monitors[<<0, d>>].events[r] = Q!enabledCounter(pool, d * PerMonitor + r)
      BY <2>1, <2>4, <2>5, <2>6, EventsAre
    <3>2. k - 1 < n /\ k - 1 + 1 = k
      BY <2>1
    <3> QED
      BY <2>2, <3>1, <3>2 DEF Q!enabledCounter
  <2>8. CASE perfmonIDs[<<0, d>>] = Refused
    <3>1. d = 1
      <4>1. perfmonIDs[<<0, 0>>] = <<0, 0>> \/ d # 0
        BY <2>2 DEF QueriesInv, IdsOK
      <4>2. <<0, 0>> # Refused
        BY QueriesAssumption DEF Q!Queries, Q!Passes
      <4> QED
        BY <2>2, <2>8, <4>1, <4>2
    <3> QED
      BY <2>8, <3>1 DEF QueriesInv, IdsOK, d
  <2>9. CASE perfmonIDs[<<0, d>>] # Refused
    <3>1. perfmonIDs[<<0, d>>] = <<0, d>>
      BY <2>2, <2>4, <2>9 DEF QueriesInv, IdsOK
    <3>2. monitors[<<0, d>>].jobs = ran[<<0, d>>]
      BY <2>4, <3>1 DEF QueriesInv, CountsOK
    <3> QED
      BY <2>3, <2>6, <2>7, <2>9, <3>2 DEF Q!counterValue, d
  <2> QED
    BY <2>8, <2>9
<1> QED
  BY <1>1, <1>2, <1>3, PTL DEF PartsSpec

-----------------------------------------------------------------------------
(* The sets of a pool.  The invariant says where everything is: the lists  *)
(* and the sets' runs share no block, every binding is entered in its map, *)
(* at an element a search for it reaches, with the place of its own        *)
(* descriptors, and nothing else is entered there.                         *)
(* Steps one after the other.  An induction theorem with an operator as    *)
(* its parameter cannot be used, so the induction is over a set.           *)
LEMMA Upward ==
  ASSUME NEW T, 0 \in T, \A n \in Nat : n \in T => n + 1 \in T
  PROVE  Nat \subseteq T
<1> SUFFICES ASSUME Nat \ T # {}  PROVE  FALSE
  OBVIOUS
<1>1. PICK x \in Nat \ T : \A y \in Nat \ T : ~ (<<y, x>> \in OpToRel(<, Nat))
  BY NatLessThanWellFounded, WFMin, Zenon
<1>2. \A y \in Nat \ T : ~ (y < x)
  BY <1>1 DEF OpToRel
<1>3. x - 1 \in Nat /\ x - 1 \notin Nat \ T
  BY <1>2
<1>4. x - 1 + 1 \in T
  BY <1>3
<1> QED
  BY <1>4

(* A function that is given for 0 and step by step exists.                 *)
Stepwise(f, S, a, G, m) ==
  f \in [0 .. m -> S] /\ f[0] = a /\ \A n \in 1 .. m : f[n] = G[<<f[n - 1], n>>]

LEMMA StepByStep ==
  ASSUME NEW S, NEW a \in S, NEW G \in [S \X Nat -> S], NEW m \in Nat
  PROVE  \E f : Stepwise(f, S, a, G, m)
<1> DEFINE Follows(k, f) == f[0] = a /\ \A n \in 1 .. k : f[n] = G[<<f[n - 1], n>>]
           T == {k \in Nat : \E f \in [0 .. k -> S] : Follows(k, f)}
<1>1. 0 \in T
  <2>1. [i \in 0 .. 0 |-> a] \in [0 .. 0 -> S] /\ Follows(0, [i \in 0 .. 0 |-> a])
    OBVIOUS
  <2> QED
    BY <2>1
<1>2. ASSUME NEW k \in Nat, k \in T  PROVE  k + 1 \in T
  <2>1. PICK f \in [0 .. k -> S] : Follows(k, f)
    BY <1>2
  <2>2. f[k] \in S /\ <<f[k], k + 1>> \in S \X Nat
    OBVIOUS
  <2>3. PICK v \in S : v = G[<<f[k], k + 1>>]
    BY <2>2
  <2>4. PICK g \in [0 .. k + 1 -> S] : g = [i \in 0 .. k + 1 |-> IF i = k + 1 THEN v ELSE f[i]]
    <3>1. \A i \in 0 .. k + 1 : (IF i = k + 1 THEN v ELSE f[i]) \in S
      OBVIOUS
    <3> QED
      BY <3>1
  <2>5. g[k + 1] = v /\ \A i \in 0 .. k : g[i] = f[i]
    BY <2>4
  <2>6. Follows(k + 1, g)
    <3>1. g[0] = a
      BY <2>1, <2>5
    <3>2. ASSUME NEW n \in 1 .. k + 1  PROVE  g[n] = G[<<g[n - 1], n>>]
      <4>1. CASE n = k + 1
        BY <2>3, <2>5, <4>1
      <4>2. CASE n # k + 1
        <5>1. n \in 1 .. k /\ n \in 0 .. k /\ n - 1 \in 0 .. k
          BY <4>2
        <5> QED
          BY <2>1, <2>5, <5>1
      <4> QED
        BY <4>1, <4>2
    <3> QED
      BY <3>1, <3>2
  <2> QED
    BY <2>6
<1>3. Nat \subseteq T
  <2> HIDE DEF T
  <2> QED
    BY <1>1, <1>2, Upward
<1>4. PICK f \in [0 .. m -> S] : Follows(m, f)
  BY <1>3
<1> QED
  BY <1>4 DEF Stepwise

LEMMA LastOfSteps ==
  ASSUME NEW S, NEW m \in Nat, NEW f, f[0] \in S,
         \A n \in 1 .. m : f[n - 1] \in S => f[n] \in S
  PROVE  f[m] \in S
<1> DEFINE T == {n \in Nat : n \in 0 .. m => f[n] \in S}
<1>1. 0 \in T
  OBVIOUS
<1>2. ASSUME NEW n \in Nat, n \in T  PROVE  n + 1 \in T
  <2>1. ASSUME n + 1 \in 0 .. m  PROVE  f[n + 1] \in S
    <3>1. PICK k \in 1 .. m : k = n + 1 /\ k - 1 = n
      BY <2>1
    <3>2. f[n] \in S
      BY <1>2, <2>1
    <3> QED
      BY <3>1, <3>2
  <2> QED
    BY <2>1
<1>3. m \in T
  <2> HIDE DEF T
  <2> QED
    BY <1>1, <1>2, Upward
<1> QED
  BY <1>3

LEMMA StepsReach ==
  ASSUME NEW R, NEW m \in Nat, NEW f, <<0, f[0]>> \in R,
         \A n \in 1 .. m : <<n - 1, f[n - 1]>> \in R => <<n, f[n]>> \in R
  PROVE  <<m, f[m]>> \in R
<1> DEFINE T == {n \in Nat : n \in 0 .. m => <<n, f[n]>> \in R}
<1>1. 0 \in T
  OBVIOUS
<1>2. ASSUME NEW n \in Nat, n \in T  PROVE  n + 1 \in T
  <2>1. ASSUME n + 1 \in 0 .. m  PROVE  <<n + 1, f[n + 1]>> \in R
    <3>1. PICK k \in 1 .. m : k = n + 1 /\ k - 1 = n
      BY <2>1
    <3>2. <<n, f[n]>> \in R
      BY <1>2, <2>1
    <3> QED
      BY <3>1, <3>2
  <2> QED
    BY <2>1
<1>3. m \in T
  <2> HIDE DEF T
  <2> QED
    BY <1>1, <1>2, Upward
<1> QED
  BY <1>3

-----------------------------------------------------------------------------
(* Descriptor sets.  The blocks on a list of a pool of N blocks, and a list *)
(* without repetitions.                                                    *)
Listing(list) == {list[i] : i \in DOMAIN list}
Once(list) == \A i, j \in DOMAIN list : list[i] = list[j] => i = j
ListOK(list, N) == list \in Seq(1 .. N) /\ Once(list)

(* A list with the entries rs behind place i.                              *)
put(list, i, rs) == SubSeq(list, 1, i) \o rs \o SubSeq(list, i + 1, Len(list))

-----------------------------------------------------------------------------
(* The list after n entries from place i on were taken out.                *)
LEMMA CutEntries ==
  ASSUME NEW S, NEW list \in Seq(S), NEW i \in 1 .. Len(list), NEW n \in Nat \ {0},
         i + n - 1 <= Len(list)
  PROVE  /\ D!Pool!without(list, i, n) \in Seq(S)
         /\ Len(D!Pool!without(list, i, n)) = Len(list) - n
         /\ \A k \in 1 .. Len(list) - n :
              D!Pool!without(list, i, n)[k] = IF k < i THEN list[k] ELSE list[k + n]
<1>1. PICK m \in Nat : m = Len(list)
  OBVIOUS
<1>2. \A k \in 1 .. m : list[k] \in S
  BY <1>1
<1>3. PICK a : a = SubSeq(list, 1, i - 1)
  OBVIOUS
<1>4. PICK b : b = SubSeq(list, i + n, m)
  OBVIOUS
<1>5. a \in Seq(S) /\ Len(a) = i - 1 /\ \A k \in 1 .. i - 1 : a[k] = list[k]
  <2>1. 1 \in Int /\ i - 1 \in Int /\ \A k \in 1 .. i - 1 : list[k] \in S
    BY <1>1, <1>2
  <2>2. /\ a \in Seq(S)
        /\ Len(a) = IF 1 <= i - 1 THEN (i - 1) - 1 + 1 ELSE 0
        /\ \A k \in 1 .. (i - 1) - 1 + 1 : a[k] = list[1 + k - 1]
    BY <1>3, <2>1, SubSeqProperties
  <2> QED
    BY <2>2
<1>6. b \in Seq(S) /\ Len(b) = m - (i + n) + 1 /\ \A k \in 1 .. m - (i + n) + 1 : b[k] = list[i + n + k - 1]
  <2>1. PICK l \in Nat : l = i + n
    OBVIOUS
  <2>2. b = SubSeq(list, l, m) /\ l \in Int /\ m \in Int /\ \A k \in l .. m : list[k] \in S
    BY <1>1, <1>2, <1>4, <2>1
  <2>3. /\ b \in Seq(S)
        /\ Len(b) = IF l <= m THEN m - l + 1 ELSE 0
        /\ \A k \in 1 .. m - l + 1 : b[k] = list[l + k - 1]
    BY <2>2, SubSeqProperties, SMTT(30)
  <2>4. l <= m \/ l = m + 1
    BY <1>1, <2>1
  <2> QED
    BY <2>1, <2>3, <2>4
<1>7. PICK c : c = a \o b
  OBVIOUS
<1>8. /\ c \in Seq(S) /\ Len(c) = Len(a) + Len(b)
      /\ \A k \in 1 .. Len(a) + Len(b) : c[k] = IF k <= Len(a) THEN a[k] ELSE b[k - Len(a)]
  BY <1>5, <1>6, <1>7, ConcatProperties
<1>9. Len(c) = m - n
  BY <1>1, <1>5, <1>6, <1>8
<1>10. \A k \in 1 .. m - n : c[k] = IF k < i THEN list[k] ELSE list[k + n]
  <2>1. TAKE k \in 1 .. m - n
  <2>2. CASE k < i
    BY <2>2, <1>5, <1>6, <1>8, <1>9
  <2>3. CASE ~ (k < i)
    <3>1. k - (i - 1) \in 1 .. m - (i + n) + 1 /\ i + n + (k - (i - 1)) - 1 = k + n
      BY <2>3, <1>1
    <3>2. c[k] = b[k - (i - 1)]
      BY <2>3, <1>5, <1>6, <1>8, <1>9
    <3> QED
      BY <2>3, <3>1, <3>2, <1>6
  <2> QED
    BY <2>2, <2>3
<1>11. c = D!Pool!without(list, i, n)
  BY <1>1, <1>3, <1>4, <1>7 DEF D!Pool!without
<1> QED
  BY <1>1, <1>8, <1>9, <1>10, <1>11

LEMMA PutEntries ==
  ASSUME NEW S, NEW list \in Seq(S), NEW rs \in Seq(S), NEW i \in 0 .. Len(list)
  PROVE  /\ put(list, i, rs) \in Seq(S)
         /\ Len(put(list, i, rs)) = Len(list) + Len(rs)
         /\ \A k \in 1 .. Len(list) + Len(rs) :
              put(list, i, rs)[k] =
                     IF k <= i THEN list[k]
                     ELSE IF k <= i + Len(rs) THEN rs[k - i] ELSE list[k - Len(rs)]
<1>1. PICK m \in Nat, n \in Nat : m = Len(list) /\ n = Len(rs)
  OBVIOUS
<1>2. \A k \in 1 .. m : list[k] \in S
  BY <1>1
<1>3. PICK a : a = SubSeq(list, 1, i)
  OBVIOUS
<1>4. PICK b : b = SubSeq(list, i + 1, m)
  OBVIOUS
<1>5. a \in Seq(S) /\ Len(a) = i /\ \A k \in 1 .. i : a[k] = list[k]
  <2>1. 1 \in Int /\ i \in Int /\ \A k \in 1 .. i : list[k] \in S
    BY <1>1, <1>2
  <2>2. /\ a \in Seq(S)
        /\ Len(a) = IF 1 <= i THEN i - 1 + 1 ELSE 0
        /\ \A k \in 1 .. i - 1 + 1 : a[k] = list[1 + k - 1]
    BY <1>3, <2>1, SubSeqProperties
  <2> QED
    BY <2>2
<1>6. b \in Seq(S) /\ Len(b) = m - i /\ \A k \in 1 .. m - i : b[k] = list[i + k]
  <2>1. i + 1 \in Int /\ m \in Int /\ \A k \in i + 1 .. m : list[k] \in S
    BY <1>1, <1>2
  <2>2. /\ b \in Seq(S)
        /\ Len(b) = IF i + 1 <= m THEN m - (i + 1) + 1 ELSE 0
        /\ \A k \in 1 .. m - (i + 1) + 1 : b[k] = list[i + 1 + k - 1]
    BY <1>4, <2>1, SubSeqProperties
  <2>3. i \in 0 .. m
    BY <1>1
  <2>4. Len(b) = m - i
    BY <2>2, <2>3
  <2>5. ASSUME NEW k \in 1 .. m - i PROVE b[k] = list[i + k]
    <3>1. k \in 1 .. m - (i + 1) + 1 /\ i + 1 + k - 1 = i + k
      BY <2>3
    <3> QED
      BY <2>2, <3>1
  <2> QED
    BY <2>2, <2>4, <2>5
<1>7. PICK c : c = a \o rs
  OBVIOUS
<1>8. /\ c \in Seq(S) /\ Len(c) = i + n
      /\ \A k \in 1 .. i + n : c[k] = IF k <= i THEN a[k] ELSE rs[k - i]
  BY <1>1, <1>5, <1>7, ConcatProperties
<1>9. PICK h : h = c \o b
  OBVIOUS
<1>10. /\ h \in Seq(S) /\ Len(h) = m + n
       /\ \A k \in 1 .. m + n : h[k] = IF k <= i + n THEN c[k] ELSE b[k - (i + n)]
  <2>1. /\ h \in Seq(S) /\ Len(h) = Len(c) + Len(b)
        /\ \A k \in 1 .. Len(c) + Len(b) : h[k] = IF k <= Len(c) THEN c[k] ELSE b[k - Len(c)]
    BY <1>6, <1>8, <1>9, ConcatProperties
  <2>2. Len(c) + Len(b) = m + n
    BY <1>1, <1>6, <1>8
  <2> QED
    BY <2>1, <2>2, <1>8
<1>11. put(list, i, rs) = h
  BY <1>1, <1>3, <1>4, <1>7, <1>9 DEF put
<1>12. ASSUME NEW k \in 1 .. m + n
       PROVE  h[k] = IF k <= i THEN list[k] ELSE IF k <= i + n THEN rs[k - i] ELSE list[k - n]
  <2>1. CASE k <= i
    BY <2>1, <1>1, <1>5, <1>8, <1>10
  <2>2. CASE ~ (k <= i) /\ k <= i + n
    BY <2>2, <1>1, <1>8, <1>10
  <2>3. CASE ~ (k <= i + n)
    <3>1. k - (i + n) \in 1 .. m - i /\ i + (k - (i + n)) = k - n /\ ~ (k <= i)
      BY <2>3, <1>1
    <3> QED
      BY <2>3, <3>1, <1>6, <1>10
  <2> QED
    BY <2>1, <2>2, <2>3
<1> QED
  BY <1>1, <1>10, <1>11, <1>12
-----------------------------------------------------------------------------
(* What is on the list after that.                                         *)
LEMMA CutListing ==
  ASSUME NEW N \in Nat, NEW list, ListOK(list, N), NEW i \in 1 .. Len(list), NEW n \in Nat \ {0},
         i + n - 1 <= Len(list)
  PROVE  /\ ListOK(D!Pool!without(list, i, n), N)
         /\ Listing(D!Pool!without(list, i, n)) = Listing(list) \ {list[k] : k \in i .. i + n - 1}
<1>1. list \in Seq(1 .. N)
  BY DEF ListOK
<1>2. PICK m \in Nat : m = Len(list)
  BY <1>1
<1>3. PICK g : g = D!Pool!without(list, i, n)
  OBVIOUS
<1>4. /\ g \in Seq(1 .. N) /\ Len(g) = m - n
      /\ \A k \in 1 .. m - n : g[k] = IF k < i THEN list[k] ELSE list[k + n]
  BY <1>1, <1>2, <1>3, CutEntries, ZenonT(60)
<1>5. DOMAIN g = 1 .. m - n /\ DOMAIN list = 1 .. m
  BY <1>1, <1>2, <1>4, LenProperties
<1>6. \A j, k \in 1 .. m : list[j] = list[k] => j = k
  BY <1>5 DEF ListOK, Once
<1>7. PICK at : at = [k \in 1 .. m - n |-> IF k < i THEN k ELSE k + n]
  OBVIOUS
<1>8. \A k \in 1 .. m - n : /\ at[k] \in 1 .. m /\ at[k] \notin i .. i + n - 1
                            /\ g[k] = list[at[k]]
  BY <1>2, <1>4, <1>7
<1>9. \A j, k \in 1 .. m - n : at[j] = at[k] => j = k
  BY <1>2, <1>7
<1>10. \A j \in 1 .. m : j \notin i .. i + n - 1 => \E k \in 1 .. m - n : at[k] = j
  <2>1. TAKE j \in 1 .. m
  <2>2. HAVE j \notin i .. i + n - 1
  <2>3. CASE j < i
    <3>1. j \in 1 .. m - n
      BY <2>3, <1>2
    <3> QED
      BY <2>3, <3>1, <1>7
  <2>4. CASE ~ (j < i)
    <3>1. j - n \in 1 .. m - n /\ ~ (j - n < i) /\ (j - n) + n = j
      BY <2>2, <2>4, <1>2
    <3> QED
      BY <3>1, <1>7
  <2> QED
    BY <2>3, <2>4
<1>11. Once(g)
  BY <1>5, <1>6, <1>8, <1>9 DEF Once
<1>12. ASSUME NEW x PROVE x \in Listing(g) <=> x \in Listing(list) \ {list[k] : k \in i .. i + n - 1}
  <2>1. ASSUME NEW k \in 1 .. m - n
        PROVE  g[k] \in Listing(list) \ {list[j] : j \in i .. i + n - 1}
    <3>1. \A j \in i .. i + n - 1 : j \in 1 .. m
      BY <1>2
    <3> QED
      BY <3>1, <1>5, <1>6, <1>8, SMTT(40) DEF Listing
  <2>2. ASSUME NEW j \in 1 .. m, j \notin i .. i + n - 1 PROVE list[j] \in Listing(g)
    BY <2>2, <1>5, <1>8, <1>10 DEF Listing
  <2> QED
    BY <2>1, <2>2, <1>5 DEF Listing
<1>13. Listing(g) = Listing(list) \ {list[k] : k \in i .. i + n - 1}
  BY <1>12
<1> QED
  BY <1>3, <1>4, <1>11, <1>13 DEF ListOK

LEMMA PutListing ==
  ASSUME NEW N \in Nat, NEW list, ListOK(list, N), NEW rs, ListOK(rs, N), Listing(list) \cap Listing(rs) = {},
         NEW i \in 0 .. Len(list)
  PROVE  /\ ListOK(put(list, i, rs), N)
         /\ Listing(put(list, i, rs)) = Listing(list) \cup Listing(rs)
<1>1. list \in Seq(1 .. N) /\ rs \in Seq(1 .. N)
  BY DEF ListOK
<1>2. PICK m \in Nat, n \in Nat : m = Len(list) /\ n = Len(rs)
  BY <1>1
<1>3. PICK h : h = put(list, i, rs)
  OBVIOUS
<1>4. /\ h \in Seq(1 .. N) /\ Len(h) = m + n
      /\ \A k \in 1 .. m + n : h[k] = IF k <= i THEN list[k]
                                      ELSE IF k <= i + n THEN rs[k - i] ELSE list[k - n]
  <2>1. /\ put(list, i, rs) \in Seq(1 .. N)
        /\ Len(put(list, i, rs)) = Len(list) + Len(rs)
        /\ \A k \in 1 .. Len(list) + Len(rs) :
             put(list, i, rs)[k] =
                    IF k <= i THEN list[k]
                    ELSE IF k <= i + Len(rs) THEN rs[k - i] ELSE list[k - Len(rs)]
    BY <1>1, PutEntries, ZenonT(30)
  <2> QED
    BY <2>1, <1>2, <1>3
<1>5. DOMAIN h = 1 .. m + n /\ DOMAIN list = 1 .. m /\ DOMAIN rs = 1 .. n
  BY <1>1, <1>2, <1>4, LenProperties
<1>6. /\ \A j, k \in 1 .. m : list[j] = list[k] => j = k
      /\ \A j, k \in 1 .. n : rs[j] = rs[k] => j = k
      /\ \A j \in 1 .. m, k \in 1 .. n : list[j] # rs[k]
  <2>1. Once(list) /\ Once(rs)
    BY DEF ListOK
  <2>2. \A j \in 1 .. m, k \in 1 .. n : list[j] \in Listing(list) /\ rs[k] \in Listing(rs)
    BY <1>5 DEF Listing
  <2>3. \A j, k \in 1 .. m : list[j] = list[k] => j = k
    BY <2>1, <1>5 DEF Once
  <2>4. \A j, k \in 1 .. n : rs[j] = rs[k] => j = k
    BY <2>1, <1>5 DEF Once
  <2> QED
    BY <2>2, <2>3, <2>4
<1>7. \A k \in 1 .. m + n :
        \/ k <= i /\ k \in 1 .. m /\ h[k] = list[k]
        \/ ~ (k <= i) /\ k <= i + n /\ k - i \in 1 .. n /\ h[k] = rs[k - i]
        \/ ~ (k <= i + n) /\ ~ (k <= i) /\ k - n \in 1 .. m /\ h[k] = list[k - n]
  BY <1>2, <1>4
<1>8. ASSUME NEW j \in 1 .. m + n, NEW k \in 1 .. m + n, h[j] = h[k] PROVE j = k
  <2>1. CASE j <= i
    BY <2>1, <1>2, <1>6, <1>7, <1>8
  <2>2. CASE ~ (j <= i) /\ j <= i + n
    <3>1. j - i \in 1 .. n /\ h[j] = rs[j - i]
      BY <2>2, <1>7
    <3>2. ~ (k <= i) /\ k <= i + n /\ k - i \in 1 .. n /\ h[k] = rs[k - i]
      BY <3>1, <1>6, <1>7, <1>8
    <3>3. j - i = k - i
      BY <3>1, <3>2, <1>6, <1>8
    <3> QED
      BY <3>3
  <2>3. CASE ~ (j <= i + n)
    BY <2>3, <1>2, <1>6, <1>7, <1>8, SMTT(40)
  <2> QED
    BY <2>1, <2>2, <2>3
<1>9. Listing(h) \subseteq Listing(list) \cup Listing(rs)
  BY <1>5, <1>7 DEF Listing
<1>10. \A k \in 1 .. m : list[k] \in Listing(h)
  <2>1. TAKE k \in 1 .. m
  <2>2. CASE k <= i
    <3>1. k \in 1 .. m + n /\ h[k] = list[k]
      BY <2>2, <1>4
    <3> QED
      BY <3>1, <1>5 DEF Listing
  <2>3. CASE ~ (k <= i)
    <3>1. k + n \in 1 .. m + n /\ ~ (k + n <= i) /\ ~ (k + n <= i + n) /\ (k + n) - n = k
      BY <2>3
    <3>2. h[k + n] = list[k]
      BY <3>1, <1>4
    <3> QED
      BY <3>1, <3>2, <1>5 DEF Listing
  <2> QED
    BY <2>2, <2>3
<1>11. \A k \in 1 .. n : rs[k] \in Listing(h)
  <2>1. TAKE k \in 1 .. n
  <2>2. k + i \in 1 .. m + n /\ ~ (k + i <= i) /\ k + i <= i + n /\ (k + i) - i = k
    BY <1>2
  <2>3. h[k + i] = rs[k]
    BY <2>2, <1>4
  <2> QED
    BY <2>2, <2>3, <1>5 DEF Listing
<1>12. Listing(h) = Listing(list) \cup Listing(rs)
  BY <1>5, <1>9, <1>10, <1>11 DEF Listing
<1>13. Once(h)
  BY <1>5, <1>8 DEF Once
<1> QED
  BY <1>3, <1>4, <1>12, <1>13 DEF ListOK
(* A run as a list of blocks.                                              *)
LEMMA RunSeq ==
  ASSUME NEW N \in Nat, NEW r \in [first : 1 .. N, len : 1 .. N], D!Pool!blocksOf(r) \subseteq 1 .. N
  PROVE  /\ ListOK(D!Pool!runSeq(r), N) /\ Len(D!Pool!runSeq(r)) = r.len
         /\ Listing(D!Pool!runSeq(r)) = D!Pool!blocksOf(r)
<1>1. PICK x \in Nat, n \in Nat : x = r.first /\ n = r.len
  OBVIOUS
<1>2. D!Pool!blocksOf(r) = x .. x + n - 1
  BY <1>1 DEF D!Pool!blocksOf
<1>3. PICK s : s = D!Pool!runSeq(r)
  OBVIOUS
<1>4. s = [i \in 1 .. n |-> x + i - 1]
  BY <1>1, <1>3 DEF D!Pool!runSeq
<1>5. \A i \in 1 .. n : x + i - 1 \in 1 .. N
  BY <1>2, SMTT(40)
<1>6. s \in [1 .. n -> 1 .. N]
  BY <1>4, <1>5
<1>7. s \in Seq(1 .. N) /\ Len(s) = n /\ DOMAIN s = 1 .. n
  BY <1>6
<1>8. \A i, j \in 1 .. n : s[i] = s[j] => i = j
  BY <1>4
<1>9. \A b : b \in Listing(s) <=> b \in x .. x + n - 1
  <2>1. \A b \in x .. x + n - 1 : b - x + 1 \in 1 .. n /\ s[b - x + 1] = b
    BY <1>4
  <2>2. \A i \in 1 .. n : s[i] \in x .. x + n - 1
    BY <1>4
  <2> QED
    BY <2>1, <2>2, <1>7 DEF Listing
<1> QED
  BY <1>1, <1>2, <1>3, <1>7, <1>8, <1>9 DEF ListOK, Once

(* The place a freed run is put at.                                        *)
LEMMA PlaceOfRun ==
  ASSUME NEW S, NEW list \in Seq(S), NEW p
  PROVE  /\ D!Pool!inFrontOf(list, p) \in 0 .. Len(list)
         /\ D!Pool!inFrontOf(list, p) # 0 => list[D!Pool!inFrontOf(list, p)] + 1 = p
<1>1. DOMAIN list = 1 .. Len(list) /\ Len(list) \in Nat
  BY LenProperties
<1>2. CASE \E i \in DOMAIN list : list[i] + 1 = p
  BY <1>1, <1>2 DEF D!Pool!inFrontOf
<1>3. CASE ~ \E i \in DOMAIN list : list[i] + 1 = p
  BY <1>1, <1>3 DEF D!Pool!inFrontOf
<1> QED
  BY <1>2, <1>3

(* The walk for n neighbours that finds any finds a first.                 *)
LEMMA FirstFit ==
  ASSUME NEW S, NEW list \in Seq(S), NEW n, D!Pool!fits(list, n)
  PROVE  D!Pool!firstFit(list, n) \in 1 .. Len(list) /\ D!Pool!fitsAt(list, D!Pool!firstFit(list, n), n)
<1>1. DOMAIN list = 1 .. Len(list) /\ Len(list) \in Nat
  BY LenProperties
<1>2. PICK T : T = {i \in DOMAIN list : D!Pool!fitsAt(list, i, n)}
  OBVIOUS
<1>3. T \subseteq Nat /\ T # {}
  BY <1>1, <1>2 DEF D!Pool!fits
<1>4. PICK i \in T : \A j \in T : ~ (<<j, i>> \in OpToRel(<, Nat))
  BY <1>3, NatLessThanWellFounded, WFMin, Zenon
<1>5. \A j \in T : ~ (j < i)
  BY <1>3, <1>4 DEF OpToRel
<1>6. \A j \in 1 .. i - 1 : ~ D!Pool!fitsAt(list, j, n)
  <2>1. ASSUME NEW j \in 1 .. i - 1 PROVE j \in DOMAIN list /\ j < i
    <3>1. i \in 1 .. Len(list)
      BY <1>1, <1>2, <1>4
    <3> QED
      BY <3>1, <1>1
  <2> QED
    BY <2>1, <1>2, <1>5
<1>7. i \in DOMAIN list /\ D!Pool!fitsAt(list, i, n)
  BY <1>2
<1> QED
  BY <1>1, <1>6, <1>7, Zenon DEF D!Pool!firstFit
-----------------------------------------------------------------------------
(* A pool: its list, and runs f[x] that are held or empty.  No block is    *)
(* twice on the list, in two runs, or in a run and on the list.            *)
RunRec == [first : Nat, len : Nat]
span(r) == r.first .. r.first + r.len - 1

Apart(list, N, f) ==
  /\ ListOK(list, N)
  /\ \A x \in DOMAIN f :
       f[x] \in RunRec /\ span(f[x]) \subseteq 1 .. N /\ span(f[x]) \cap Listing(list) = {}
  /\ \A x, y \in DOMAIN f : x # y => span(f[x]) \cap span(f[y]) = {}

LEMMA NoRunIsEmpty == D!NoRun \in RunRec /\ D!NoRun.len = 0 /\ span(D!NoRun) = {}
BY DEF D!NoRun, D!Run, RunRec, span

(* A run that is taken.                                                    *)
LEMMA Takes ==
  ASSUME NEW N \in Nat, NEW list, NEW f, Apart(list, N, f), NEW x \in DOMAIN f, span(f[x]) = {},
         NEW n \in Nat \ {0}, D!Pool!fits(list, n)
  PROVE  /\ D!Run(D!FirstOf(list, n), n) \in RunRec
         /\ D!Run(D!FirstOf(list, n), n).len = n /\ D!Run(D!FirstOf(list, n), n).first > 0
         /\ n <= Len(list) /\ Len(D!Taken(list, n)) = Len(list) - n
         /\ Apart(D!Taken(list, n), N, [f EXCEPT ![x] = D!Run(D!FirstOf(list, n), n)])
<1>1. ListOK(list, N) /\ list \in Seq(1 .. N) /\ DOMAIN list = 1 .. Len(list) /\ Len(list) \in Nat
  BY LenProperties DEF Apart, ListOK
<1>2. PICK i : i = D!Pool!firstFit(list, n)
  OBVIOUS
<1>3. i \in 1 .. Len(list) /\ D!Pool!fitsAt(list, i, n)
  BY <1>1, <1>2, FirstFit
<1>4. i + n - 1 <= Len(list) /\ \A c \in 1 .. n - 1 : list[i + c] = list[i] + c
  BY <1>3 DEF D!Pool!fitsAt
<1>5. PICK rest : rest = D!Pool!without(list, i, n)
  OBVIOUS
<1>6. D!Taken(list, n) = rest /\ D!FirstOf(list, n) = list[i]
  BY <1>2, <1>5 DEF D!Taken, D!FirstOf
<1>7. ListOK(rest, N) /\ Listing(rest) = Listing(list) \ {list[k] : k \in i .. i + n - 1}
  <2>1. ListOK(list, N) /\ i \in 1 .. Len(list) /\ i + n - 1 <= Len(list)
    BY <1>1, <1>3, <1>4
  <2>2. /\ ListOK(D!Pool!without(list, i, n), N)
        /\ Listing(D!Pool!without(list, i, n)) = Listing(list) \ {list[k] : k \in i .. i + n - 1}
    BY <2>1, CutListing
  <2> QED
    BY <2>2, <1>5
<1>8. Len(rest) = Len(list) - n
  BY <1>1, <1>3, <1>4, <1>5, CutEntries, ZenonT(60)
<1>9. PICK r : r = D!Run(list[i], n)
  OBVIOUS
<1>10. list[i] \in 1 .. N
  BY <1>1, <1>3
<1>11. r \in RunRec /\ r.first = list[i] /\ r.len = n
  BY <1>9, <1>10 DEF D!Run, RunRec
<1>12. \A k \in i .. i + n - 1 : k \in 1 .. Len(list) /\ list[k] = list[i] + (k - i)
  <2>1. TAKE k \in i .. i + n - 1
  <2>2. k \in 1 .. Len(list)
    BY <1>3, <1>4
  <2>3. k = i \/ (k - i \in 1 .. n - 1 /\ i + (k - i) = k)
    BY <1>3
  <2> QED
    BY <1>4, <1>10, <2>2, <2>3
<1>13. span(r) = {list[k] : k \in i .. i + n - 1}
  <2>1. \A b \in span(r) : b - list[i] + i \in i .. i + n - 1 /\ list[b - list[i] + i] = b
    <3>1. TAKE b \in span(r)
    <3>2. b \in Int /\ b >= list[i] /\ b <= list[i] + n - 1
      BY <1>10, <1>11 DEF span
    <3>3. b - list[i] + i \in i .. i + n - 1
      BY <3>2, <1>3, <1>10
    <3>4. list[b - list[i] + i] = list[i] + ((b - list[i] + i) - i)
      BY <3>3, <1>12
    <3> QED
      BY <3>2, <3>3, <3>4, <1>3, <1>10
  <2>2. \A k \in i .. i + n - 1 : list[k] \in span(r)
    <3>1. TAKE k \in i .. i + n - 1
    <3>2. list[k] = list[i] + (k - i) /\ k - i \in 0 .. n - 1
      BY <1>3, <1>12
    <3> QED
      BY <3>2, <1>10, <1>11 DEF span
  <2> QED
    BY <2>1, <2>2
<1>14. span(r) \subseteq Listing(list)
  BY <1>1, <1>12, <1>13 DEF Listing
<1>15. Listing(list) \subseteq 1 .. N
  BY <1>1 DEF Listing
<1>16. Listing(rest) = Listing(list) \ span(r)
  BY <1>7, <1>13
<1>17. PICK g : g = [f EXCEPT ![x] = r]
  OBVIOUS
<1>18. DOMAIN g = DOMAIN f /\ g[x] = r /\ \A y \in DOMAIN f : y # x => g[y] = f[y]
  BY <1>17
<1>19. \A y \in DOMAIN f :
         f[y] \in RunRec /\ span(f[y]) \subseteq 1 .. N /\ span(f[y]) \cap Listing(list) = {}
  BY DEF Apart
<1>20. ASSUME NEW y \in DOMAIN g
       PROVE  g[y] \in RunRec /\ span(g[y]) \subseteq 1 .. N /\ span(g[y]) \cap Listing(rest) = {}
  <2>1. CASE y = x
    BY <2>1, <1>11, <1>14, <1>15, <1>16, <1>18
  <2>2. CASE y # x
    BY <2>2, <1>16, <1>18, <1>19
  <2> QED
    BY <2>1, <2>2
<1>21. ASSUME NEW y \in DOMAIN g, NEW z \in DOMAIN g, y # z
       PROVE  span(g[y]) \cap span(g[z]) = {}
  <2>1. \A w \in DOMAIN f : w # x => span(g[w]) \cap span(r) = {}
    BY <1>14, <1>18, <1>19
  <2>2. CASE y = x
    BY <2>1, <2>2, <1>18, <1>21
  <2>3. CASE z = x
    BY <2>1, <2>3, <1>18, <1>21
  <2>4. CASE y # x /\ z # x
    BY <2>4, <1>18, <1>21 DEF Apart
  <2> QED
    BY <2>2, <2>3, <2>4
<1>22. Apart(rest, N, g)
  BY <1>7, <1>20, <1>21 DEF Apart
<1>23. n <= Len(list)
  BY <1>1, <1>3, <1>4
<1> QED
  BY <1>6, <1>8, <1>9, <1>10, <1>11, <1>17, <1>22, <1>23

(* A run that is given back.                                               *)
LEMMA Returns ==
  ASSUME NEW N \in Nat, NEW list, NEW f, Apart(list, N, f), NEW x \in DOMAIN f, f[x].len # 0
  PROVE  Apart(D!Returned(list, f[x]), N, [f EXCEPT ![x] = D!NoRun])
<1>1. ListOK(list, N) /\ list \in Seq(1 .. N)
  BY DEF Apart, ListOK
<1>2. PICK r : r = f[x]
  OBVIOUS
<1>3. r \in RunRec /\ span(r) \subseteq 1 .. N /\ span(r) \cap Listing(list) = {} /\ r.len # 0
  BY <1>2 DEF Apart
<1>4. r.first \in Nat /\ r.len \in Nat \ {0}
  BY <1>3 DEF RunRec
<1>5. r.first \in span(r) /\ r.first + r.len - 1 \in span(r)
  BY <1>4 DEF span
<1>6. r.first \in 1 .. N /\ r.first + r.len - 1 \in 1 .. N
  BY <1>3, <1>5
<1>7. r \in [first : 1 .. N, len : 1 .. N]
  BY <1>3, <1>4, <1>6 DEF RunRec
<1>8. D!Pool!blocksOf(r) = span(r)
  BY DEF D!Pool!blocksOf, span
<1>9. PICK s : s = D!Pool!runSeq(r)
  OBVIOUS
<1>10. ListOK(s, N) /\ Listing(s) = span(r)
  BY <1>3, <1>7, <1>8, <1>9, RunSeq
<1>11. PICK i \in 0 .. Len(list) : i = D!Pool!inFrontOf(list, r.first)
  BY <1>1, PlaceOfRun
<1>12. PICK h : h = put(list, i, s)
  OBVIOUS
<1>13. D!Returned(list, f[x]) = h
  BY <1>2, <1>9, <1>11, <1>12 DEF put, D!Returned, D!Pool!withRun
<1>14. ListOK(h, N) /\ Listing(h) = Listing(list) \cup span(r)
  <2>1. Listing(list) \cap Listing(s) = {}
    BY <1>3, <1>10
  <2> QED
    BY <2>1, <1>1, <1>10, <1>12, PutListing
<1>15. PICK g : g = [f EXCEPT ![x] = D!NoRun]
  OBVIOUS
<1>16. DOMAIN g = DOMAIN f /\ g[x] = D!NoRun /\ \A y \in DOMAIN f : y # x => g[y] = f[y]
  BY <1>15
<1>17. ASSUME NEW y \in DOMAIN g
       PROVE  g[y] \in RunRec /\ span(g[y]) \subseteq 1 .. N /\ span(g[y]) \cap Listing(h) = {}
  <2>1. CASE y = x
    BY <2>1, <1>16, NoRunIsEmpty
  <2>2. CASE y # x
    <3>1. span(f[y]) \cap span(r) = {}
      BY <1>2, <1>16, <2>2 DEF Apart
    <3>2. f[y] \in RunRec /\ span(f[y]) \subseteq 1 .. N /\ span(f[y]) \cap Listing(list) = {}
      BY <1>16 DEF Apart
    <3> QED
      BY <3>1, <3>2, <2>2, <1>14, <1>16
  <2> QED
    BY <2>1, <2>2
<1>18. ASSUME NEW y \in DOMAIN g, NEW z \in DOMAIN g, y # z
       PROVE  span(g[y]) \cap span(g[z]) = {}
  <2>1. CASE y = x \/ z = x
    BY <2>1, <1>16, NoRunIsEmpty
  <2>2. CASE y # x /\ z # x
    BY <2>2, <1>16, <1>18 DEF Apart
  <2> QED
    BY <2>1, <2>2
<1>19. Apart(h, N, g)
  BY <1>14, <1>17, <1>18 DEF Apart
<1> QED
  BY <1>13, <1>15, <1>19

(* As long as nothing was given back the list has its blocks in a row.     *)
Neat(list) == \A i \in DOMAIN list : list[i] = list[1] + i - 1

LEMMA NeatFits ==
  ASSUME NEW N \in Nat, NEW list, ListOK(list, N), Neat(list), NEW n \in Nat \ {0}, n <= Len(list)
  PROVE  D!Pool!fits(list, n) /\ Neat(D!Taken(list, n))
<1>1. list \in Seq(1 .. N) /\ DOMAIN list = 1 .. Len(list) /\ Len(list) \in Nat
  BY LenProperties DEF ListOK
<1>2. 1 \in DOMAIN list /\ list[1] \in 1 .. N
  BY <1>1
<1>3. D!Pool!fitsAt(list, 1, n)
  <2>1. ASSUME NEW c \in 1 .. n - 1  PROVE  list[1 + c] = list[1] + c
    <3>1. 1 + c \in DOMAIN list
      BY <1>1
    <3>2. list[1 + c] = list[1] + (1 + c) - 1
      BY <3>1 DEF Neat
    <3> QED
      BY <3>2, <1>2
  <2> QED
    BY <1>1, <2>1 DEF D!Pool!fitsAt
<1>4. D!Pool!fits(list, n)
  BY <1>2, <1>3 DEF D!Pool!fits
<1>5. PICK i : i = D!Pool!firstFit(list, n)
  OBVIOUS
<1>6. PICK m \in Nat : m = Len(list)
  BY <1>1
<1>7. i \in 1 .. m /\ i + n - 1 <= m
  BY <1>1, <1>4, <1>5, <1>6, FirstFit DEF D!Pool!fitsAt
<1>8. i = 1
  <2> DEFINE First(j) == j \in DOMAIN list /\ D!Pool!fitsAt(list, j, n)
                         /\ \A k \in 1 .. j - 1 : ~ D!Pool!fitsAt(list, k, n)
  <2>1. First(1)
    BY <1>2, <1>3
  <2>2. i = CHOOSE j : First(j)
    BY <1>5, Zenon DEF D!Pool!firstFit
  <2>3. First(i)
    BY <2>1, <2>2, Zenon
  <2>4. i # 1 => 1 \in 1 .. i - 1
    BY <1>7
  <2> QED
    BY <2>3, <2>4, <1>3
<1>9. PICK g : g = D!Taken(list, n)
  OBVIOUS
<1>10. g = D!Pool!without(list, 1, n)
  BY <1>5, <1>8, <1>9 DEF D!Taken
<1>11. /\ g \in Seq(1 .. N) /\ Len(g) = m - n
       /\ \A k \in 1 .. m - n : g[k] = list[k + n]
  <2>1. /\ g \in Seq(1 .. N) /\ Len(g) = Len(list) - n
        /\ \A k \in 1 .. Len(list) - n : g[k] = IF k < 1 THEN list[k] ELSE list[k + n]
    <3>1. 1 \in 1 .. Len(list) /\ 1 + n - 1 <= Len(list)
      BY <1>6, <1>7, <1>8
    <3> QED
      BY <3>1, <1>1, <1>10, CutEntries, Zenon
  <2> QED
    BY <2>1, <1>6
<1>12. Neat(g)
  <2>1. SUFFICES ASSUME NEW k \in DOMAIN g  PROVE  g[k] = g[1] + k - 1
    BY DEF Neat
  <2>2. k \in 1 .. m - n /\ 1 \in 1 .. m - n
    BY <1>11, <2>1
  <2>3. g[k] = list[k + n] /\ g[1] = list[1 + n] /\ k + n \in DOMAIN list /\ 1 + n \in DOMAIN list
    <3>1. DOMAIN list = 1 .. m
      BY <1>1, <1>6
    <3>2. k + n \in 1 .. m /\ 1 + n \in 1 .. m
      BY <2>2
    <3>3. g[k] = list[k + n] /\ g[1] = list[1 + n]
      BY <1>11, <2>2
    <3> QED
      BY <3>1, <3>2, <3>3
  <2>4. list[k + n] = list[1] + (k + n) - 1 /\ list[1 + n] = list[1] + (1 + n) - 1
    BY <2>3 DEF Neat
  <2> QED
    BY <2>2, <2>3, <2>4, <1>2
<1> QED
  BY <1>4, <1>9, <1>12
-----------------------------------------------------------------------------
(* Maps.  Searches go round: what is d places behind place a.              *)
LEMMA GoingRound ==
  ASSUME NEW n \in Nat \ {0}, NEW a \in 0 .. n - 1, NEW d \in 0 .. n - 1
  PROVE  (a + d) % n = IF a + d < n THEN a + d ELSE a + d - n
<1>1. CASE a + d < n
  BY <1>1
<1>2. CASE a + d >= n
  <2>1. PICK b \in Nat : b = a + d - n /\ b < n
    BY <1>2
  <2>2. (b + n) % n = b
    BY <2>1
  <2> QED
    BY <1>2, <2>1, <2>2
<1> QED
  BY <1>1, <1>2

LEMMA Shifts == \A n \in 0 .. 15 : 2^n \in Nat \ {0}
<1> SUFFICES ASSUME NEW n \in 0 .. 15  PROVE  2^n \in Nat \ {0}
  OBVIOUS
<1>1. /\ 2^0 > 0 /\ 2^1 > 0 /\ 2^2 > 0 /\ 2^3 > 0 /\ 2^4 > 0 /\ 2^5 > 0 /\ 2^6 > 0 /\ 2^7 > 0
      /\ 2^8 > 0 /\ 2^9 > 0 /\ 2^10 > 0 /\ 2^11 > 0 /\ 2^12 > 0 /\ 2^13 > 0 /\ 2^14 > 0 /\ 2^15 > 0
  BY SMT
<1>2. \/ n = 0 \/ n = 1 \/ n = 2 \/ n = 3 \/ n = 4 \/ n = 5 \/ n = 6 \/ n = 7
      \/ n = 8 \/ n = 9 \/ n = 10 \/ n = 11 \/ n = 12 \/ n = 13 \/ n = 14 \/ n = 15
  OBVIOUS
<1>3. 2^n \in Int
  OBVIOUS
<1>4. 2^n > 0
  BY <1>1, <1>2
<1> QED
  BY <1>3, <1>4

LEMMA IndexInMap ==
  ASSUME NEW key \in Nat, NEW n \in 1 .. 16
  PROVE  D!getIndex(key, n) \in 0 .. n - 1
<1>1. PICK x \in Int : x = 26509 * key + (56943 * key) \div 65536
  OBVIOUS
<1>2. x >= 0
  BY <1>1
<1>3. D!UpperHalf(key) \in Nat
  BY <1>1, <1>2 DEF D!UpperHalf
<1>4. PICK b \in Nat \ {0} : b = 2^(16 - n)
  <2>1. 16 - n \in 0 .. 15
    OBVIOUS
  <2> QED
    BY <2>1, Shifts
<1>5. PICK y \in Nat : y = D!UpperHalf(key) \div b
  BY <1>3, <1>4
<1>6. y % n \in 0 .. n - 1
  OBVIOUS
<1> QED
  BY <1>4, <1>5, <1>6 DEF D!getIndex

Els == [1 .. D!MapSize -> [key : Nat, data : Nat]]

(* A map of some elements, and the d-th place a search looks at.           *)
Table(m) == m \in RunRec /\ m.len \in 1 .. 16 /\ span(m) \subseteq 1 .. D!MapSize
probed(m, key, d) == (D!getIndex(key, m.len) + d) % m.len
Passed(els, m, key, d) == \A c \in 0 .. d - 1 : ~ D!Ends(els, m, key, probed(m, key, c))

(* The search for a key ends at an element that has it, with the data v.   *)
Entry(els, m, key, v) ==
  \E d \in 0 .. m.len - 1 :
    /\ els[m.first + probed(m, key, d)].key = key /\ els[m.first + probed(m, key, d)].data = v
    /\ Passed(els, m, key, d)

LEMMA Places ==
  ASSUME NEW m, Table(m), NEW key \in Nat
  PROVE  /\ m.len \in Nat \ {0} /\ m.first \in Nat
         /\ \A d \in 0 .. m.len - 1 :
              probed(m, key, d) \in 0 .. m.len - 1 /\ m.first + probed(m, key, d) \in span(m)
         /\ \A e \in 0 .. m.len - 1 : \E d \in 0 .. m.len - 1 : probed(m, key, d) = e
<1>1. PICK n \in 1 .. 16 : n = m.len
  BY DEF Table
<1>2. m.first \in Nat
  BY DEF Table, RunRec
<1>3. PICK a \in 0 .. n - 1 : a = D!getIndex(key, n)
  BY <1>1, IndexInMap
<1>4. \A d \in 0 .. n - 1 : probed(m, key, d) = IF a + d < n THEN a + d ELSE a + d - n
  <2>1. n \in Nat \ {0}
    OBVIOUS
  <2> QED
    BY <2>1, <1>1, <1>3, GoingRound DEF probed
<1>5. \A d \in 0 .. n - 1 : probed(m, key, d) \in 0 .. n - 1
  BY <1>4
<1>6. \A e \in 0 .. n - 1 : m.first + e \in span(m)
  BY <1>1, <1>2 DEF span
<1>7. ASSUME NEW e \in 0 .. n - 1  PROVE  \E d \in 0 .. n - 1 : probed(m, key, d) = e
  <2>1. CASE e >= a
    <3>1. e - a \in 0 .. n - 1 /\ a + (e - a) = e
      BY <2>1
    <3>2. probed(m, key, e - a) = e
      BY <3>1, <1>4
    <3> QED
      BY <3>1, <3>2
  <2>2. CASE e < a
    <3>1. e - a + n \in 0 .. n - 1 /\ a + (e - a + n) = e + n /\ ~ (e + n < n)
      BY <2>2
    <3>2. probed(m, key, e - a + n) = e
      BY <3>1, <1>4
    <3> QED
      BY <3>1, <3>2
  <2> QED
    BY <2>1, <2>2
<1> QED
  BY <1>1, <1>2, <1>5, <1>6, <1>7

(* Where a search ends.                                                    *)
LEMMA ProbeAt ==
  ASSUME NEW els, NEW m, Table(m), NEW key \in Nat, NEW d \in 0 .. m.len - 1,
         D!Ends(els, m, key, probed(m, key, d)), Passed(els, m, key, d)
  PROVE  D!Probe(els, m, key) = probed(m, key, d)
<1> DEFINE ends == {c \in 0 .. m.len - 1 :
                      D!Ends(els, m, key, (D!getIndex(key, m.len) + c) % m.len)}
           First(c) == c \in ends /\ \A b \in ends : c <= b
<1>1. \A c \in 0 .. m.len - 1 : c \in ends <=> D!Ends(els, m, key, probed(m, key, c))
  BY DEF probed
<1>2. m.len \in Nat
  BY Places
<1>3. First(d)
  <2>1. d \in ends
    BY <1>1
  <2>2. ASSUME NEW b \in ends  PROVE  d <= b
    <3>1. b \in 0 .. m.len - 1
      OBVIOUS
    <3>2. ~ (b \in 0 .. d - 1)
      BY <1>1, <3>1 DEF Passed
    <3> QED
      BY <1>2, <3>1, <3>2
  <2> QED
    BY <2>1, <2>2
<1>4. PICK c : c = CHOOSE b : First(b)
  OBVIOUS
<1>5. First(c)
  BY <1>3, <1>4
<1>6. c = d
  <2>1. c \in 0 .. m.len - 1 /\ c <= d /\ d <= c
    BY <1>3, <1>5
  <2> QED
    BY <2>1, <1>2
<1>7. ends # {}
  BY <1>3
<1>8. D!Probe(els, m, key) = (D!getIndex(key, m.len) + c) % m.len
  <2>1. c = CHOOSE b \in ends : \A x \in ends : b <= x
    BY <1>4
  <2> QED
    BY <2>1, <1>7 DEF D!Probe
<1> QED
  BY <1>6, <1>8 DEF probed

LEMMA ProbeCases ==
  ASSUME NEW els, NEW m, Table(m), NEW key \in Nat
  PROVE  \/ D!Probe(els, m, key) = -1 /\ \A e \in 0 .. m.len - 1 : ~ D!Ends(els, m, key, e)
         \/ \E d \in 0 .. m.len - 1 :
              /\ D!Ends(els, m, key, probed(m, key, d)) /\ Passed(els, m, key, d)
              /\ D!Probe(els, m, key) = probed(m, key, d)
<1>1. m.len \in Nat
  BY Places
<1> DEFINE stops == {d \in 0 .. m.len - 1 : D!Ends(els, m, key, probed(m, key, d))}
<1>2. CASE stops = {}
  <2>1. \A e \in 0 .. m.len - 1 : ~ D!Ends(els, m, key, e)
    <3>1. TAKE e \in 0 .. m.len - 1
    <3>2. PICK d \in 0 .. m.len - 1 : probed(m, key, d) = e
      BY Places
    <3> QED
      BY <1>2, <3>2
  <2>2. {d \in 0 .. m.len - 1 : D!Ends(els, m, key, (D!getIndex(key, m.len) + d) % m.len)} = {}
    BY <1>2 DEF probed
  <2>3. D!Probe(els, m, key) = -1
    BY <2>2 DEF D!Probe
  <2> QED
    BY <2>1, <2>3
<1>3. CASE stops # {}
  <2>1. stops \subseteq Nat
    BY <1>1
  <2>2. PICK d \in stops : \A c \in stops : ~ (<<c, d>> \in OpToRel(<, Nat))
    BY <1>3, <2>1, NatLessThanWellFounded, WFMin, Zenon
  <2>3. \A c \in stops : ~ (c < d)
    BY <2>1, <2>2 DEF OpToRel
  <2>4. ASSUME NEW c \in 0 .. d - 1  PROVE  ~ D!Ends(els, m, key, probed(m, key, c))
    <3>1. c \in 0 .. m.len - 1 /\ c < d
      BY <1>1
    <3> QED
      BY <2>3, <3>1
  <2>5. Passed(els, m, key, d)
    BY <2>4 DEF Passed
  <2>6. d \in 0 .. m.len - 1 /\ D!Ends(els, m, key, probed(m, key, d))
    OBVIOUS
  <2> HIDE DEF stops
  <2> QED
    BY <2>5, <2>6, ProbeAt
<1> QED
  BY <1>2, <1>3

-----------------------------------------------------------------------------
(* What a search finds of a key that was entered.                          *)
LEMMA EntryFound ==
  ASSUME NEW els, NEW m, Table(m), NEW key \in Nat, NEW v, Entry(els, m, key, v)
  PROVE  D!Probe(els, m, key) # -1 /\ D!getMapElement(els, m, key) = v
<1>1. PICK d \in 0 .. m.len - 1 :
        /\ els[m.first + probed(m, key, d)].key = key /\ els[m.first + probed(m, key, d)].data = v
        /\ Passed(els, m, key, d)
  BY DEF Entry
<1>2. D!Ends(els, m, key, probed(m, key, d))
  BY <1>1 DEF D!Ends
<1>3. D!Probe(els, m, key) = probed(m, key, d)
  BY <1>1, <1>2, ProbeAt
<1>4. probed(m, key, d) \in Nat
  BY Places
<1> QED
  BY <1>1, <1>3, <1>4 DEF D!getMapElement

(* A search looks at elements of its own map only.                         *)
LEMMA EntryElsewhere ==
  ASSUME NEW els, NEW new, NEW m, Table(m), NEW key \in Nat, NEW v, Entry(els, m, key, v),
         \A x \in span(m) : new[x] = els[x]
  PROVE  Entry(new, m, key, v)
<1>1. PICK d \in 0 .. m.len - 1 :
        /\ els[m.first + probed(m, key, d)].key = key /\ els[m.first + probed(m, key, d)].data = v
        /\ Passed(els, m, key, d)
  BY DEF Entry
<1>2. m.len \in Nat
  BY Places
<1>3. \A c \in 0 .. m.len - 1 : new[m.first + probed(m, key, c)] = els[m.first + probed(m, key, c)]
  BY Places
<1>4. ASSUME NEW c \in 0 .. d - 1  PROVE  ~ D!Ends(new, m, key, probed(m, key, c))
  <2>1. c \in 0 .. m.len - 1
    BY <1>2
  <2>2. ~ D!Ends(els, m, key, probed(m, key, c))
    BY <1>1 DEF Passed
  <2> QED
    BY <2>1, <2>2, <1>3 DEF D!Ends
<1>5. Passed(new, m, key, d)
  BY <1>4 DEF Passed
<1>6. new[m.first + probed(m, key, d)].key = key /\ new[m.first + probed(m, key, d)].data = v
  BY <1>1, <1>3
<1> QED
  BY <1>5, <1>6 DEF Entry

(* A key that is entered is found and changes one element, which had its   *)
(* key or was empty, and other keys are found as before.                   *)
LEMMA SetEntry ==
  ASSUME NEW els \in Els, NEW m, Table(m), NEW key \in Nat, NEW v \in Nat \ {0},
         D!Probe(els, m, key) # -1
  PROVE  \E x \in span(m) :
           /\ D!setMapElement(els, m, key, v) = [els EXCEPT ![x] = [key |-> key, data |-> v]]
           /\ D!setMapElement(els, m, key, v) \in Els
           /\ Entry(D!setMapElement(els, m, key, v), m, key, v)
           /\ \A k \in Nat, w \in Nat \ {0} :
                k # key /\ Entry(els, m, k, w) => Entry(D!setMapElement(els, m, key, v), m, k, w)
<1>1. PICK d \in 0 .. m.len - 1 :
        /\ D!Ends(els, m, key, probed(m, key, d)) /\ Passed(els, m, key, d)
        /\ D!Probe(els, m, key) = probed(m, key, d)
  BY ProbeCases
<1>2. PICK x \in span(m) : x = m.first + probed(m, key, d)
  BY Places
<1>3. x \in 1 .. D!MapSize
  BY DEF Table
<1>4. PICK e : e = [key |-> key, data |-> v]
  OBVIOUS
<1>5. e \in [key : Nat, data : Nat] /\ e.key = key /\ e.data = v
  BY <1>4
<1>6. PICK new : new = [els EXCEPT ![x] = e]
  OBVIOUS
<1>7. D!setMapElement(els, m, key, v) = new
  BY <1>1, <1>2, <1>4, <1>6 DEF D!setMapElement
<1>8. new \in Els
  BY <1>3, <1>5, <1>6 DEF Els
<1>9. new[x] = e /\ \A y : y # x /\ y \in span(m) => new[y] = els[y]
  BY <1>3, <1>6 DEF Els, Table
<1>10. m.len \in Nat
  BY Places
<1>11. els[x].key = key \/ els[x].data = 0
  BY <1>1, <1>2 DEF D!Ends
<1>12. Entry(new, m, key, v)
  <2>1. ASSUME NEW c \in 0 .. d - 1  PROVE  ~ D!Ends(new, m, key, probed(m, key, c))
    <3>1. c \in 0 .. m.len - 1
      BY <1>10
    <3>2. ~ D!Ends(els, m, key, probed(m, key, c))
      BY <1>1 DEF Passed
    <3>3. m.first + probed(m, key, c) # x
      BY <1>2, <1>11, <3>2 DEF D!Ends
    <3>4. m.first + probed(m, key, c) \in span(m)
      BY <3>1, Places
    <3> QED
      BY <1>9, <3>2, <3>3, <3>4 DEF D!Ends
  <2>2. Passed(new, m, key, d)
    BY <2>1 DEF Passed
  <2>3. new[m.first + probed(m, key, d)].key = key /\ new[m.first + probed(m, key, d)].data = v
    BY <1>2, <1>5, <1>9
  <2> QED
    BY <2>2, <2>3 DEF Entry
<1>13. ASSUME NEW k \in Nat, NEW w \in Nat \ {0}, k # key, Entry(els, m, k, w)
       PROVE  Entry(new, m, k, w)
  <2>1. PICK b \in 0 .. m.len - 1 :
          /\ els[m.first + probed(m, k, b)].key = k /\ els[m.first + probed(m, k, b)].data = w
          /\ Passed(els, m, k, b)
    BY <1>13 DEF Entry
  <2>2. m.first + probed(m, k, b) \in span(m) /\ m.first + probed(m, k, b) # x
    BY <1>11, <1>13, <2>1, Places
  <2>3. ASSUME NEW c \in 0 .. b - 1  PROVE  ~ D!Ends(new, m, k, probed(m, k, c))
    <3>1. c \in 0 .. m.len - 1
      BY <1>10
    <3>2. ~ D!Ends(els, m, k, probed(m, k, c))
      BY <2>1 DEF Passed
    <3>3. m.first + probed(m, k, c) \in span(m)
      BY <3>1, Places
    <3>4. CASE m.first + probed(m, k, c) = x
      BY <1>5, <1>9, <1>13, <3>4 DEF D!Ends
    <3>5. CASE m.first + probed(m, k, c) # x
      BY <1>9, <3>2, <3>3, <3>5 DEF D!Ends
    <3> QED
      BY <3>4, <3>5
  <2>4. Passed(new, m, k, b)
    BY <2>3 DEF Passed
  <2>5. new[m.first + probed(m, k, b)].key = k /\ new[m.first + probed(m, k, b)].data = w
    BY <1>9, <2>1, <2>2
  <2> QED
    BY <2>4, <2>5 DEF Entry
<1> QED
  BY <1>4, <1>6, <1>7, <1>8, <1>12, <1>13

(* New maps are empty, and elements of others stay.                        *)
LEMMA MapsCreated ==
  ASSUME NEW els \in Els, NEW ms \in [D!Kinds -> RunRec]
  PROVE  /\ D!createMap(els, ms) \in Els
         /\ \A x \in 1 .. D!MapSize :
              IF \E k \in D!Kinds : x \in span(ms[k])
              THEN D!createMap(els, ms)[x].data = 0 ELSE D!createMap(els, ms)[x] = els[x]
<1>1. PICK new : new = D!createMap(els, ms)
  OBVIOUS
<1>2. new = [x \in 1 .. D!MapSize |-> IF \E k \in D!Kinds : x \in span(ms[k])
                                      THEN [els[x] EXCEPT !.data = 0] ELSE els[x]]
  BY <1>1 DEF D!createMap, Els, span
<1>3. \A x \in 1 .. D!MapSize :
        els[x] \in [key : Nat, data : Nat] /\ [els[x] EXCEPT !.data = 0] \in [key : Nat, data : Nat]
        /\ [els[x] EXCEPT !.data = 0].data = 0
  BY DEF Els
<1>4. new \in Els
  BY <1>2, <1>3 DEF Els
<1>5. \A x \in 1 .. D!MapSize :
        IF \E k \in D!Kinds : x \in span(ms[k]) THEN new[x].data = 0 ELSE new[x] = els[x]
  BY <1>2, <1>3
<1> QED
  BY <1>1, <1>4, <1>5

(* A search that never ends finds no element empty.                        *)
LEMMA NoneSpare ==
  ASSUME NEW els, NEW m, Table(m), NEW key \in Nat, D!Probe(els, m, key) = -1
  PROVE  \A x \in span(m) : els[x].data # 0
<1>1. m.len \in Nat /\ m.first \in Nat
  BY Places
<1>2. \A e \in 0 .. m.len - 1 : ~ D!Ends(els, m, key, e)
  <2>1. \A d \in 0 .. m.len - 1 : probed(m, key, d) # -1
    BY Places
  <2> QED
    BY <2>1, ProbeCases
<1>3. TAKE x \in span(m)
<1>4. x - m.first \in 0 .. m.len - 1 /\ m.first + (x - m.first) = x
  BY <1>1 DEF span
<1> QED
  BY <1>2, <1>4 DEF D!Ends

-----------------------------------------------------------------------------
(* Bindings of a layout, and the descriptors of a kind in the first of     *)
(* them, counted one binding after the other.                              *)
Bindings == Seq([binding : Nat, kind : D!Kinds, count : Nat])
Counts(b, k, n, c) == IF b[n].kind = k THEN c + b[n].count ELSE c

LEMMA EachBinding ==
  ASSUME NEW b \in Bindings
  PROVE  /\ Len(b) \in Nat /\ DOMAIN b = 1 .. Len(b)
         /\ \A n \in 1 .. Len(b) :
              b[n].binding \in Nat /\ b[n].kind \in D!Kinds /\ b[n].count \in Nat
<1>1. PICK S : S = [binding : Nat, kind : D!Kinds, count : Nat]
  OBVIOUS
<1>2. b \in Seq(S)
  BY <1>1 DEF Bindings
<1>3. Len(b) \in Nat /\ DOMAIN b = 1 .. Len(b) /\ \A n \in 1 .. Len(b) : b[n] \in S
  BY <1>2, LenProperties
<1> QED
  BY <1>1, <1>3

LEMMA Counting ==
  ASSUME NEW b \in Bindings, NEW k
  PROVE  \E f \in [0 .. Len(b) -> Nat] :
           /\ f[0] = 0 /\ \A n \in 1 .. Len(b) : f[n] = Counts(b, k, n, f[n - 1])
           /\ \A m \in 0 .. Len(b) : D!CountUpTo(b, k, m) = f[m]
<1>1. PICK l \in Nat : l = Len(b)
  BY DEF Bindings
<1>2. \A n \in 1 .. l : b[n].count \in Nat
  BY <1>1, EachBinding
<1> DEFINE G == [p \in Nat \X Nat |-> IF p[2] \in 1 .. l THEN Counts(b, k, p[2], p[1]) ELSE p[1]]
<1>3. G \in [Nat \X Nat -> Nat]
  BY <1>2 DEF Counts
<1>4. \A c \in Nat, n \in 1 .. l : G[<<c, n>>] = Counts(b, k, n, c)
  OBVIOUS
<1>5. PICK f : Stepwise(f, Nat, 0, G, l)
  <2> HIDE DEF G
  <2> QED
    BY <1>3, StepByStep
<1> HIDE DEF G
<1>6. f \in [0 .. l -> Nat] /\ f[0] = 0
  BY <1>5 DEF Stepwise
<1>7. \A n \in 1 .. l : f[n] = Counts(b, k, n, f[n - 1])
  <2>1. TAKE n \in 1 .. l
  <2>2. f[n - 1] \in Nat
    BY <1>6
  <2> QED
    BY <2>2, <1>4, <1>5 DEF Stepwise
<1>8. ASSUME NEW m \in 0 .. l  PROVE  D!CountUpTo(b, k, m) = f[m]
  <2> DEFINE Fits(g) == g = [n \in 0 .. m |-> IF n = 0 THEN 0 ELSE Counts(b, k, n, g[n - 1])]
  <2>1. PICK r : r = [n \in 0 .. m |-> f[n]]
    OBVIOUS
  <2>2. Fits(r)
    <3>1. \A n \in 1 .. m : n \in 1 .. l /\ n - 1 \in 0 .. m
      BY <1>1
    <3>2. \A n \in 0 .. m : r[n] = IF n = 0 THEN 0 ELSE Counts(b, k, n, r[n - 1])
      BY <2>1, <3>1, <1>6, <1>7
    <3> QED
      BY <2>1, <3>2
  <2>3. PICK g : g = CHOOSE h : Fits(h)
    OBVIOUS
  <2>4. Fits(g)
    BY <2>2, <2>3
  <2>5. D!CountUpTo(b, k, m) = g[m]
    BY <2>3 DEF D!CountUpTo, D!Each, Counts
  <2> DEFINE T == {n \in Nat : n \in 0 .. m => g[n] = f[n]}
  <2>6. 0 \in T
    BY <2>4, <1>6
  <2>7. ASSUME NEW n \in Nat, n \in T  PROVE  n + 1 \in T
    <3>1. ASSUME n + 1 \in 0 .. m  PROVE  g[n + 1] = f[n + 1]
      <4>1. n + 1 \in 1 .. l /\ n + 1 # 0 /\ (n + 1) - 1 = n /\ n \in 0 .. m
        BY <3>1, <1>1
      <4>2. g[n] = f[n]
        BY <4>1, <2>7
      <4>3. g[n + 1] = Counts(b, k, n + 1, g[n])
        BY <2>4, <3>1, <4>1
      <4>4. f[n + 1] = Counts(b, k, n + 1, f[n])
        BY <1>7, <4>1
      <4> QED
        BY <4>2, <4>3, <4>4
    <3> QED
      BY <3>1
  <2>8. m \in T
    <3> HIDE DEF T
    <3> QED
      BY <2>6, <2>7, Upward
  <2> QED
    BY <2>5, <2>8
<1> QED
  BY <1>1, <1>6, <1>7, <1>8

LEMMA CountSteps ==
  ASSUME NEW b \in Bindings, NEW k
  PROVE  /\ D!CountUpTo(b, k, 0) = 0 /\ D!CountOf(b, k) \in Nat
         /\ \A m \in 0 .. Len(b) : D!CountUpTo(b, k, m) \in Nat
         /\ \A m \in 1 .. Len(b) :
              D!CountUpTo(b, k, m) = Counts(b, k, m, D!CountUpTo(b, k, m - 1))
         /\ \A m, n \in 0 .. Len(b) : m <= n => D!CountUpTo(b, k, m) <= D!CountUpTo(b, k, n)
<1>1. PICK l \in Nat : l = Len(b)
  BY EachBinding
<1>2. PICK f \in [0 .. l -> Nat] :
        /\ f[0] = 0 /\ \A n \in 1 .. l : f[n] = Counts(b, k, n, f[n - 1])
        /\ \A m \in 0 .. l : D!CountUpTo(b, k, m) = f[m]
  BY <1>1, Counting
<1>3. \A n \in 1 .. l : f[n - 1] <= f[n]
  <2>1. TAKE n \in 1 .. l
  <2>2. b[n].count \in Nat
    BY <1>1, EachBinding
  <2>4. n - 1 \in 0 .. l
    OBVIOUS
  <2>3. f[n] = f[n - 1] \/ f[n] = f[n - 1] + b[n].count
    BY <1>2 DEF Counts
  <2> QED
    BY <2>2, <2>3, <2>4
<1>4. ASSUME NEW m \in 0 .. l, NEW n \in 0 .. l, m <= n  PROVE  f[m] <= f[n]
  <2>1. ASSUME NEW x \in Nat, x \in {y \in Nat : m + y <= l => f[m] <= f[m + y]}
        PROVE  x + 1 \in {y \in Nat : m + y <= l => f[m] <= f[m + y]}
    <3>1. ASSUME m + (x + 1) <= l  PROVE  f[m] <= f[m + (x + 1)]
      <4>1. PICK z \in 1 .. l : z = m + (x + 1) /\ z - 1 = m + x
        BY <3>1
      <4>2. f[m] <= f[z - 1] /\ f[z - 1] <= f[z]
        BY <1>3, <2>1, <4>1
      <4>3. f[m] \in Nat /\ f[z - 1] \in Nat /\ f[z] \in Nat
        BY <4>1
      <4> QED
        BY <4>1, <4>2, <4>3
    <3> QED
      BY <3>1
  <2>2. 0 \in {y \in Nat : m + y <= l => f[m] <= f[m + y]}
    <3>1. f[m] \in Nat /\ m + 0 = m
      OBVIOUS
    <3> QED
      BY <3>1
  <2>3. Nat \subseteq {y \in Nat : m + y <= l => f[m] <= f[m + y]}
    BY <2>1, <2>2, Upward
  <2>4. n - m \in Nat /\ m + (n - m) = n
    BY <1>4
  <2> QED
    BY <2>3, <2>4
<1>5. \A m \in 1 .. l : m \in 0 .. l /\ m - 1 \in 0 .. l
  OBVIOUS
<1>6. l \in 0 .. l /\ 0 \in 0 .. l
  OBVIOUS
<1> QED
  BY <1>1, <1>2, <1>4, <1>5, <1>6 DEF D!CountOf

(* The descriptors of a binding lie behind those of earlier ones, among    *)
(* those of their kind.                                                    *)
LEMMA Offsets ==
  ASSUME NEW b \in Bindings, NEW i \in DOMAIN b
  PROVE  /\ D!offsetOf(b, i) \in Nat
         /\ D!offsetOf(b, i) + b[i].count <= D!CountOf(b, b[i].kind)
         /\ \A j \in DOMAIN b : i < j /\ b[i].kind = b[j].kind
                                => D!offsetOf(b, i) + b[i].count <= D!offsetOf(b, j)
<1>1. PICK l \in Nat : l = Len(b) /\ DOMAIN b = 1 .. l
  BY EachBinding
<1>2. PICK k : k = b[i].kind
  OBVIOUS
<1>3. /\ D!CountUpTo(b, k, i - 1) \in Nat /\ D!CountUpTo(b, k, i) \in Nat
      /\ D!CountUpTo(b, k, i) = Counts(b, k, i, D!CountUpTo(b, k, i - 1))
      /\ \A n \in i .. l : D!CountUpTo(b, k, n) \in Nat /\ D!CountUpTo(b, k, i) <= D!CountUpTo(b, k, n)
  <2>1. i \in 1 .. l /\ i \in 0 .. l /\ i - 1 \in 0 .. l /\ \A n \in i .. l : n \in 0 .. l /\ i <= n
    BY <1>1
  <2> QED
    BY <1>1, <2>1, CountSteps
<1>4. D!CountUpTo(b, k, i) = D!offsetOf(b, i) + b[i].count /\ D!offsetOf(b, i) = D!CountUpTo(b, k, i - 1)
  BY <1>2, <1>3 DEF Counts, D!offsetOf
<1>5. D!CountOf(b, b[i].kind) = D!CountUpTo(b, k, l) /\ l \in i .. l
  BY <1>1, <1>2 DEF D!CountOf
<1>6. ASSUME NEW j \in DOMAIN b, i < j, b[i].kind = b[j].kind
      PROVE  D!offsetOf(b, i) + b[i].count <= D!offsetOf(b, j)
  <2>1. j - 1 \in i .. l
    BY <1>1, <1>6
  <2>2. D!offsetOf(b, j) = D!CountUpTo(b, k, j - 1)
    BY <1>2, <1>6 DEF D!offsetOf
  <2> QED
    BY <1>3, <1>4, <2>1, <2>2
<1> QED
  BY <1>3, <1>4, <1>5, <1>6

-----------------------------------------------------------------------------
(* Sums, counted as units.                                                 *)
LEMMA SetsCardinality == \A S : D!Cardinality(S) = Cardinality(S)
BY Zenon DEF D!Cardinality, Cardinality

LEMMA UnitsOfOne ==
  ASSUME NEW x, NEW n \in Nat
  PROVE  IsFiniteSet({x} \X (1 .. n)) /\ Cardinality({x} \X (1 .. n)) = n
<1>1. IsFiniteSet({x}) /\ Cardinality({x}) = 1
  BY FS_Singleton
<1>2. IsFiniteSet(1 .. n) /\ Cardinality(1 .. n) = n
  BY FS_Interval
<1>3. /\ IsFiniteSet({x} \X (1 .. n))
      /\ Cardinality({x} \X (1 .. n)) = Cardinality({x}) * Cardinality(1 .. n)
  BY <1>1, <1>2, FS_Product
<1> QED
  BY <1>1, <1>2, <1>3

LEMMA TotalIsNat ==
  ASSUME NEW X, IsFiniteSet(X), NEW f \in [X -> Nat]
  PROVE  IsFiniteSet(D!Units(f)) /\ D!Total(f) \in Nat /\ D!Total(f) = Cardinality(D!Units(f))
<1> DEFINE one(x) == {x} \X (1 .. f[x])
           All == {one(x) : x \in X}
<1>1. D!Units(f) = UNION All
  BY DEF D!Units
<1>2. IsFiniteSet(All)
  <2> DEFINE F == [x \in X |-> one(x)]
  <2>1. F \in Surjection(X, All)
    BY DEF Surjection
  <2> QED
    BY <2>1, FS_Surjection
<1>3. \A T \in All : IsFiniteSet(T)
  <2>1. ASSUME NEW x \in X  PROVE  IsFiniteSet(one(x))
    <3>1. f[x] \in Nat
      OBVIOUS
    <3> QED
      BY <3>1, UnitsOfOne
  <2> QED
    BY <2>1
<1>4. IsFiniteSet(UNION All)
  <2> HIDE DEF All
  <2> QED
    BY <1>2, <1>3, FS_UNION
<1> HIDE DEF All
<1>5. IsFiniteSet(D!Units(f)) /\ Cardinality(D!Units(f)) \in Nat
  BY <1>1, <1>4, FS_CardinalityType
<1> QED
  BY <1>5, SetsCardinality DEF D!Total

(* No summand is more than the sum.                                        *)
LEMMA TotalOfOne ==
  ASSUME NEW X, IsFiniteSet(X), NEW f \in [X -> Nat], NEW x \in X
  PROVE  f[x] <= D!Total(f)
<1>1. f[x] \in Nat
  OBVIOUS
<1>2. IsFiniteSet({x} \X (1 .. f[x])) /\ Cardinality({x} \X (1 .. f[x])) = f[x]
  BY <1>1, UnitsOfOne
<1>3. {x} \X (1 .. f[x]) \subseteq D!Units(f)
  BY DEF D!Units
<1>4. IsFiniteSet(D!Units(f)) /\ D!Total(f) = Cardinality(D!Units(f))
  BY TotalIsNat
<1>5. Cardinality({x} \X (1 .. f[x])) <= Cardinality(D!Units(f))
  BY <1>3, <1>4, FS_Subset
<1> QED
  BY <1>2, <1>4, <1>5

LEMMA TotalOfNone ==
  ASSUME NEW X, NEW f \in [X -> Nat], \A x \in X : f[x] = 0
  PROVE  D!Total(f) = 0
<1>1. D!Units(f) = {}
  BY DEF D!Units
<1> QED
  BY <1>1, FS_EmptySet, SetsCardinality DEF D!Total

(* One summand changes.                                                    *)
LEMMA TotalChanges ==
  ASSUME NEW X, IsFiniteSet(X), NEW f \in [X -> Nat], NEW x \in X, NEW n \in Nat
  PROVE  D!Total([f EXCEPT ![x] = n]) = D!Total(f) - f[x] + n
<1> DEFINE g == [f EXCEPT ![x] = n]
           old == {x} \X (1 .. f[x])
           new == {x} \X (1 .. n)
           rest == D!Units(f) \ old
<1>1. g \in [X -> Nat] /\ g[x] = n /\ \A y \in X : y # x => g[y] = f[y]
  OBVIOUS
<1>2. f[x] \in Nat
  OBVIOUS
<1>3. IsFiniteSet(old) /\ Cardinality(old) = f[x] /\ IsFiniteSet(new) /\ Cardinality(new) = n
  BY <1>2, UnitsOfOne
<1>4. /\ IsFiniteSet(D!Units(f)) /\ D!Total(f) = Cardinality(D!Units(f)) /\ D!Total(f) \in Nat
      /\ D!Total(g) = Cardinality(D!Units(g))
  <2> HIDE DEF g
  <2> QED
    BY <1>1, TotalIsNat
<1>5. D!Units(f) \cap old = old
  BY DEF D!Units
<1>6. IsFiniteSet(rest) /\ Cardinality(rest) = Cardinality(D!Units(f)) - f[x]
  <2> HIDE DEF old
  <2>1. /\ IsFiniteSet(D!Units(f) \ old)
        /\ Cardinality(D!Units(f) \ old) = Cardinality(D!Units(f)) - Cardinality(D!Units(f) \cap old)
    BY <1>4, FS_Difference
  <2> QED
    BY <1>3, <1>5, <2>1
<1>7. D!Units(g) = rest \cup new
  <2> HIDE DEF g
  <2>1. \A u : u \in D!Units(g) <=> \E y \in X : u \in {y} \X (1 .. g[y])
    BY <1>1 DEF D!Units
  <2>2. \A u : u \in D!Units(f) <=> \E y \in X : u \in {y} \X (1 .. f[y])
    BY DEF D!Units
  <2>3. \A y, z, e, h : y # z => ({y} \X e) \cap ({z} \X h) = {}
    OBVIOUS
  <2>4. ASSUME NEW u  PROVE  u \in D!Units(g) <=> u \in rest \cup new
    <3>1. ASSUME NEW y \in X, u \in {y} \X (1 .. g[y])  PROVE  u \in rest \cup new
      <4>1. CASE y = x
        BY <1>1, <3>1, <4>1
      <4>2. CASE y # x
        BY <1>1, <2>2, <2>3, <3>1, <4>2
      <4> QED
        BY <4>1, <4>2
    <3>2. ASSUME u \in new  PROVE  u \in D!Units(g)
      BY <1>1, <2>1, <3>2
    <3>3. ASSUME NEW y \in X, u \in {y} \X (1 .. f[y]), u \notin old
          PROVE  u \in D!Units(g)
      BY <1>1, <2>1, <3>3
    <3> QED
      BY <2>1, <2>2, <3>1, <3>2, <3>3
  <2> QED
    BY <2>4
<1>8. rest \cap new = {}
  <2>1. ASSUME NEW u, u \in rest, u \in new  PROVE  FALSE
    <3>1. PICK y \in X : u \in {y} \X (1 .. f[y])
      BY <2>1 DEF D!Units
    <3> QED
      BY <2>1, <3>1
  <2> QED
    BY <2>1
<1> HIDE DEF rest, new
<1>9. Cardinality(rest \cup new) = Cardinality(rest) + Cardinality(new) - Cardinality(rest \cap new)
  BY <1>3, <1>6, FS_Union
<1>10. Cardinality({}) = 0
  BY FS_EmptySet
<1>11. D!Total(g) = D!Total(f) - f[x] + n
  <2> HIDE DEF g, old
  <2> QED
    <3>1. PICK c \in Nat, d \in Nat : c = D!Total(f) /\ d = f[x]
      BY <1>2, <1>4
    <3>2. Cardinality(rest) = c - d
      BY <1>4, <1>6, <3>1
    <3>3. Cardinality(rest \cup new) = c - d + n - 0
      BY <1>3, <1>8, <1>9, <1>10, <3>2
    <3> QED
      BY <1>4, <1>7, <3>1, <3>3
<1> QED
  BY <1>11

LEMMA KindsFinite == IsFiniteSet(D!Kinds) /\ D!MapSize \in Nat
<1>1. KindOrder \in Seq(D!Kinds) /\ PoolSize \in [D!Kinds -> Nat]
  BY SetsAssumption
<1>2. D!Kinds = {KindOrder[i] : i \in DOMAIN KindOrder} /\ DOMAIN KindOrder = 1 .. Len(KindOrder)
      /\ Len(KindOrder) \in Nat
  BY <1>1, LenProperties DEF D!Kinds, D!ToSet
<1>3. IsFiniteSet(1 .. Len(KindOrder))
  BY <1>2, FS_Interval
<1>4. KindOrder \in Surjection(1 .. Len(KindOrder), D!Kinds)
  BY <1>1, <1>2 DEF Surjection
<1>5. IsFiniteSet(D!Kinds)
  BY <1>3, <1>4, FS_Surjection
<1> QED
  BY <1>1, <1>5, TotalIsNat DEF D!MapSize

-----------------------------------------------------------------------------
(* Runs of all sets: of the kind k, and of the maps of a set that has some. *)
Runs == [Sets -> [D!Kinds -> RunRec]]
Column(rs, k) == [s \in Sets |-> rs[s][k]]
Flat(ms) == [p \in Sets \X D!Kinds |-> ms[p[1]][p[2]]]
LiveMaps == [s \in Sets |-> [k \in D!Kinds |-> IF runs[s][k].len = 0 THEN D!NoRun ELSE maps[s][k]]]

PoolsOK(ls, rs, ms) ==
  /\ ls \in [D!Kinds \cup {"map"} -> Seq(Nat)] /\ rs \in Runs /\ ms \in Runs
  /\ \A k \in D!Kinds : Apart(ls[k], PoolSize[k], Column(rs, k))
  /\ Apart(ls.map, D!MapSize, Flat(ms))
  /\ \A s \in Sets, k \in D!Kinds :
       /\ rs[s][k].len = ms[s][k].len
       /\ rs[s][k].len = 0 => rs[s][k] = D!NoRun /\ ms[s][k] = D!NoRun

(* Until a set is freed the lists hold what is not in use, in a row; the   *)
(* list of map elements holds as much as the others together.              *)
LensOK(ls, rs) ==
  /\ \A k \in D!Kinds :
       Neat(ls[k]) /\ Len(ls[k]) + D!Total([s \in Sets |-> rs[s][k].len]) = PoolSize[k]
  /\ Neat(ls.map) /\ Len(ls.map) = D!Total([k \in D!Kinds |-> Len(ls[k])])

(* The first n bindings b are entered in the maps ms, and no others are.   *)
EnteredOK(els, ms, rs, b, n) ==
  /\ \A i \in 1 .. n : /\ rs[b[i].kind].len # 0
                       /\ Entry(els, ms[b[i].kind], b[i].binding, rs[b[i].kind].first + D!offsetOf(b, i))
  /\ \A k \in D!Kinds : \A x \in span(ms[k]) :
       els[x].data # 0 => \E i \in 1 .. n : b[i].kind = k /\ els[x].key = b[i].binding

(* The first descriptor of the i-th binding.                               *)
FirstDescriptor(s, i) == runs[s][layout[s][i].kind].first + D!offsetOf(layout[s], i)

WrittenOK(s) ==
  /\ DOMAIN written[s] = DOMAIN layout[s]
  /\ \A i \in DOMAIN layout[s] :
       /\ written[s][i] \in [0 .. layout[s][i].count - 1 -> Values \cup {Undefined}]
       /\ \A j \in 0 .. layout[s][i].count - 1 :
            \/ written[s][i][j] = Undefined
            \/ descriptors[layout[s][i].kind][FirstDescriptor(s, i) + j] = written[s][i][j]

(* What the descriptors of the pool may hold.                              *)
Holding(k) == [1 .. PoolSize[k] -> Values \cup {Undefined}]
Contents ==
  {d \in [D!Kinds -> UNION {Holding(k) : k \in D!Kinds}] : \A k \in D!Kinds : d[k] \in Holding(k)}

ContentsOK ==
  /\ elements \in Els
  /\ descriptors \in Contents
  /\ layout \in [Sets -> Layouts \cup {<<>>}] /\ DOMAIN written = Sets
  /\ maps \in Runs /\ \A s \in Sets, k \in D!Kinds : maps[s][k] = D!NoRun \/ Table(maps[s][k])

SetOK(s) ==
  /\ \A k \in D!Kinds : runs[s][k].len = D!CountOf(layout[s], k)
  /\ EnteredOK(elements, LiveMaps[s], runs[s], layout[s], Len(layout[s]))
  /\ WrittenOK(s)

AllSetsOK ==
  /\ ContentsOK /\ PoolsOK(lists, runs, LiveMaps)
  /\ ~ freed => LensOK(lists, runs)
  /\ \A s \in Sets : SetOK(s)

SetsInv == (stopped = "" /\ ~ strayed => AllSetsOK) /\ StopsOnlyWhereKnown

(* The set s has another run of the kind k.                                *)
RunChanged(rs, new, s, k, r) ==
  /\ new \in Runs /\ new[s][k] = r
  /\ \A t \in Sets, h \in D!Kinds : <<t, h>> # <<s, k>> => new[t][h] = rs[t][h]
  /\ Column(new, k) = [Column(rs, k) EXCEPT ![s] = r]
  /\ \A h \in D!Kinds : h # k => Column(new, h) = Column(rs, h)
  /\ Flat(new) = [Flat(rs) EXCEPT ![<<s, k>>] = r]

LEMMA ColumnsChange ==
  ASSUME NEW rs \in Runs, NEW s \in Sets, NEW k \in D!Kinds, NEW r \in RunRec,
         NEW new, new = [rs EXCEPT ![s][k] = r]
  PROVE  RunChanged(rs, new, s, k, r)
<1>2. \A t \in Sets : rs[t] \in [D!Kinds -> RunRec]
  BY DEF Runs
<1>3. new = [rs EXCEPT ![s] = [rs[s] EXCEPT ![k] = r]]
  OBVIOUS
<1>4. [rs[s] EXCEPT ![k] = r] \in [D!Kinds -> RunRec]
  BY <1>2
<1>5. new \in Runs
  BY <1>3, <1>4 DEF Runs
<1>6. new[s] = [rs[s] EXCEPT ![k] = r] /\ \A t \in Sets : t # s => new[t] = rs[t]
  BY <1>3 DEF Runs
<1>7. new[s][k] = r
  BY <1>2, <1>6
<1>8. ASSUME NEW t \in Sets, NEW h \in D!Kinds, <<t, h>> # <<s, k>>  PROVE  new[t][h] = rs[t][h]
  BY <1>2, <1>6, <1>8
<1>9. Column(new, k) = [Column(rs, k) EXCEPT ![s] = r]
  <2>1. \A t \in Sets : new[t][k] = [Column(rs, k) EXCEPT ![s] = r][t]
    BY <1>7, <1>8 DEF Column
  <2> QED
    BY <2>1 DEF Column
<1>10. \A h \in D!Kinds : h # k => Column(new, h) = Column(rs, h)
  BY <1>8 DEF Column
<1>11. Flat(new) = [Flat(rs) EXCEPT ![<<s, k>>] = r]
  <2>1. PICK f : f = [Flat(rs) EXCEPT ![<<s, k>>] = r]
    OBVIOUS
  <2>2. DOMAIN f = Sets \X D!Kinds
    BY <2>1 DEF Flat
  <2>3. ASSUME NEW p \in Sets \X D!Kinds  PROVE  new[p[1]][p[2]] = f[p]
    <3>1. p = <<p[1], p[2]>> /\ p[1] \in Sets /\ p[2] \in D!Kinds
      OBVIOUS
    <3>2. CASE p = <<s, k>>
      <4>1. f[p] = r
        BY <2>1, <3>2 DEF Flat
      <4> QED
        BY <4>1, <3>2, <1>7
    <3>3. CASE p # <<s, k>>
      <4>1. f[p] = rs[p[1]][p[2]]
        BY <2>1, <3>3 DEF Flat
      <4> QED
        BY <4>1, <3>1, <3>3, <1>8
    <3> QED
      BY <3>2, <3>3
  <2>4. f = [p \in Sets \X D!Kinds |-> f[p]]
    BY <2>1, <2>2 DEF Flat
  <2>5. Flat(new) = [p \in Sets \X D!Kinds |-> f[p]]
    BY <2>3 DEF Flat
  <2> QED
    BY <2>1, <2>4, <2>5
<1> QED
  BY <1>5, <1>7, <1>8, <1>9, <1>10, <1>11 DEF RunChanged

LEMMA NamesOfLists == "map" \notin D!Kinds /\ D!MapSize \in Nat /\ \A k \in D!Kinds : PoolSize[k] \in Nat
BY SetsAssumption, KindsFinite

LEMMA BlocksAreNumbers ==
  ASSUME NEW N \in Nat, NEW list, ListOK(list, N)
  PROVE  list \in Seq(Nat)
<1>1. list \in Seq(1 .. N) /\ 1 .. N \subseteq Nat
  BY DEF ListOK
<1>2. list \in [1 .. Len(list) -> 1 .. N] /\ Len(list) \in Nat
  BY <1>1, LenProperties
<1>3. list \in [1 .. Len(list) -> Nat]
  BY <1>1, <1>2
<1> QED
  BY <1>2, <1>3, SeqDef

(* A set takes the run r of a kind, and m of map elements.                 *)
RunTaken(ls, rs, ms, s, k, n, new, r, m) ==
  /\ r \in RunRec /\ r.len = n /\ m \in RunRec /\ m.len = n
  /\ PoolsOK(new, [rs EXCEPT ![s][k] = r], [ms EXCEPT ![s][k] = m])
  /\ DOMAIN new = DOMAIN ls
  /\ new[k] = D!Taken(ls[k], n) /\ new.map = D!Taken(ls.map, n)
  /\ \A h \in D!Kinds : h # k => new[h] = ls[h]

LEMMA TakesRun ==
  ASSUME NEW ls, NEW rs, NEW ms, PoolsOK(ls, rs, ms), NEW s \in Sets, NEW k \in D!Kinds,
         rs[s][k].len = 0, NEW n \in Nat \ {0}, D!Pool!fits(ls[k], n), D!Pool!fits(ls.map, n),
         NEW r, r = D!Run(D!FirstOf(ls[k], n), n), NEW m, m = D!Run(D!FirstOf(ls.map, n), n),
         NEW new, new = [ls EXCEPT ![k] = D!Taken(@, n), !.map = D!Taken(@, n)]
  PROVE  RunTaken(ls, rs, ms, s, k, n, new, r, m)
<1>4. /\ ls \in [D!Kinds \cup {"map"} -> Seq(Nat)] /\ rs \in Runs /\ ms \in Runs
      /\ \A h \in D!Kinds : Apart(ls[h], PoolSize[h], Column(rs, h))
      /\ Apart(ls.map, D!MapSize, Flat(ms))
      /\ \A t \in Sets, h \in D!Kinds :
           /\ rs[t][h].len = ms[t][h].len
           /\ rs[t][h].len = 0 => rs[t][h] = D!NoRun /\ ms[t][h] = D!NoRun
  BY DEF PoolsOK
<1>5. DOMAIN new = DOMAIN ls /\ new[k] = D!Taken(ls[k], n) /\ new.map = D!Taken(ls.map, n)
      /\ \A h \in D!Kinds : h # k => new[h] = ls[h]
  <2>1. k # "map" /\ \A h \in D!Kinds : h # "map"
    BY NamesOfLists
  <2> QED
    BY <2>1, <1>4
<1>6. r \in RunRec /\ r.len = n
      /\ Apart(D!Taken(ls[k], n), PoolSize[k], [Column(rs, k) EXCEPT ![s] = r])
  <2>1. s \in DOMAIN Column(rs, k) /\ Column(rs, k)[s] = rs[s][k]
    BY DEF Column
  <2>2. span(Column(rs, k)[s]) = {}
    BY <2>1, <1>4, NoRunIsEmpty
  <2>3. PoolSize[k] \in Nat
    BY NamesOfLists
  <2>9. PICK N \in Nat : N = PoolSize[k]
    BY <2>3
  <2>4. PICK f : f = Column(rs, k)
    OBVIOUS
  <2> PICK list : list = ls[k]
    OBVIOUS
  <2>5. Apart(list, N, f) /\ D!Pool!fits(list, n)
    BY <2>4, <2>9, <1>4
  <2>6. s \in DOMAIN f /\ span(f[s]) = {}
    BY <2>1, <2>2, <2>4
  <2>7. /\ D!Run(D!FirstOf(list, n), n) \in RunRec /\ D!Run(D!FirstOf(list, n), n).len = n
        /\ Apart(D!Taken(list, n), N, [f EXCEPT ![s] = D!Run(D!FirstOf(list, n), n)])
    BY <2>5, <2>6, Takes, ZenonT(60)
  <2> QED
    BY <2>4, <2>9, <2>7
<1>7. m \in RunRec /\ m.len = n
      /\ Apart(D!Taken(ls.map, n), D!MapSize, [Flat(ms) EXCEPT ![<<s, k>>] = m])
  <2>1. <<s, k>> \in DOMAIN Flat(ms) /\ Flat(ms)[<<s, k>>] = ms[s][k]
    BY DEF Flat
  <2>2. span(Flat(ms)[<<s, k>>]) = {}
    BY <2>1, <1>4, NoRunIsEmpty
  <2>3. D!MapSize \in Nat
    BY NamesOfLists
  <2>9. PICK N \in Nat : N = D!MapSize
    BY <2>3
  <2>4. PICK f, x : f = Flat(ms) /\ x = <<s, k>>
    OBVIOUS
  <2> PICK list : list = ls.map
    OBVIOUS
  <2>5. Apart(list, N, f) /\ D!Pool!fits(list, n)
    BY <2>4, <2>9, <1>4
  <2>6. x \in DOMAIN f /\ span(f[x]) = {}
    BY <2>1, <2>2, <2>4
  <2>7. /\ D!Run(D!FirstOf(list, n), n) \in RunRec /\ D!Run(D!FirstOf(list, n), n).len = n
        /\ Apart(D!Taken(list, n), N, [f EXCEPT ![x] = D!Run(D!FirstOf(list, n), n)])
    BY <2>5, <2>6, Takes, ZenonT(60)
  <2> QED
    BY <2>4, <2>9, <2>7
<1>8. PICK rn : rn = [rs EXCEPT ![s][k] = r]
  OBVIOUS
<1>9. PICK mn : mn = [ms EXCEPT ![s][k] = m]
  OBVIOUS
<1>10. /\ rn \in Runs /\ rn[s][k] = r
       /\ \A t \in Sets, h \in D!Kinds : <<t, h>> # <<s, k>> => rn[t][h] = rs[t][h]
       /\ Column(rn, k) = [Column(rs, k) EXCEPT ![s] = r]
       /\ \A h \in D!Kinds : h # k => Column(rn, h) = Column(rs, h)
  <2>1. rs \in Runs /\ r \in RunRec
    BY <1>4, <1>6
  <2>2. RunChanged(rs, rn, s, k, r)
    BY <2>1, <1>8, ColumnsChange
  <2> QED
    BY <2>2 DEF RunChanged
<1>11. /\ mn \in Runs /\ mn[s][k] = m
       /\ \A t \in Sets, h \in D!Kinds : <<t, h>> # <<s, k>> => mn[t][h] = ms[t][h]
       /\ Flat(mn) = [Flat(ms) EXCEPT ![<<s, k>>] = m]
  <2>1. ms \in Runs /\ m \in RunRec
    BY <1>4, <1>7
  <2>2. RunChanged(ms, mn, s, k, m)
    BY <2>1, <1>9, ColumnsChange
  <2> QED
    BY <2>2 DEF RunChanged
<1>12. ASSUME NEW h \in D!Kinds  PROVE  Apart(new[h], PoolSize[h], Column(rn, h))
  BY <1>4, <1>5, <1>6, <1>10
<1>13. Apart(new.map, D!MapSize, Flat(mn))
  BY <1>5, <1>7, <1>11
<1>14. ASSUME NEW t \in Sets, NEW h \in D!Kinds
       PROVE  /\ rn[t][h].len = mn[t][h].len
              /\ rn[t][h].len = 0 => rn[t][h] = D!NoRun /\ mn[t][h] = D!NoRun
  <2>1. CASE <<t, h>> = <<s, k>>
    BY <2>1, <1>6, <1>7, <1>10, <1>11
  <2>2. CASE <<t, h>> # <<s, k>>
    <3>1. rn[t][h] = rs[t][h] /\ mn[t][h] = ms[t][h]
      BY <2>2, <1>10, <1>11
    <3> QED
      BY <3>1, <1>4
  <2> QED
    BY <2>1, <2>2
<1>15. new \in [D!Kinds \cup {"map"} -> Seq(Nat)]
  <2>1. ListOK(D!Taken(ls[k], n), PoolSize[k]) /\ ListOK(D!Taken(ls.map, n), D!MapSize)
    BY <1>6, <1>7 DEF Apart
  <2>2. PICK x, y : x = D!Taken(ls[k], n) /\ y = D!Taken(ls.map, n)
    OBVIOUS
  <2>3. new = [ls EXCEPT ![k] = x, !.map = y]
    BY <2>2, NamesOfLists
  <2>4. x \in Seq(Nat) /\ y \in Seq(Nat)
    BY <2>1, <2>2, BlocksAreNumbers, NamesOfLists
  <2> QED
    BY <2>3, <2>4, <1>4
<1>16. PoolsOK(new, rn, mn)
  BY <1>10, <1>11, <1>12, <1>13, <1>14, <1>15 DEF PoolsOK
<1> QED
  BY <1>5, <1>6, <1>7, <1>8, <1>9, <1>16 DEF RunTaken

(* A set gives back a run of a kind, and that of map elements.             *)
LEMMA ReturnsRun ==
  ASSUME NEW ls, NEW rs, NEW ms, PoolsOK(ls, rs, ms), NEW s \in Sets, NEW k \in D!Kinds,
         rs[s][k].len # 0
  PROVE  PoolsOK([ls EXCEPT ![k] = D!Returned(@, rs[s][k]), !.map = D!Returned(@, ms[s][k])],
                 [rs EXCEPT ![s][k] = D!NoRun], [ms EXCEPT ![s][k] = D!NoRun])
<1>1. PICK new : new = [ls EXCEPT ![k] = D!Returned(@, rs[s][k]), !.map = D!Returned(@, ms[s][k])]
  OBVIOUS
<1>2. /\ ls \in [D!Kinds \cup {"map"} -> Seq(Nat)] /\ rs \in Runs /\ ms \in Runs
      /\ \A h \in D!Kinds : Apart(ls[h], PoolSize[h], Column(rs, h))
      /\ Apart(ls.map, D!MapSize, Flat(ms))
      /\ \A t \in Sets, h \in D!Kinds :
           /\ rs[t][h].len = ms[t][h].len
           /\ rs[t][h].len = 0 => rs[t][h] = D!NoRun /\ ms[t][h] = D!NoRun
  BY DEF PoolsOK
<1>3. DOMAIN new = DOMAIN ls /\ new[k] = D!Returned(ls[k], rs[s][k])
      /\ new.map = D!Returned(ls.map, ms[s][k])
      /\ \A h \in D!Kinds : h # k => new[h] = ls[h]
  <2>1. k # "map" /\ \A h \in D!Kinds : h # "map"
    BY NamesOfLists
  <2> QED
    BY <2>1, <1>1, <1>2
<1>4. Apart(D!Returned(ls[k], rs[s][k]), PoolSize[k], [Column(rs, k) EXCEPT ![s] = D!NoRun])
  <2>1. PICK N, f, list : N \in Nat /\ N = PoolSize[k] /\ f = Column(rs, k) /\ list = ls[k]
    BY NamesOfLists
  <2>2. s \in DOMAIN f /\ f[s] = rs[s][k] /\ f[s].len # 0 /\ Apart(list, N, f)
    BY <2>1, <1>2 DEF Column
  <2>3. Apart(D!Returned(list, f[s]), N, [f EXCEPT ![s] = D!NoRun])
    BY <2>1, <2>2, Returns
  <2> QED
    BY <2>1, <2>2, <2>3
<1>5. Apart(D!Returned(ls.map, ms[s][k]), D!MapSize, [Flat(ms) EXCEPT ![<<s, k>>] = D!NoRun])
  <2>1. PICK N, f, list, x : N \in Nat /\ N = D!MapSize /\ f = Flat(ms) /\ list = ls.map /\ x = <<s, k>>
    BY NamesOfLists
  <2>2. x \in DOMAIN f /\ f[x] = ms[s][k] /\ f[x].len # 0 /\ Apart(list, N, f)
    BY <2>1, <1>2 DEF Flat
  <2>3. Apart(D!Returned(list, f[x]), N, [f EXCEPT ![x] = D!NoRun])
    BY <2>1, <2>2, Returns
  <2> QED
    BY <2>1, <2>2, <2>3
<1>6. PICK rn : rn = [rs EXCEPT ![s][k] = D!NoRun]
  OBVIOUS
<1>7. PICK mn : mn = [ms EXCEPT ![s][k] = D!NoRun]
  OBVIOUS
<1>8. RunChanged(rs, rn, s, k, D!NoRun) /\ RunChanged(ms, mn, s, k, D!NoRun)
  <2>1. rs \in Runs /\ ms \in Runs /\ D!NoRun \in RunRec
    BY <1>2, NoRunIsEmpty
  <2> QED
    BY <2>1, <1>6, <1>7, ColumnsChange
<1>9. ASSUME NEW h \in D!Kinds  PROVE  Apart(new[h], PoolSize[h], Column(rn, h))
  BY <1>2, <1>3, <1>4, <1>8, ZenonT(60) DEF RunChanged
<1>10. Apart(new.map, D!MapSize, Flat(mn))
  BY <1>3, <1>5, <1>8 DEF RunChanged
<1>11. ASSUME NEW t \in Sets, NEW h \in D!Kinds
       PROVE  /\ rn[t][h].len = mn[t][h].len
              /\ rn[t][h].len = 0 => rn[t][h] = D!NoRun /\ mn[t][h] = D!NoRun
  <2>1. CASE <<t, h>> = <<s, k>>
    BY <2>1, <1>8 DEF RunChanged
  <2>2. CASE <<t, h>> # <<s, k>>
    <3>1. rn[t][h] = rs[t][h] /\ mn[t][h] = ms[t][h]
      BY <2>2, <1>8 DEF RunChanged
    <3> QED
      BY <3>1, <1>2
  <2> QED
    BY <2>1, <2>2
<1>12. rn \in Runs /\ mn \in Runs
  BY <1>8 DEF RunChanged
<1>13. new \in [D!Kinds \cup {"map"} -> Seq(Nat)]
  <2>1. PICK x, y : x = D!Returned(ls[k], rs[s][k]) /\ y = D!Returned(ls.map, ms[s][k])
    OBVIOUS
  <2>2. ListOK(x, PoolSize[k]) /\ ListOK(y, D!MapSize)
    BY <2>1, <1>4, <1>5 DEF Apart
  <2>3. new = [ls EXCEPT ![k] = x, !.map = y]
    BY <2>1, <1>1, NamesOfLists
  <2>4. x \in Seq(Nat) /\ y \in Seq(Nat)
    BY <2>2, BlocksAreNumbers, NamesOfLists
  <2> QED
    BY <2>3, <2>4, <1>2
<1>14. PoolsOK(new, rn, mn)
  BY <1>9, <1>10, <1>11, <1>12, <1>13 DEF PoolsOK
<1> QED
  BY <1>1, <1>6, <1>7, <1>14

(* Lengths of lists, and what sets use of a kind.                          *)
Used(rs, k) == [s \in Sets |-> rs[s][k].len]
Left(ls) == [k \in D!Kinds |-> Len(ls[k])]

LEMMA Lengths ==
  ASSUME NEW ls, NEW rs, NEW ms, PoolsOK(ls, rs, ms)
  PROVE  /\ Left(ls) \in [D!Kinds -> Nat] /\ Len(ls.map) \in Nat
         /\ \A k \in D!Kinds : Used(rs, k) \in [Sets -> Nat]
<1>1. \A k \in D!Kinds : Len(ls[k]) \in Nat
  <2>1. TAKE k \in D!Kinds
  <2>2. ls[k] \in Seq(1 .. PoolSize[k])
    BY DEF PoolsOK, Apart, ListOK
  <2> QED
    BY <2>2, LenProperties
<1>2. Len(ls.map) \in Nat
  <2>1. ls.map \in Seq(1 .. D!MapSize)
    BY DEF PoolsOK, Apart, ListOK
  <2> QED
    BY <2>1, LenProperties
<1>3. \A s \in Sets, k \in D!Kinds : rs[s][k].len \in Nat
  BY DEF PoolsOK, Runs, RunRec
<1> QED
  BY <1>1, <1>2, <1>3 DEF Left, Used

(* As long as nothing was freed, what the pool has left is had.            *)
LEMMA TakesInRow ==
  ASSUME NEW ls, NEW rs, NEW ms, PoolsOK(ls, rs, ms), LensOK(ls, rs), NEW s \in Sets, NEW k \in D!Kinds,
         rs[s][k].len = 0, NEW n \in Nat \ {0},
         D!Total(Used(rs, k)) + n <= PoolSize[k]
  PROVE  /\ D!Pool!fits(ls[k], n) /\ D!Pool!fits(ls.map, n)
         /\ LensOK([ls EXCEPT ![k] = D!Taken(@, n), !.map = D!Taken(@, n)],
                   [rs EXCEPT ![s][k] = D!Run(D!FirstOf(ls[k], n), n)])
<1>1. /\ ls \in [D!Kinds \cup {"map"} -> Seq(Nat)] /\ rs \in Runs /\ ms \in Runs
      /\ \A h \in D!Kinds : ListOK(ls[h], PoolSize[h])
      /\ ListOK(ls.map, D!MapSize)
  BY DEF PoolsOK, Apart
<1>2. /\ \A h \in D!Kinds : Neat(ls[h]) /\ Len(ls[h]) + D!Total(Used(rs, h)) = PoolSize[h]
      /\ Neat(ls.map) /\ Len(ls.map) = D!Total(Left(ls))
  BY DEF LensOK, Used, Left
<1>3. Left(ls) \in [D!Kinds -> Nat] /\ Len(ls.map) \in Nat
      /\ \A h \in D!Kinds : Used(rs, h) \in [Sets -> Nat]
  BY Lengths
<1>4. IsFiniteSet(Sets) /\ IsFiniteSet(D!Kinds)
  BY SetsAssumption, KindsFinite
<1>5. PICK a \in Nat, c \in Nat, u \in Nat : a = Len(ls[k]) /\ c = Len(ls.map) /\ u = D!Total(Used(rs, k))
  <2>1. Len(ls[k]) = Left(ls)[k]
    BY DEF Left
  <2>2. Len(ls[k]) \in Nat
    BY <2>1, <1>3
  <2>3. D!Total(Used(rs, k)) \in Nat
    BY <1>3, <1>4, TotalIsNat
  <2> QED
    BY <2>2, <2>3, <1>3
<1>6. n <= a
  BY <1>2, <1>5, NamesOfLists
<1>7. a <= c
  <2>1. Left(ls)[k] <= D!Total(Left(ls))
    BY <1>3, <1>4, TotalOfOne
  <2>2. Left(ls)[k] = Len(ls[k])
    BY DEF Left
  <2> QED
    BY <2>1, <2>2, <1>2, <1>5
<1>8. D!Pool!fits(ls[k], n) /\ Neat(D!Taken(ls[k], n))
  <2>1. PICK N \in Nat : N = PoolSize[k]
    BY NamesOfLists
  <2>2. ListOK(ls[k], N) /\ Neat(ls[k]) /\ n <= Len(ls[k])
    BY <2>1, <1>1, <1>2, <1>5, <1>6
  <2> QED
    BY <2>2, NeatFits
<1>9. D!Pool!fits(ls.map, n) /\ Neat(D!Taken(ls.map, n))
  <2>1. PICK N \in Nat : N = D!MapSize
    BY NamesOfLists
  <2>2. ListOK(ls.map, N) /\ Neat(ls.map) /\ n <= Len(ls.map)
    BY <2>1, <1>1, <1>2, <1>5, <1>6, <1>7
  <2> QED
    BY <2>2, NeatFits
<1>10. Len(D!Taken(ls[k], n)) = a - n /\ Len(D!Taken(ls.map, n)) = c - n
  <2>1. ASSUME NEW N \in Nat, NEW list, ListOK(list, N), D!Pool!fits(list, n)
        PROVE  Len(D!Taken(list, n)) = Len(list) - n
    <3>1. list \in Seq(1 .. N)
      BY <2>1 DEF ListOK
    <3>2. PICK i : i = D!Pool!firstFit(list, n)
      OBVIOUS
    <3>3. i \in 1 .. Len(list) /\ D!Pool!fitsAt(list, i, n)
      BY <3>1, <3>2, <2>1, FirstFit
    <3>4. i + n - 1 <= Len(list)
      BY <3>3 DEF D!Pool!fitsAt
    <3>5. Len(D!Pool!without(list, i, n)) = Len(list) - n
      BY <3>1, <3>3, <3>4, CutEntries
    <3> QED
      BY <3>2, <3>5 DEF D!Taken
  <2>2. PoolSize[k] \in Nat /\ D!MapSize \in Nat
    BY NamesOfLists
  <2> QED
    BY <2>1, <2>2, <1>1, <1>5, <1>8, <1>9
<1>11. PICK r : r = D!Run(D!FirstOf(ls[k], n), n)
  OBVIOUS
<1>12. PICK new : new = [ls EXCEPT ![k] = D!Taken(@, n), !.map = D!Taken(@, n)]
  OBVIOUS
<1>13. PICK rn : rn = [rs EXCEPT ![s][k] = r]
  OBVIOUS
<1>14. /\ r \in RunRec /\ r.len = n
       /\ new[k] = D!Taken(ls[k], n) /\ new.map = D!Taken(ls.map, n)
       /\ \A h \in D!Kinds : h # k => new[h] = ls[h]
  <2>1. PICK m : m = D!Run(D!FirstOf(ls.map, n), n)
    OBVIOUS
  <2>2. RunTaken(ls, rs, ms, s, k, n, new, r, m)
    BY <2>1, <1>8, <1>9, <1>11, <1>12, TakesRun
  <2> QED
    BY <2>2 DEF RunTaken
<1>15. RunChanged(rs, rn, s, k, r)
  BY <1>1, <1>13, <1>14, ColumnsChange
<1>16. Used(rn, k) = [Used(rs, k) EXCEPT ![s] = n] /\ \A h \in D!Kinds : h # k => Used(rn, h) = Used(rs, h)
  <2>1. /\ rn[s][k].len = n /\ \A t \in Sets : t # s => rn[t][k] = rs[t][k]
        /\ \A t \in Sets, h \in D!Kinds : h # k => rn[t][h] = rs[t][h]
    BY <1>14, <1>15 DEF RunChanged
  <2> QED
    BY <2>1 DEF Used
<1>17. D!Total(Used(rn, k)) = u + n
  <2>1. PICK f \in [Sets -> Nat] : f = Used(rs, k)
    BY <1>3
  <2>2. f[s] = 0
    BY <2>1 DEF Used
  <2>3. D!Total([f EXCEPT ![s] = n]) = D!Total(f) - f[s] + n
    BY <1>4, TotalChanges, ZenonT(60)
  <2> QED
    BY <2>1, <2>2, <2>3, <1>5, <1>16
<1>18. Left(new) = [Left(ls) EXCEPT ![k] = a - n]
  BY <1>10, <1>14 DEF Left
<1>19. D!Total(Left(new)) = c - n
  <2>1. PICK f \in [D!Kinds -> Nat] : f = Left(ls)
    BY <1>3
  <2>2. f[k] = a /\ D!Total(f) = c
    BY <2>1, <1>2, <1>5 DEF Left
  <2>3. PICK e \in Nat : e = a - n
    BY <1>6
  <2>4. D!Total([f EXCEPT ![k] = e]) = D!Total(f) - f[k] + e
    BY <1>4, TotalChanges, ZenonT(60)
  <2> QED
    BY <2>1, <2>2, <2>3, <2>4, <1>18
<1>20. ASSUME NEW h \in D!Kinds
       PROVE  Neat(new[h]) /\ Len(new[h]) + D!Total(Used(rn, h)) = PoolSize[h]
  <2>1. CASE h = k
    <3>1. a + u = PoolSize[k]
      BY <1>2, <1>5
    <3>2. Len(new[k]) = a - n
      BY <1>10, <1>14
    <3> QED
      BY <2>1, <3>1, <3>2, <1>8, <1>14, <1>17
  <2>2. CASE h # k
    BY <2>2, <1>2, <1>14, <1>16
  <2> QED
    BY <2>1, <2>2
<1>21. LensOK(new, rn)
  BY <1>9, <1>10, <1>14, <1>19, <1>20 DEF LensOK, Used, Left
<1> QED
  BY <1>8, <1>9, <1>11, <1>12, <1>13, <1>21

-----------------------------------------------------------------------------
(* Allocating: runs are taken for one kind after the other.                *)
Allocating ==
  [lists : [D!Kinds \cup {"map"} -> Seq(Nat)], runs : [D!Kinds -> RunRec], maps : [D!Kinds -> RunRec],
   ok : BOOLEAN]
WithRuns(s, rs) == [runs EXCEPT ![s] = rs]
WithMaps(s, ms) == [LiveMaps EXCEPT ![s] = ms]

(* What sets have in use and the layout b needs is in the pool.            *)
Room(b) ==
  /\ LensOK(lists, runs)
  /\ \A k \in D!Kinds : D!Total(Used(runs, k)) + D!CountOf(b, k) <= PoolSize[k]

(* The first i kinds of the layout b of the set s are taken.               *)
TakenUpTo(s, b, i, a) ==
  /\ a.ok => /\ PoolsOK(a.lists, WithRuns(s, a.runs), WithMaps(s, a.maps))
             /\ \A j \in 1 .. Len(KindOrder) :
                  a.runs[KindOrder[j]].len = IF j <= i THEN D!CountOf(b, KindOrder[j]) ELSE 0
  /\ Room(b) => a.ok /\ LensOK(a.lists, WithRuns(s, a.runs))

LEMMA KindsInOrder ==
  /\ Len(KindOrder) \in Nat
  /\ \A i \in 1 .. Len(KindOrder) : KindOrder[i] \in D!Kinds
  /\ \A i, j \in 1 .. Len(KindOrder) : KindOrder[i] = KindOrder[j] => i = j
  /\ \A k \in D!Kinds : \E i \in 1 .. Len(KindOrder) : KindOrder[i] = k
<1>1. KindOrder \in Seq(D!Kinds) /\ \A i, j \in DOMAIN KindOrder : KindOrder[i] = KindOrder[j] => i = j
  BY SetsAssumption
<1>2. DOMAIN KindOrder = 1 .. Len(KindOrder) /\ Len(KindOrder) \in Nat
  BY <1>1, LenProperties
<1>3. D!Kinds = {KindOrder[i] : i \in DOMAIN KindOrder}
  BY DEF D!Kinds, D!ToSet
<1> QED
  BY <1>1, <1>2, <1>3

LEMMA TakingIsTyped ==
  ASSUME NEW a \in Allocating, NEW k \in D!Kinds, NEW n \in Nat
  PROVE  D!taking(a, k, n) \in Allocating
<1>1. ASSUME NEW list \in Seq(Nat), D!Pool!fits(list, n), n # 0
      PROVE  D!Taken(list, n) \in Seq(Nat) /\ D!FirstOf(list, n) \in Nat
  <2>1. PICK i : i = D!Pool!firstFit(list, n)
    OBVIOUS
  <2>2. i \in 1 .. Len(list) /\ D!Pool!fitsAt(list, i, n)
    BY <1>1, <2>1, FirstFit
  <2>3. i + n - 1 <= Len(list) /\ n \in Nat \ {0}
    BY <1>1, <2>2 DEF D!Pool!fitsAt
  <2>4. D!Pool!without(list, i, n) \in Seq(Nat)
    BY <1>1, <2>2, <2>3, CutEntries
  <2>5. list[i] \in Nat
    BY <2>2
  <2> QED
    BY <2>1, <2>4, <2>5 DEF D!Taken, D!FirstOf
<1>2. CASE n = 0 \/ ~ a.ok
  BY <1>2 DEF D!taking
<1>3. CASE ~ (n = 0 \/ ~ a.ok) /\ ~ (D!Pool!fits(a.lists[k], n) /\ D!Pool!fits(a.lists.map, n))
  <2>1. D!taking(a, k, n) = [a EXCEPT !.ok = FALSE]
    BY <1>3 DEF D!taking
  <2> QED
    BY <2>1 DEF Allocating
<1>4. CASE ~ (n = 0 \/ ~ a.ok) /\ D!Pool!fits(a.lists[k], n) /\ D!Pool!fits(a.lists.map, n)
  <2>1. /\ a.lists \in [D!Kinds \cup {"map"} -> Seq(Nat)]
        /\ a.runs \in [D!Kinds -> RunRec] /\ a.maps \in [D!Kinds -> RunRec]
    BY DEF Allocating
  <2>2. a.lists[k] \in Seq(Nat) /\ a.lists.map \in Seq(Nat)
    BY <2>1
  <2>3. PICK x, y, f, g : /\ x = D!Taken(a.lists[k], n) /\ y = D!Taken(a.lists.map, n)
                          /\ f = D!Run(D!FirstOf(a.lists[k], n), n)
                          /\ g = D!Run(D!FirstOf(a.lists.map, n), n)
    OBVIOUS
  <2>4. x \in Seq(Nat) /\ y \in Seq(Nat) /\ f \in RunRec /\ g \in RunRec
    BY <1>1, <1>4, <2>2, <2>3 DEF D!Run, RunRec
  <2>5. D!taking(a, k, n) = [lists |-> [a.lists EXCEPT ![k] = x, !.map = y],
                             runs |-> [a.runs EXCEPT ![k] = f], maps |-> [a.maps EXCEPT ![k] = g],
                             ok |-> TRUE]
    <3>1. k # "map"
      BY NamesOfLists
    <3>2. [a.lists EXCEPT ![k] = D!Taken(@, n), !.map = D!Taken(@, n)]
            = [a.lists EXCEPT ![k] = x, !.map = y]
      BY <2>1, <2>3, <3>1
    <3> QED
      BY <1>4, <2>3, <3>2 DEF D!taking
  <2>6. [a.lists EXCEPT ![k] = x, !.map = y] \in [D!Kinds \cup {"map"} -> Seq(Nat)]
    BY <2>1, <2>4
  <2>7. [a.runs EXCEPT ![k] = f] \in [D!Kinds -> RunRec] /\ [a.maps EXCEPT ![k] = g] \in [D!Kinds -> RunRec]
    BY <2>1, <2>4
  <2>8. PICK l \in [D!Kinds \cup {"map"} -> Seq(Nat)] : l = [a.lists EXCEPT ![k] = x, !.map = y]
    BY <2>6
  <2>9. PICK u \in [D!Kinds -> RunRec] : u = [a.runs EXCEPT ![k] = f]
    BY <2>7
  <2>10. PICK v \in [D!Kinds -> RunRec] : v = [a.maps EXCEPT ![k] = g]
    BY <2>7
  <2>11. D!taking(a, k, n) = [lists |-> l, runs |-> u, maps |-> v, ok |-> TRUE]
    BY <2>5, <2>8, <2>9, <2>10
  <2>12. [lists |-> l, runs |-> u, maps |-> v, ok |-> TRUE] \in Allocating
    BY DEF Allocating
  <2> QED
    BY <2>11, <2>12
<1> QED
  BY <1>2, <1>3, <1>4

(* One kind more.                                                          *)
LEMMA TakingStep ==
  ASSUME PoolsOK(lists, runs, LiveMaps), NEW s \in Sets, NEW b \in Bindings,
         \A k \in D!Kinds : runs[s][k].len = 0,
         NEW a \in Allocating, NEW i \in 1 .. Len(KindOrder), TakenUpTo(s, b, i - 1, a)
  PROVE  TakenUpTo(s, b, i, D!taking(a, KindOrder[i], D!CountOf(b, KindOrder[i])))
<1>1. PICK k \in D!Kinds : k = KindOrder[i]
  BY KindsInOrder
<1>2. PICK n \in Nat : n = D!CountOf(b, k)
  BY CountSteps
<1>3. PICK rs, ms : rs = WithRuns(s, a.runs) /\ ms = WithMaps(s, a.maps)
  OBVIOUS
<1>4. PICK c : c = D!taking(a, k, n)
  OBVIOUS
<1>5. /\ runs \in Runs /\ LiveMaps \in Runs
      /\ a.runs \in [D!Kinds -> RunRec] /\ a.maps \in [D!Kinds -> RunRec]
  BY DEF PoolsOK, Allocating
<1>6. /\ rs \in Runs /\ ms \in Runs /\ rs[s] = a.runs /\ ms[s] = a.maps
      /\ \A t \in Sets : t # s => rs[t] = runs[t]
  BY <1>3, <1>5 DEF WithRuns, WithMaps, Runs
<1>7. \A j \in 1 .. Len(KindOrder) : j <= i <=> (j <= i - 1 \/ j = i)
  BY KindsInOrder
<1>8. \A j \in 1 .. Len(KindOrder) : j # i => KindOrder[j] # k
  BY <1>1, KindsInOrder
<1>9. a.ok => /\ PoolsOK(a.lists, rs, ms) /\ a.runs[k].len = 0 /\ rs[s][k].len = 0
              /\ \A j \in 1 .. Len(KindOrder) :
                   a.runs[KindOrder[j]].len = IF j <= i - 1 THEN D!CountOf(b, KindOrder[j]) ELSE 0
  BY <1>1, <1>3, <1>6 DEF TakenUpTo
<1>10. Room(b) => a.ok /\ LensOK(a.lists, rs)
  BY <1>3 DEF TakenUpTo
<1>11. Room(b) => D!Total(Used(rs, k)) + n <= PoolSize[k]
  <2>1. a.ok => Used(rs, k) = Used(runs, k)
    BY <1>6, <1>9 DEF Used
  <2> QED
    BY <2>1, <1>2, <1>10 DEF Room
<1>12. CASE n = 0
  <2>1. c = a
    BY <1>4, <1>12 DEF D!taking
  <2>2. a.ok => \A j \in 1 .. Len(KindOrder) :
                  a.runs[KindOrder[j]].len = IF j <= i THEN D!CountOf(b, KindOrder[j]) ELSE 0
    BY <1>1, <1>2, <1>7, <1>9, <1>12
  <2>3. TakenUpTo(s, b, i, c)
    BY <2>1, <2>2, <1>3, <1>9, <1>10 DEF TakenUpTo
  <2> QED
    BY <2>3, <1>1, <1>2, <1>4
<1>13. CASE n # 0 /\ ~ a.ok
  <2>1. c = a
    BY <1>4, <1>13 DEF D!taking
  <2>2. TakenUpTo(s, b, i, c)
    BY <2>1, <1>10, <1>13 DEF TakenUpTo
  <2> QED
    BY <2>2, <1>1, <1>2, <1>4
<1>14. CASE n # 0 /\ a.ok /\ ~ (D!Pool!fits(a.lists[k], n) /\ D!Pool!fits(a.lists.map, n))
  <2>1. c = [a EXCEPT !.ok = FALSE]
    BY <1>4, <1>14 DEF D!taking
  <2>2. ~ c.ok
    BY <2>1 DEF Allocating
  <2>3. ~ Room(b)
    <3>1. SUFFICES ASSUME Room(b)  PROVE  FALSE
      OBVIOUS
    <3>2. n \in Nat \ {0}
      BY <1>14
    <3> QED
      BY <3>1, <3>2, <1>9, <1>10, <1>11, <1>14, TakesInRow
  <2>4. TakenUpTo(s, b, i, c)
    BY <2>2, <2>3 DEF TakenUpTo
  <2> QED
    BY <2>4, <1>1, <1>2, <1>4
<1>15. CASE n # 0 /\ a.ok /\ D!Pool!fits(a.lists[k], n) /\ D!Pool!fits(a.lists.map, n)
  <2>1. PICK r : r = D!Run(D!FirstOf(a.lists[k], n), n)
    OBVIOUS
  <2>2. PICK m : m = D!Run(D!FirstOf(a.lists.map, n), n)
    OBVIOUS
  <2>3. PICK l : l = [a.lists EXCEPT ![k] = D!Taken(@, n), !.map = D!Taken(@, n)]
    OBVIOUS
  <2>4. PICK u : u = [a.runs EXCEPT ![k] = r]
    OBVIOUS
  <2>5. PICK v : v = [a.maps EXCEPT ![k] = m]
    OBVIOUS
  <2>6. c = [lists |-> l, runs |-> u, maps |-> v, ok |-> TRUE]
    BY <1>4, <1>15, <2>1, <2>2, <2>3, <2>4, <2>5 DEF D!taking
  <2>7. c.lists = l /\ c.runs = u /\ c.maps = v /\ c.ok
    BY <2>6
  <2>8. n \in Nat \ {0}
    BY <1>15
  <2>9. RunTaken(a.lists, rs, ms, s, k, n, l, r, m)
    BY <2>1, <2>2, <2>3, <2>8, <1>9, <1>15, TakesRun
  <2>10. r.len = n /\ PoolsOK(l, [rs EXCEPT ![s][k] = r], [ms EXCEPT ![s][k] = m])
    BY <2>9 DEF RunTaken
  <2>11. [rs EXCEPT ![s][k] = r] = WithRuns(s, u) /\ [ms EXCEPT ![s][k] = m] = WithMaps(s, v)
    <3>1. [rs EXCEPT ![s][k] = r] = [rs EXCEPT ![s] = u] /\ [ms EXCEPT ![s][k] = m] = [ms EXCEPT ![s] = v]
      BY <1>6, <2>4, <2>5
    <3>2. [rs EXCEPT ![s] = u] = [runs EXCEPT ![s] = u]
      BY <1>3, <1>5 DEF WithRuns, Runs
    <3>3. [ms EXCEPT ![s] = v] = [LiveMaps EXCEPT ![s] = v]
      BY <1>3, <1>5 DEF WithMaps, Runs
    <3> QED
      BY <3>1, <3>2, <3>3 DEF WithRuns, WithMaps
  <2>12. PoolsOK(c.lists, WithRuns(s, c.runs), WithMaps(s, c.maps))
    BY <2>7, <2>10, <2>11
  <2>13. u[k].len = n /\ \A j \in 1 .. Len(KindOrder) : j # i => u[KindOrder[j]] = a.runs[KindOrder[j]]
    BY <1>5, <1>8, <2>4, <2>10, KindsInOrder
  <2>14. \A j \in 1 .. Len(KindOrder) :
           u[KindOrder[j]].len = IF j <= i THEN D!CountOf(b, KindOrder[j]) ELSE 0
    <3>1. TAKE j \in 1 .. Len(KindOrder)
    <3>2. CASE j = i
      BY <3>2, <1>1, <1>2, <2>13
    <3>3. CASE j # i
      BY <3>3, <1>7, <1>9, <1>15, <2>13
    <3> QED
      BY <3>2, <3>3
  <2>15. Room(b) => LensOK(l, WithRuns(s, u))
    <3>1. SUFFICES ASSUME Room(b)  PROVE  LensOK(l, WithRuns(s, u))
      OBVIOUS
    <3>2. LensOK(l, [rs EXCEPT ![s][k] = r])
      BY <3>1, <1>9, <1>10, <1>11, <1>15, <2>1, <2>3, <2>8, TakesInRow
    <3> QED
      BY <3>2, <2>11
  <2>16. TakenUpTo(s, b, i, c)
    BY <2>7, <2>12, <2>14, <2>15 DEF TakenUpTo
  <2> QED
    BY <2>16, <1>1, <1>2, <1>4
<1> QED
  BY <1>12, <1>13, <1>14, <1>15

(* What is allocated for a set that has nothing.                           *)
LEMMA AllocatedIs ==
  ASSUME PoolsOK(lists, runs, LiveMaps), NEW s \in Sets, NEW b \in Bindings,
         \A k \in D!Kinds : runs[s][k].len = 0
  PROVE  D!Allocated(b) \in Allocating /\ TakenUpTo(s, b, Len(KindOrder), D!Allocated(b))
<1>1. PICK m \in Nat : m = Len(KindOrder)
  BY KindsInOrder
<1>2. PICK a : a = [lists |-> lists, runs |-> [k \in D!Kinds |-> D!NoRun],
                    maps |-> [k \in D!Kinds |-> D!NoRun], ok |-> TRUE]
  OBVIOUS
<1>3. /\ lists \in [D!Kinds \cup {"map"} -> Seq(Nat)] /\ runs \in Runs /\ LiveMaps \in Runs
      /\ \A k \in D!Kinds : runs[s][k] = D!NoRun /\ LiveMaps[s][k] = D!NoRun
  BY DEF PoolsOK
<1> DEFINE next(c, n) == D!taking(c, KindOrder[n], D!CountOf(b, KindOrder[n]))
<1>4. a \in Allocating
  <2>1. [k \in D!Kinds |-> D!NoRun] \in [D!Kinds -> RunRec]
    BY NoRunIsEmpty
  <2> QED
    BY <1>2, <1>3, <2>1 DEF Allocating
<1>5. TakenUpTo(s, b, 0, a)
  <2>1. WithRuns(s, a.runs) = runs
    <3>1. runs[s] \in [D!Kinds -> RunRec]
      BY <1>3 DEF Runs
    <3>2. runs[s] = a.runs
      BY <3>1, <1>2, <1>3
    <3> QED
      BY <3>2, <1>3 DEF WithRuns, Runs
  <2>2. WithMaps(s, a.maps) = LiveMaps
    <3>1. LiveMaps[s] \in [D!Kinds -> RunRec]
      BY <1>3 DEF Runs
    <3>2. LiveMaps[s] = a.maps
      BY <3>1, <1>2, <1>3
    <3> QED
      BY <3>2, <1>3 DEF WithMaps, Runs
  <2>3. a.lists = lists /\ a.ok /\ \A k \in D!Kinds : a.runs[k].len = 0
    BY <1>2, NoRunIsEmpty
  <2>4. \A j \in 1 .. Len(KindOrder) : KindOrder[j] \in D!Kinds /\ ~ (j <= 0)
    BY KindsInOrder
  <2> QED
    BY <2>1, <2>2, <2>3, <2>4 DEF TakenUpTo, Room
<1> DEFINE G == [p \in Allocating \X Nat |-> IF p[2] \in 1 .. m THEN next(p[1], p[2]) ELSE p[1]]
<1>6. \A c \in Allocating, n \in 1 .. m : next(c, n) \in Allocating
  <2>1. TAKE c \in Allocating, n \in 1 .. m
  <2>2. KindOrder[n] \in D!Kinds
    BY <1>1, KindsInOrder
  <2>3. D!CountOf(b, KindOrder[n]) \in Nat
    BY CountSteps
  <2> QED
    BY <2>2, <2>3, TakingIsTyped
<1>7. G \in [Allocating \X Nat -> Allocating] /\ \A c \in Allocating, n \in 1 .. m : G[<<c, n>>] = next(c, n)
  <2>1. \A p \in Allocating \X Nat : (IF p[2] \in 1 .. m THEN next(p[1], p[2]) ELSE p[1]) \in Allocating
    BY <1>6
  <2>2. \A c \in Allocating, n \in 1 .. m : <<c, n>> \in Allocating \X Nat
    OBVIOUS
  <2> HIDE DEF next
  <2> QED
    BY <2>1, <2>2
<1>8. PICK f : Stepwise(f, Allocating, a, G, m)
  <2> HIDE DEF G
  <2> QED
    BY <1>4, <1>7, StepByStep
<1> HIDE DEF G
<1>9. f \in [0 .. m -> Allocating] /\ f[0] = a
  BY <1>8 DEF Stepwise
<1>10. \A n \in 1 .. m : f[n] = next(f[n - 1], n)
  <2>1. TAKE n \in 1 .. m
  <2>2. f[n - 1] \in Allocating
    BY <1>9
  <2>3. G[<<f[n - 1], n>>] = next(f[n - 1], n)
    BY <2>2, <1>7
  <2> QED
    BY <2>3, <1>8 DEF Stepwise
<1> DEFINE Fits(g) == g = [n \in 0 .. m |-> IF n = 0 THEN a ELSE next(g[n - 1], n)]
<1>11. Fits(f)
  <2> HIDE DEF next
  <2>1. \A n \in 0 .. m : f[n] = IF n = 0 THEN a ELSE next(f[n - 1], n)
    BY <1>9, <1>10
  <2> QED
    BY <2>1, <1>9
<1>12. PICK g : g = CHOOSE h : Fits(h)
  OBVIOUS
<1>13. Fits(g)
  BY <1>11, <1>12
<1>14. D!Allocated(b) = g[m]
  BY <1>1, <1>2, <1>12 DEF D!Allocated, D!Each
<1>15. g[0] = a /\ \A n \in 1 .. m : g[n] = next(g[n - 1], n)
  <2> HIDE DEF next
  <2>1. \A n \in 0 .. m : g[n] = IF n = 0 THEN a ELSE next(g[n - 1], n)
    BY <1>13
  <2> QED
    BY <2>1
<1> HIDE DEF Fits
<1> DEFINE R == {p \in Nat \X Allocating : TakenUpTo(s, b, p[1], p[2])}
<1>16. <<0, g[0]>> \in R
  BY <1>4, <1>5, <1>15
<1>17. ASSUME NEW n \in 1 .. m, <<n - 1, g[n - 1]>> \in R  PROVE  <<n, g[n]>> \in R
  <2>1. PICK c \in Allocating : c = g[n - 1] /\ TakenUpTo(s, b, n - 1, c)
    BY <1>17
  <2>2. next(c, n) \in Allocating
    BY <1>6
  <2>3. TakenUpTo(s, b, n, next(c, n))
    <3>1. n \in 1 .. Len(KindOrder)
      BY <1>1
    <3> QED
      BY <3>1, <2>1, TakingStep
  <2> HIDE DEF next
  <2> QED
    BY <2>1, <2>2, <2>3, <1>15
<1>18. <<m, g[m]>> \in R
  <2> HIDE DEF R
  <2> QED
    BY <1>16, <1>17, StepsReach
<1> QED
  BY <1>1, <1>14, <1>18

-----------------------------------------------------------------------------
(* Freeing: runs are given back for one kind after the other.              *)
Unheld(s, i, rs) == [k \in D!Kinds |-> IF \E j \in 1 .. i : KindOrder[j] = k THEN D!NoRun ELSE rs[s][k]]
FreedUpTo(s, i, l) == PoolsOK(l, WithRuns(s, Unheld(s, i, runs)), WithMaps(s, Unheld(s, i, LiveMaps)))
FreeLists == [D!Kinds \cup {"map"} -> Seq(Nat)]

LEMMA ReturnedIsTyped ==
  ASSUME NEW list \in Seq(Nat), NEW r \in RunRec
  PROVE  D!Returned(list, r) \in Seq(Nat)
<1>1. PICK s : s = D!Pool!runSeq(r)
  OBVIOUS
<1>2. s \in [1 .. r.len -> Nat] /\ r.len \in Nat
  <2>1. r.first \in Nat /\ r.len \in Nat
    BY DEF RunRec
  <2>2. \A i \in 1 .. r.len : r.first + i - 1 \in Nat
    BY <2>1
  <2> QED
    BY <1>1, <2>1, <2>2 DEF D!Pool!runSeq
<1>3. s \in Seq(Nat)
  BY <1>2, SeqDef, SMTT(40)
<1>4. PICK i \in 0 .. Len(list) : i = D!Pool!inFrontOf(list, r.first)
  BY PlaceOfRun
<1>5. put(list, i, s) \in Seq(Nat)
  BY <1>3, PutEntries
<1>6. D!Returned(list, r) = put(list, i, s)
  BY <1>1, <1>4 DEF put, D!Returned, D!Pool!withRun
<1> QED
  BY <1>5, <1>6

LEMMA ReturningIsTyped ==
  ASSUME runs \in Runs, maps \in Runs, NEW s \in Sets, NEW k \in D!Kinds, NEW l \in FreeLists
  PROVE  D!returning(l, s, k) \in FreeLists
<1>1. runs[s][k] \in RunRec /\ maps[s][k] \in RunRec
  BY DEF Runs
<1>2. l[k] \in Seq(Nat) /\ l.map \in Seq(Nat)
  BY DEF FreeLists
<1>3. PICK x, y : x = D!Returned(l[k], runs[s][k]) /\ y = D!Returned(l.map, maps[s][k])
  OBVIOUS
<1>4. x \in Seq(Nat) /\ y \in Seq(Nat)
  BY <1>1, <1>2, <1>3, ReturnedIsTyped
<1>5. CASE runs[s][k].len = 0
  BY <1>5 DEF D!returning
<1>6. CASE runs[s][k].len # 0
  <2>1. k # "map"
    BY NamesOfLists
  <2>2. D!returning(l, s, k) = [l EXCEPT ![k] = x, !.map = y]
    BY <1>3, <1>6, <2>1 DEF D!returning, FreeLists
  <2> QED
    BY <1>4, <2>2 DEF FreeLists
<1> QED
  BY <1>5, <1>6

(* One kind more.                                                          *)
LEMMA ReturningStep ==
  ASSUME PoolsOK(lists, runs, LiveMaps), NEW s \in Sets,
         NEW l, NEW i \in 1 .. Len(KindOrder), FreedUpTo(s, i - 1, l)
  PROVE  FreedUpTo(s, i, D!returning(l, s, KindOrder[i]))
<1>1. PICK k \in D!Kinds : k = KindOrder[i]
  BY KindsInOrder
<1>2. PICK rs, ms : rs = WithRuns(s, Unheld(s, i - 1, runs)) /\ ms = WithMaps(s, Unheld(s, i - 1, LiveMaps))
  OBVIOUS
<1>3. PoolsOK(l, rs, ms)
  BY <1>2 DEF FreedUpTo
<1>4. /\ runs \in Runs /\ LiveMaps \in Runs
      /\ \A h \in D!Kinds : runs[s][h].len = 0 => runs[s][h] = D!NoRun /\ LiveMaps[s][h] = D!NoRun
  BY DEF PoolsOK
<1>5. \A h \in D!Kinds : (\E j \in 1 .. i : KindOrder[j] = h) <=> (h = k \/ \E j \in 1 .. i - 1 : KindOrder[j] = h)
  <2>1. \A j \in 1 .. i : j = i \/ j \in 1 .. i - 1
    BY KindsInOrder
  <2>2. i \in 1 .. i /\ \A j \in 1 .. i - 1 : j \in 1 .. i
    BY KindsInOrder
  <2> QED
    BY <1>1, <2>1, <2>2
<1>6. ~ \E j \in 1 .. i - 1 : KindOrder[j] = k
  <2>1. \A j \in 1 .. i - 1 : j \in 1 .. Len(KindOrder) /\ j # i
    BY KindsInOrder
  <2> QED
    BY <1>1, <2>1, KindsInOrder
<1>7. rs[s] = Unheld(s, i - 1, runs) /\ ms[s] = Unheld(s, i - 1, LiveMaps)
  BY <1>2, <1>4 DEF WithRuns, WithMaps, Runs
<1>8. rs[s][k] = runs[s][k] /\ ms[s][k] = LiveMaps[s][k]
  BY <1>6, <1>7 DEF Unheld
<1>9. /\ [Unheld(s, i - 1, runs) EXCEPT ![k] = D!NoRun] = Unheld(s, i, runs)
      /\ [Unheld(s, i - 1, LiveMaps) EXCEPT ![k] = D!NoRun] = Unheld(s, i, LiveMaps)
  <2>1. ASSUME NEW f
        PROVE  [Unheld(s, i - 1, f) EXCEPT ![k] = D!NoRun] = Unheld(s, i, f)
    <3>1. PICK u : u = Unheld(s, i - 1, f)
      OBVIOUS
    <3>2. u = [h \in D!Kinds |-> IF \E j \in 1 .. i - 1 : KindOrder[j] = h THEN D!NoRun ELSE f[s][h]]
      BY <3>1 DEF Unheld
    <3>3. [u EXCEPT ![k] = D!NoRun] = [h \in D!Kinds |-> IF h = k THEN D!NoRun ELSE u[h]]
      BY <3>2
    <3>4. \A h \in D!Kinds : (IF h = k THEN D!NoRun ELSE u[h])
                             = IF \E j \in 1 .. i : KindOrder[j] = h THEN D!NoRun ELSE f[s][h]
      BY <1>5, <3>2
    <3> QED
      BY <3>1, <3>3, <3>4 DEF Unheld
  <2> QED
    BY <2>1
<1>10. /\ [rs EXCEPT ![s][k] = D!NoRun] = WithRuns(s, Unheld(s, i, runs))
       /\ [ms EXCEPT ![s][k] = D!NoRun] = WithMaps(s, Unheld(s, i, LiveMaps))
  <2>1. PICK u, v : u = Unheld(s, i, runs) /\ v = Unheld(s, i, LiveMaps)
    OBVIOUS
  <2>2. [rs EXCEPT ![s][k] = D!NoRun] = [rs EXCEPT ![s] = u] /\ [ms EXCEPT ![s][k] = D!NoRun] = [ms EXCEPT ![s] = v]
    BY <1>7, <1>9, <2>1
  <2>3. [rs EXCEPT ![s] = u] = [runs EXCEPT ![s] = u]
    BY <1>2, <1>4 DEF WithRuns, Runs
  <2>4. [ms EXCEPT ![s] = v] = [LiveMaps EXCEPT ![s] = v]
    BY <1>2, <1>4 DEF WithMaps, Runs
  <2> QED
    BY <2>1, <2>2, <2>3, <2>4 DEF WithRuns, WithMaps
<1>11. CASE runs[s][k].len = 0
  <2>1. D!returning(l, s, k) = l
    BY <1>11 DEF D!returning
  <2>2. rs[s][k] = D!NoRun /\ ms[s][k] = D!NoRun
    BY <1>4, <1>8, <1>11
  <2>3. rs \in Runs /\ ms \in Runs
    BY <1>3 DEF PoolsOK
  <2>4. ASSUME NEW f \in Runs, f[s][k] = D!NoRun  PROVE  [f EXCEPT ![s][k] = D!NoRun] = f
    <3>1. f[s] \in [D!Kinds -> RunRec]
      BY DEF Runs
    <3>2. [f[s] EXCEPT ![k] = D!NoRun] = f[s]
      BY <3>1, <2>4
    <3>3. [f EXCEPT ![s][k] = D!NoRun] = [f EXCEPT ![s] = f[s]]
      BY <3>2
    <3>4. [f EXCEPT ![s] = f[s]] = f
      BY DEF Runs
    <3> QED
      BY <3>3, <3>4
  <2>5. rs = WithRuns(s, Unheld(s, i, runs)) /\ ms = WithMaps(s, Unheld(s, i, LiveMaps))
    BY <1>10, <2>2, <2>3, <2>4
  <2>6. FreedUpTo(s, i, l)
    BY <1>3, <2>5 DEF FreedUpTo
  <2> QED
    BY <2>1, <2>6, <1>1
<1>12. CASE runs[s][k].len # 0
  <2>1. maps[s][k] = LiveMaps[s][k]
    BY <1>12 DEF LiveMaps
  <2>2. D!returning(l, s, k) = [l EXCEPT ![k] = D!Returned(@, rs[s][k]), !.map = D!Returned(@, ms[s][k])]
    BY <1>8, <1>12, <2>1 DEF D!returning
  <2>3. PICK new : new = D!returning(l, s, k)
    OBVIOUS
  <2>4. rs[s][k].len # 0
    BY <1>8, <1>12
  <2>5. PoolsOK([l EXCEPT ![k] = D!Returned(@, rs[s][k]), !.map = D!Returned(@, ms[s][k])],
                [rs EXCEPT ![s][k] = D!NoRun], [ms EXCEPT ![s][k] = D!NoRun])
    BY <1>3, <2>4, ReturnsRun
  <2>6. PoolsOK(new, [rs EXCEPT ![s][k] = D!NoRun], [ms EXCEPT ![s][k] = D!NoRun])
    BY <2>2, <2>3, <2>5
  <2>7. FreedUpTo(s, i, new)
    BY <2>6, <1>10 DEF FreedUpTo
  <2> QED
    BY <2>3, <2>7, <1>1
<1> QED
  BY <1>11, <1>12

LEMMA ReturnedIs ==
  ASSUME PoolsOK(lists, runs, LiveMaps), maps \in Runs, NEW s \in Sets
  PROVE  PoolsOK(D!AllReturned(s), WithRuns(s, [k \in D!Kinds |-> D!NoRun]), WithMaps(s, [k \in D!Kinds |-> D!NoRun]))
<1>1. PICK m \in Nat : m = Len(KindOrder)
  BY KindsInOrder
<1>2. lists \in FreeLists /\ runs \in Runs /\ LiveMaps \in Runs
  BY DEF PoolsOK, FreeLists
<1> DEFINE next(l, n) == D!returning(l, s, KindOrder[n])
<1>3. FreedUpTo(s, 0, lists)
  <2>1. \A f \in Runs : Unheld(s, 0, f) = f[s]
    <3>1. TAKE f \in Runs
    <3>2. f[s] \in [D!Kinds -> RunRec]
      BY DEF Runs
    <3>3. \A k \in D!Kinds : (IF \E j \in 1 .. 0 : KindOrder[j] = k THEN D!NoRun ELSE f[s][k]) = f[s][k]
      OBVIOUS
    <3> QED
      BY <3>2, <3>3 DEF Unheld
  <2>2. WithRuns(s, Unheld(s, 0, runs)) = runs /\ WithMaps(s, Unheld(s, 0, LiveMaps)) = LiveMaps
    BY <1>2, <2>1 DEF WithRuns, WithMaps, Runs
  <2> QED
    BY <2>2 DEF FreedUpTo
<1> DEFINE G == [p \in FreeLists \X Nat |-> IF p[2] \in 1 .. m THEN next(p[1], p[2]) ELSE p[1]]
<1>4. \A l \in FreeLists, n \in 1 .. m : next(l, n) \in FreeLists
  <2>1. TAKE l \in FreeLists, n \in 1 .. m
  <2>2. KindOrder[n] \in D!Kinds
    BY <1>1, KindsInOrder
  <2> QED
    BY <2>2, <1>2, ReturningIsTyped
<1>5. G \in [FreeLists \X Nat -> FreeLists] /\ \A l \in FreeLists, n \in 1 .. m : G[<<l, n>>] = next(l, n)
  <2>1. \A p \in FreeLists \X Nat : (IF p[2] \in 1 .. m THEN next(p[1], p[2]) ELSE p[1]) \in FreeLists
    BY <1>4
  <2>2. \A l \in FreeLists, n \in 1 .. m : <<l, n>> \in FreeLists \X Nat
    OBVIOUS
  <2> HIDE DEF next
  <2> QED
    BY <2>1, <2>2
<1>6. PICK f : Stepwise(f, FreeLists, lists, G, m)
  <2> HIDE DEF G
  <2> QED
    BY <1>2, <1>5, StepByStep
<1> HIDE DEF G
<1>7. f \in [0 .. m -> FreeLists] /\ f[0] = lists
  BY <1>6 DEF Stepwise
<1>8. \A n \in 1 .. m : f[n] = next(f[n - 1], n)
  <2>1. TAKE n \in 1 .. m
  <2>2. f[n - 1] \in FreeLists
    BY <1>7
  <2>3. G[<<f[n - 1], n>>] = next(f[n - 1], n)
    BY <2>2, <1>5
  <2> QED
    BY <2>3, <1>6 DEF Stepwise
<1> DEFINE Fits(g) == g = [n \in 0 .. m |-> IF n = 0 THEN lists ELSE next(g[n - 1], n)]
<1>9. Fits(f)
  <2> HIDE DEF next
  <2>1. \A n \in 0 .. m : f[n] = IF n = 0 THEN lists ELSE next(f[n - 1], n)
    BY <1>7, <1>8
  <2> QED
    BY <2>1, <1>7
<1>10. PICK g : g = CHOOSE h : Fits(h)
  OBVIOUS
<1>11. Fits(g)
  BY <1>9, <1>10
<1>12. D!AllReturned(s) = g[m]
  BY <1>1, <1>10 DEF D!AllReturned, D!Each
<1>13. g[0] = lists /\ \A n \in 1 .. m : g[n] = next(g[n - 1], n)
  <2> HIDE DEF next
  <2>1. \A n \in 0 .. m : g[n] = IF n = 0 THEN lists ELSE next(g[n - 1], n)
    BY <1>11
  <2> QED
    BY <2>1
<1> HIDE DEF Fits
<1> DEFINE R == {p \in Nat \X FreeLists : FreedUpTo(s, p[1], p[2])}
<1>14. <<0, g[0]>> \in R
  BY <1>2, <1>3, <1>13
<1>15. ASSUME NEW n \in 1 .. m, <<n - 1, g[n - 1]>> \in R  PROVE  <<n, g[n]>> \in R
  <2>1. PICK l \in FreeLists : l = g[n - 1] /\ FreedUpTo(s, n - 1, l)
    BY <1>15
  <2>2. next(l, n) \in FreeLists
    BY <1>4
  <2>3. FreedUpTo(s, n, next(l, n))
    <3>1. n \in 1 .. Len(KindOrder)
      BY <1>1
    <3> QED
      BY <3>1, <2>1, ReturningStep
  <2> HIDE DEF next
  <2> QED
    BY <2>1, <2>2, <2>3, <1>13
<1>16. <<m, g[m]>> \in R
  <2> HIDE DEF R
  <2> QED
    BY <1>14, <1>15, StepsReach
<1>17. FreedUpTo(s, m, D!AllReturned(s))
  BY <1>12, <1>16
<1>18. \A f1 : Unheld(s, m, f1) = [k \in D!Kinds |-> D!NoRun]
  BY <1>1, KindsInOrder DEF Unheld
<1> QED
  BY <1>17, <1>18 DEF FreedUpTo

-----------------------------------------------------------------------------
(* Entering: maps of a new set with the layout b are filled one binding    *)
(* after the other.                                                        *)
Distinct(b) == \A i, j \in DOMAIN b : b[i].binding = b[j].binding => i = j
MapsFor(b, rs, ms) ==
  /\ rs \in [D!Kinds -> RunRec] /\ ms \in [D!Kinds -> RunRec]
  /\ \A k \in D!Kinds : /\ rs[k].len = D!CountOf(b, k) /\ ms[k].len = D!CountOf(b, k)
                        /\ ms[k].len # 0 => Table(ms[k]) /\ rs[k].first # 0
  /\ \A k, h \in D!Kinds : k # h => span(ms[k]) \cap span(ms[h]) = {}

Entering == [els : Els, hangs : BOOLEAN]
Full(els, m) == {x \in span(m) : els[x].data # 0}

(* After i bindings: elements of other maps are as they were; if it goes   *)
(* on, the bindings are entered, and if it does not, one has no            *)
(* descriptors.  Otherwise no map has more entries than descriptors.       *)
EntersUpTo(els, b, rs, ms, i, e) ==
  /\ \A x \in 1 .. D!MapSize : (\A k \in D!Kinds : x \notin span(ms[k])) => e.els[x] = els[x]
  /\ ~ e.hangs => EnteredOK(e.els, ms, rs, b, i)
  /\ e.hangs => \E j \in DOMAIN b : b[j].count = 0
  /\ (\A j \in DOMAIN b : b[j].count # 0) =>
       \A k \in D!Kinds : Cardinality(Full(e.els, ms[k])) <= D!CountUpTo(b, k, i)

LEMMA FullFinite ==
  ASSUME NEW els, NEW m \in RunRec
  PROVE  /\ IsFiniteSet(Full(els, m)) /\ Cardinality(Full(els, m)) \in Nat
         /\ IsFiniteSet(span(m)) /\ Cardinality(span(m)) = m.len
<1>1. m.first \in Nat /\ m.len \in Nat
  BY DEF RunRec
<1>2. PICK a \in Nat, c \in Int : a = m.first /\ c = m.first + m.len - 1
  BY <1>1
<1>3. span(m) = a .. c
  BY <1>2 DEF span
<1>4. IsFiniteSet(a .. c) /\ Cardinality(a .. c) = IF a > c THEN 0 ELSE c - a + 1
  BY FS_Interval
<1>5. IsFiniteSet(span(m)) /\ Cardinality(span(m)) = m.len
  <2>1. IsFiniteSet(span(m)) /\ Cardinality(span(m)) = Cardinality(a .. c)
    BY <1>3, <1>4
  <2>2. PICK n \in Nat : n = m.len
    BY <1>1
  <2>3. c = a + n - 1
    BY <1>2, <2>2
  <2>4. (IF a > c THEN 0 ELSE c - a + 1) = n
    BY <2>3
  <2> QED
    BY <1>4, <2>1, <2>2, <2>4
<1>6. Full(els, m) \in SUBSET span(m)
  BY DEF Full
<1>7. IsFiniteSet(Full(els, m))
  BY <1>5, <1>6, FS_Subset
<1> QED
  BY <1>5, <1>7, FS_CardinalityType

LEMMA EnteringIsTyped ==
  ASSUME NEW b \in Bindings, NEW rs, NEW ms, MapsFor(b, rs, ms), NEW e \in Entering,
         NEW i \in 1 .. Len(b)
  PROVE  D!entering(e, ms, rs, b, i) \in Entering
<1>1. e.els \in Els /\ e.hangs \in BOOLEAN
  BY DEF Entering
<1>2. PICK k \in D!Kinds : k = b[i].kind
  BY EachBinding
<1>3. PICK m : m = ms[k]
  OBVIOUS
<1>4. b[i].binding \in Nat /\ b[i] = b[i] /\ i \in DOMAIN b
  BY EachBinding
<1>5. CASE e.hangs \/ m.len = 0 \/ D!Probe(e.els, m, b[i].binding) = -1
  <2>1. D!entering(e, ms, rs, b, i) = [e EXCEPT !.hangs = TRUE]
    BY <1>2, <1>3, <1>5 DEF D!entering
  <2> QED
    BY <2>1 DEF Entering
<1>6. CASE ~ (e.hangs \/ m.len = 0 \/ D!Probe(e.els, m, b[i].binding) = -1)
  <2>1. Table(m) /\ rs[k].first \in Nat \ {0}
    BY <1>3, <1>6 DEF MapsFor, RunRec
  <2>2. D!offsetOf(b, i) \in Nat
    BY <1>4, Offsets
  <2>3. PICK v \in Nat \ {0} : v = rs[k].first + D!offsetOf(b, i)
    BY <2>1, <2>2
  <2>4. PICK new : new = D!setMapElement(e.els, m, b[i].binding, v)
    OBVIOUS
  <2>5. new \in Els
    BY <1>1, <1>4, <1>6, <2>1, <2>4, SetEntry
  <2>6. D!entering(e, ms, rs, b, i) = [e EXCEPT !.els = new]
    BY <1>2, <1>3, <1>6, <2>3, <2>4 DEF D!entering
  <2> QED
    BY <2>5, <2>6 DEF Entering
<1> QED
  BY <1>5, <1>6

(* A binding that can be entered is, and those before it stay.             *)
LEMMA OneEntered ==
  ASSUME NEW b \in Bindings, Distinct(b), NEW rs, NEW ms, MapsFor(b, rs, ms),
         NEW els \in Els, NEW i \in 1 .. Len(b), EnteredOK(els, ms, rs, b, i - 1),
         NEW k \in D!Kinds, k = b[i].kind, ms[k].len # 0, D!Probe(els, ms[k], b[i].binding) # -1,
         NEW new, new = D!setMapElement(els, ms[k], b[i].binding, rs[k].first + D!offsetOf(b, i))
  PROVE  /\ EnteredOK(new, ms, rs, b, i) /\ new \in Els
         /\ \E x \in span(ms[k]) : /\ new[x].data # 0
                                   /\ \A y \in 1 .. D!MapSize : y # x => new[y] = els[y]
<1>1. DOMAIN b = 1 .. Len(b) /\ Len(b) \in Nat
      /\ \A j \in 1 .. Len(b) : b[j].binding \in Nat /\ b[j].kind \in D!Kinds
  BY EachBinding
<1>2. \A h \in D!Kinds : ms[h].len # 0 => Table(ms[h]) /\ rs[h].first \in Nat \ {0}
  BY DEF MapsFor, RunRec
<1>3. \A h \in D!Kinds : rs[h].len = ms[h].len
  BY DEF MapsFor
<1>4. \A j \in 1 .. Len(b) : D!offsetOf(b, j) \in Nat
  BY <1>1, Offsets
<1>5. PICK v \in Nat \ {0} : v = rs[k].first + D!offsetOf(b, i)
  BY <1>2, <1>4
<1>6. PICK m : m = ms[k]
  OBVIOUS
<1>7. Table(m) /\ D!Probe(els, m, b[i].binding) # -1 /\ b[i].binding \in Nat
  BY <1>1, <1>2, <1>6
<1>8. PICK x \in span(m) :
        /\ D!setMapElement(els, m, b[i].binding, v) = [els EXCEPT ![x] = [key |-> b[i].binding, data |-> v]]
        /\ D!setMapElement(els, m, b[i].binding, v) \in Els
        /\ Entry(D!setMapElement(els, m, b[i].binding, v), m, b[i].binding, v)
        /\ \A c \in Nat, w \in Nat \ {0} :
             c # b[i].binding /\ Entry(els, m, c, w)
             => Entry(D!setMapElement(els, m, b[i].binding, v), m, c, w)
  BY <1>7, SetEntry
<1>9. /\ new = [els EXCEPT ![x] = [key |-> b[i].binding, data |-> v]] /\ new \in Els
      /\ Entry(new, m, b[i].binding, v)
      /\ \A c \in Nat, w \in Nat \ {0} : c # b[i].binding /\ Entry(els, m, c, w) => Entry(new, m, c, w)
  BY <1>5, <1>6, <1>8
<1>10. x \in 1 .. D!MapSize
  BY <1>7 DEF Table
<1>11. /\ new[x].key = b[i].binding /\ new[x].data = v
       /\ \A y \in 1 .. D!MapSize : y # x => new[y] = els[y]
  <2>1. PICK e : e = [key |-> b[i].binding, data |-> v]
    OBVIOUS
  <2>2. new = [els EXCEPT ![x] = e]
    BY <1>9, <2>1
  <2>3. DOMAIN els = 1 .. D!MapSize
    BY DEF Els
  <2>4. new[x] = e /\ \A y \in 1 .. D!MapSize : y # x => new[y] = els[y]
    BY <1>10, <2>2, <2>3
  <2> QED
    BY <2>1, <2>4, SMTT(40)
<1>12. ASSUME NEW j \in 1 .. i
       PROVE  /\ rs[b[j].kind].len # 0
              /\ Entry(new, ms[b[j].kind], b[j].binding, rs[b[j].kind].first + D!offsetOf(b, j))
  <2>1. CASE j = i
    BY <2>1, <1>3, <1>5, <1>6, <1>9
  <2>2. CASE j # i
    <3>1. j \in 1 .. i - 1 /\ j \in 1 .. Len(b) /\ i \in 1 .. Len(b)
      BY <1>1, <2>2
    <3>2. PICK h, w : h \in D!Kinds /\ h = b[j].kind /\ w = rs[h].first + D!offsetOf(b, j)
      BY <1>1, <3>1
    <3>3. rs[h].len # 0 /\ Entry(els, ms[h], b[j].binding, w)
      BY <3>1, <3>2 DEF EnteredOK
    <3>4. Table(ms[h]) /\ w \in Nat \ {0}
      BY <1>2, <1>3, <1>4, <3>1, <3>2, <3>3
    <3>5. b[j].binding \in Nat /\ b[j].binding # b[i].binding
      BY <1>1, <2>2, <3>1 DEF Distinct
    <3>6. Entry(new, ms[h], b[j].binding, w)
      <4>1. CASE h = k
        BY <1>6, <1>9, <3>3, <3>4, <3>5, <4>1
      <4>2. CASE h # k
        <5>1. span(ms[h]) \cap span(m) = {}
          BY <1>6, <3>2, <4>2 DEF MapsFor
        <5>2. \A y \in span(ms[h]) : y \in 1 .. D!MapSize /\ y # x
          BY <3>4, <5>1 DEF Table
        <5>3. \A y \in span(ms[h]) : new[y] = els[y]
          BY <1>11, <5>2
        <5> QED
          BY <3>3, <3>4, <3>5, <5>3, EntryElsewhere
      <4> QED
        BY <4>1, <4>2
    <3> QED
      BY <3>2, <3>3, <3>6
  <2> QED
    BY <2>1, <2>2
<1>13. ASSUME NEW h \in D!Kinds, NEW y \in span(ms[h]), new[y].data # 0
       PROVE  \E j \in 1 .. i : b[j].kind = h /\ new[y].key = b[j].binding
  <2>1. ms[h].len # 0
    <3>1. ms[h] \in RunRec
      BY DEF MapsFor
    <3> QED
      BY <3>1, <1>13 DEF span, RunRec
  <2>2. y \in 1 .. D!MapSize
    BY <1>2, <2>1 DEF Table
  <2>3. CASE y = x
    <3>1. h = k
      BY <1>6, <2>3 DEF MapsFor
    <3>2. i \in 1 .. i
      BY <1>1
    <3> QED
      BY <1>11, <2>3, <3>1, <3>2
  <2>4. CASE y # x
    <3>1. new[y] = els[y]
      BY <1>11, <2>2, <2>4
    <3>2. PICK j \in 1 .. i - 1 : b[j].kind = h /\ els[y].key = b[j].binding
      BY <1>13, <3>1 DEF EnteredOK
    <3>3. j \in 1 .. i
      BY <1>1
    <3> QED
      BY <3>1, <3>2, <3>3
  <2> QED
    BY <2>3, <2>4
<1>14. EnteredOK(new, ms, rs, b, i)
  BY <1>12, <1>13 DEF EnteredOK
<1> QED
  BY <1>5, <1>6, <1>9, <1>11, <1>14

(* One binding more.                                                       *)
LEMMA EnteringStep ==
  ASSUME NEW b \in Bindings, Distinct(b), NEW rs, NEW ms, MapsFor(b, rs, ms), NEW els,
         NEW e \in Entering, NEW i \in 1 .. Len(b), EntersUpTo(els, b, rs, ms, i - 1, e)
  PROVE  EntersUpTo(els, b, rs, ms, i, D!entering(e, ms, rs, b, i))
<1>1. DOMAIN b = 1 .. Len(b) /\ Len(b) \in Nat
      /\ \A j \in 1 .. Len(b) : b[j].binding \in Nat /\ b[j].kind \in D!Kinds /\ b[j].count \in Nat
  BY EachBinding
<1>2. PICK k, m : k \in D!Kinds /\ k = b[i].kind /\ m = ms[k]
  BY <1>1
<1>3. e.els \in Els /\ e.hangs \in BOOLEAN
  BY DEF Entering
<1>4. /\ \A x \in 1 .. D!MapSize : (\A h \in D!Kinds : x \notin span(ms[h])) => e.els[x] = els[x]
      /\ ~ e.hangs => EnteredOK(e.els, ms, rs, b, i - 1)
      /\ e.hangs => \E j \in DOMAIN b : b[j].count = 0
  BY DEF EntersUpTo
<1>5. ASSUME \A j \in DOMAIN b : b[j].count # 0
      PROVE  \A h \in D!Kinds : Cardinality(Full(e.els, ms[h])) <= D!CountUpTo(b, h, i - 1)
  BY <1>5 DEF EntersUpTo
<1>6. /\ D!offsetOf(b, i) = D!CountUpTo(b, k, i - 1)
      /\ D!offsetOf(b, i) \in Nat /\ b[i].count \in Nat /\ D!CountOf(b, k) \in Nat
      /\ D!offsetOf(b, i) + b[i].count <= D!CountOf(b, k)
  <2>1. D!offsetOf(b, i) = D!CountUpTo(b, k, i - 1)
    BY <1>2 DEF D!offsetOf
  <2>2. D!CountOf(b, k) \in Nat
    BY CountSteps
  <2> QED
    BY <1>1, <1>2, <2>1, <2>2, Offsets
<1>7. i - 1 \in 0 .. Len(b) /\ i \in 0 .. Len(b) /\ i - 1 <= i
  BY <1>1
<1>8. \A h \in D!Kinds : /\ D!CountUpTo(b, h, i - 1) \in Nat /\ D!CountUpTo(b, h, i) \in Nat
                         /\ D!CountUpTo(b, h, i - 1) <= D!CountUpTo(b, h, i)
  BY <1>7, CountSteps
<1>9. D!CountUpTo(b, k, i) = D!CountUpTo(b, k, i - 1) + b[i].count
  <2>1. D!CountUpTo(b, k, i) = Counts(b, k, i, D!CountUpTo(b, k, i - 1))
    BY CountSteps
  <2> QED
    BY <1>2, <2>1 DEF Counts
<1>10. \A h \in D!Kinds : ms[h] \in RunRec /\ (ms[h].len # 0 => Table(ms[h])) /\ ms[h].len = D!CountOf(b, h)
  BY DEF MapsFor
<1>11. CASE e.hangs \/ m.len = 0 \/ D!Probe(e.els, m, b[i].binding) = -1
  <2>1. D!entering(e, ms, rs, b, i) = [e EXCEPT !.hangs = TRUE]
    BY <1>2, <1>11 DEF D!entering
  <2>2. PICK c : c = D!entering(e, ms, rs, b, i)
    OBVIOUS
  <2>3. c.els = e.els /\ c.hangs
    BY <2>1, <2>2 DEF Entering
  <2>4. \E j \in DOMAIN b : b[j].count = 0
    <3>1. CASE m.len = 0
      BY <1>1, <1>2, <1>6, <1>10, <3>1
    <3>2. CASE m.len # 0 /\ D!Probe(e.els, m, b[i].binding) = -1
      <4>1. SUFFICES ASSUME \A j \in DOMAIN b : b[j].count # 0  PROVE  FALSE
        OBVIOUS
      <4>2. Cardinality(Full(e.els, m)) <= D!CountUpTo(b, k, i - 1)
        BY <1>2, <1>5, <4>1
      <4>3. Full(e.els, m) = span(m)
        <5>1. Table(m) /\ b[i].binding \in Nat
          BY <1>1, <1>2, <1>10, <3>2
        <5> QED
          BY <5>1, <3>2, NoneSpare DEF Full
      <4>4. Cardinality(span(m)) = D!CountOf(b, k)
        BY <1>2, <1>10, FullFinite
      <4>5. b[i].count # 0
        BY <1>1, <4>1
      <4> QED
        BY <1>6, <4>2, <4>3, <4>4, <4>5
    <3> QED
      BY <1>4, <1>11, <3>1, <3>2
  <2>5. ASSUME \A j \in DOMAIN b : b[j].count # 0
        PROVE  FALSE
    BY <2>4, <2>5
  <2>6. EntersUpTo(els, b, rs, ms, i, c)
    BY <1>4, <2>3, <2>4, <2>5 DEF EntersUpTo
  <2> QED
    BY <2>2, <2>6
<1>12. CASE ~ (e.hangs \/ m.len = 0 \/ D!Probe(e.els, m, b[i].binding) = -1)
  <2>1. PICK new : new = D!setMapElement(e.els, m, b[i].binding, rs[k].first + D!offsetOf(b, i))
    OBVIOUS
  <2>2. D!entering(e, ms, rs, b, i) = [e EXCEPT !.els = new]
    BY <1>2, <1>12, <2>1 DEF D!entering
  <2>3. PICK c : c = D!entering(e, ms, rs, b, i)
    OBVIOUS
  <2>4. c.els = new /\ ~ c.hangs
    BY <1>12, <2>2, <2>3 DEF Entering
  <2>5. /\ EnteredOK(new, ms, rs, b, i) /\ new \in Els
        /\ \E x \in span(m) : /\ new[x].data # 0
                              /\ \A y \in 1 .. D!MapSize : y # x => new[y] = e.els[y]
    <3>1. PICK old \in Els : old = e.els
      BY <1>3
    <3>2. EnteredOK(old, ms, rs, b, i - 1)
      BY <1>4, <1>12, <3>1
    <3>3. k = b[i].kind /\ ms[k].len # 0 /\ D!Probe(old, ms[k], b[i].binding) # -1
      BY <1>2, <1>12, <3>1
    <3>4. new = D!setMapElement(old, ms[k], b[i].binding, rs[k].first + D!offsetOf(b, i))
      BY <1>2, <2>1, <3>1
    <3>5. /\ EnteredOK(new, ms, rs, b, i) /\ new \in Els
          /\ \E x \in span(ms[k]) : /\ new[x].data # 0
                                    /\ \A y \in 1 .. D!MapSize : y # x => new[y] = old[y]
      BY <1>2, <3>2, <3>3, <3>4, OneEntered
    <3> QED
      BY <1>2, <3>1, <3>5
  <2>6. PICK x \in span(m) : \A y \in 1 .. D!MapSize : y # x => new[y] = e.els[y]
    BY <2>5
  <2>7. \A y \in 1 .. D!MapSize : (\A h \in D!Kinds : y \notin span(ms[h])) => new[y] = els[y]
    BY <1>2, <1>4, <2>6
  <2>8. ASSUME \A j \in DOMAIN b : b[j].count # 0, NEW h \in D!Kinds
        PROVE  Cardinality(Full(new, ms[h])) <= D!CountUpTo(b, h, i)
    <3>1. Cardinality(Full(e.els, ms[h])) <= D!CountUpTo(b, h, i - 1)
      BY <1>5, <2>8
    <3>2. \A y \in span(ms[h]) : y \in 1 .. D!MapSize
      <4>1. CASE ms[h].len = 0
        BY <4>1, <1>10 DEF span, RunRec
      <4>2. CASE ms[h].len # 0
        BY <4>2, <1>10 DEF Table
      <4> QED
        BY <4>1, <4>2
    <3>3. /\ IsFiniteSet(Full(e.els, ms[h])) /\ Cardinality(Full(e.els, ms[h])) \in Nat
          /\ Cardinality(Full(new, ms[h])) \in Nat
      BY <1>10, FullFinite
    <3>4. CASE h # k
      <4>1. x \notin span(ms[h])
        BY <1>2, <3>4 DEF MapsFor
      <4>2. Full(new, ms[h]) = Full(e.els, ms[h])
        BY <2>6, <3>2, <4>1 DEF Full
      <4> QED
        BY <1>8, <3>1, <3>3, <4>2
    <3>5. CASE h = k
      <4>1. PICK A, B : A = Full(e.els, ms[h]) /\ B = A \cup {x}
        OBVIOUS
      <4>2. Full(new, ms[h]) \in SUBSET B
        BY <2>6, <3>2, <4>1 DEF Full
      <4>3. IsFiniteSet(B) /\ Cardinality(B) <= Cardinality(A) + 1 /\ Cardinality(B) \in Nat
        <5>1. IsFiniteSet(B) /\ (Cardinality(B) = Cardinality(A) \/ Cardinality(B) = Cardinality(A) + 1)
          BY <3>3, <4>1, FS_AddElement
        <5> QED
          BY <3>3, <4>1, <5>1
      <4>4. Cardinality(Full(new, ms[h])) <= Cardinality(B)
        BY <4>2, <4>3, FS_Subset
      <4>5. b[i].count \in Nat \ {0}
        BY <1>1, <2>8
      <4> QED
        BY <1>8, <1>9, <3>1, <3>3, <3>5, <4>1, <4>3, <4>4, <4>5
    <3> QED
      BY <3>4, <3>5
  <2>9. EntersUpTo(els, b, rs, ms, i, c)
    BY <2>4, <2>5, <2>7, <2>8 DEF EntersUpTo
  <2> QED
    BY <2>3, <2>9
<1> QED
  BY <1>11, <1>12

(* A new set's maps.                                                       *)
LEMMA EnteredIs ==
  ASSUME NEW b \in Bindings, Distinct(b), NEW rs, NEW ms, MapsFor(b, rs, ms), NEW els \in Els
  PROVE  /\ D!entered(D!createMap(els, ms), ms, rs, b) \in Entering
         /\ EntersUpTo(els, b, rs, ms, Len(b), D!entered(D!createMap(els, ms), ms, rs, b))
<1>1. PICK m \in Nat : m = Len(b)
  BY EachBinding
<1>2. PICK clear : clear = D!createMap(els, ms)
  OBVIOUS
<1>3. PICK a : a = [els |-> clear, hangs |-> FALSE]
  OBVIOUS
<1>4. /\ clear \in Els
      /\ \A x \in 1 .. D!MapSize : IF \E k \in D!Kinds : x \in span(ms[k])
                                   THEN clear[x].data = 0 ELSE clear[x] = els[x]
  <2>1. ms \in [D!Kinds -> RunRec]
    BY DEF MapsFor
  <2> QED
    BY <1>2, <2>1, MapsCreated
<1>5. a \in Entering
  BY <1>3, <1>4 DEF Entering
<1>6. EntersUpTo(els, b, rs, ms, 0, a)
  <2>1. a.els = clear /\ ~ a.hangs
    BY <1>3
  <2>2. \A k \in D!Kinds : \A x \in span(ms[k]) : clear[x].data = 0
    <3>1. TAKE k \in D!Kinds
    <3>2. TAKE x \in span(ms[k])
    <3>3. ms[k].len # 0
      <4>1. ms[k] \in RunRec
        BY DEF MapsFor
      <4> QED
        BY <3>2, <4>1 DEF span, RunRec
    <3>4. x \in 1 .. D!MapSize
      BY <3>2, <3>3 DEF MapsFor, Table
    <3> QED
      BY <1>4, <3>2, <3>4
  <2>3. EnteredOK(clear, ms, rs, b, 0)
    BY <2>2 DEF EnteredOK
  <2>4. \A k \in D!Kinds : Cardinality(Full(clear, ms[k])) <= D!CountUpTo(b, k, 0)
    <3>1. TAKE k \in D!Kinds
    <3>2. Full(clear, ms[k]) = {}
      BY <2>2 DEF Full
    <3>3. D!CountUpTo(b, k, 0) = 0
      BY CountSteps
    <3> QED
      BY <3>2, <3>3, FS_EmptySet
  <2> QED
    BY <1>4, <2>1, <2>3, <2>4 DEF EntersUpTo
<1> DEFINE next(e, n) == D!entering(e, ms, rs, b, n)
<1> DEFINE G == [p \in Entering \X Nat |-> IF p[2] \in 1 .. m THEN next(p[1], p[2]) ELSE p[1]]
<1>7. \A e \in Entering, n \in 1 .. m : next(e, n) \in Entering
  BY <1>1, EnteringIsTyped
<1>8. G \in [Entering \X Nat -> Entering] /\ \A e \in Entering, n \in 1 .. m : G[<<e, n>>] = next(e, n)
  <2>1. \A p \in Entering \X Nat : (IF p[2] \in 1 .. m THEN next(p[1], p[2]) ELSE p[1]) \in Entering
    BY <1>7
  <2>2. \A e \in Entering, n \in 1 .. m : <<e, n>> \in Entering \X Nat
    OBVIOUS
  <2> HIDE DEF next
  <2> QED
    BY <2>1, <2>2
<1>9. PICK f : Stepwise(f, Entering, a, G, m)
  <2> HIDE DEF G
  <2> QED
    BY <1>5, <1>8, StepByStep
<1> HIDE DEF G
<1>10. f \in [0 .. m -> Entering] /\ f[0] = a
  BY <1>9 DEF Stepwise
<1>11. \A n \in 1 .. m : f[n] = next(f[n - 1], n)
  <2>1. TAKE n \in 1 .. m
  <2>2. f[n - 1] \in Entering
    BY <1>10
  <2>3. G[<<f[n - 1], n>>] = next(f[n - 1], n)
    BY <2>2, <1>8
  <2> QED
    BY <2>3, <1>9 DEF Stepwise
<1> DEFINE Fits(g) == g = [n \in 0 .. m |-> IF n = 0 THEN a ELSE next(g[n - 1], n)]
<1>12. Fits(f)
  <2> HIDE DEF next
  <2>1. \A n \in 0 .. m : f[n] = IF n = 0 THEN a ELSE next(f[n - 1], n)
    BY <1>10, <1>11
  <2> QED
    BY <2>1, <1>10
<1>13. PICK g : g = CHOOSE h : Fits(h)
  OBVIOUS
<1>14. Fits(g)
  BY <1>12, <1>13
<1>15. D!entered(clear, ms, rs, b) = g[m]
  BY <1>1, <1>3, <1>13 DEF D!entered, D!Each
<1>16. g[0] = a /\ \A n \in 1 .. m : g[n] = next(g[n - 1], n)
  <2> HIDE DEF next
  <2>1. \A n \in 0 .. m : g[n] = IF n = 0 THEN a ELSE next(g[n - 1], n)
    BY <1>14
  <2> QED
    BY <2>1
<1> HIDE DEF Fits
<1> DEFINE R == {p \in Nat \X Entering : EntersUpTo(els, b, rs, ms, p[1], p[2])}
<1>17. <<0, g[0]>> \in R
  BY <1>5, <1>6, <1>16
<1>18. ASSUME NEW n \in 1 .. m, <<n - 1, g[n - 1]>> \in R  PROVE  <<n, g[n]>> \in R
  <2>1. PICK e \in Entering : e = g[n - 1] /\ EntersUpTo(els, b, rs, ms, n - 1, e)
    BY <1>18
  <2>2. next(e, n) \in Entering
    BY <1>7
  <2>3. EntersUpTo(els, b, rs, ms, n, next(e, n))
    <3>1. n \in 1 .. Len(b)
      BY <1>1
    <3> QED
      BY <3>1, <2>1, EnteringStep
  <2> HIDE DEF next
  <2> QED
    BY <2>1, <2>2, <2>3, <1>16
<1>19. <<m, g[m]>> \in R
  <2> HIDE DEF R
  <2> QED
    BY <1>17, <1>18, StepsReach
<1> QED
  BY <1>1, <1>2, <1>15, <1>19

-----------------------------------------------------------------------------
(* What the invariant says of single sets and descriptors.                 *)
LEMMA LayoutsAre ==
  \A b \in Layouts \cup {<<>>} : b \in Bindings /\ Distinct(b)
<1>1. \A b \in Layouts : b \in Bindings /\ Distinct(b)
  BY SetsAssumption DEF Bindings, Distinct
<1>2. <<>> \in Bindings /\ Distinct(<<>>)
  BY DEF Bindings, Distinct
<1> QED
  BY <1>1, <1>2

LEMMA NothingInNoLayout == \A k \in D!Kinds : D!CountOf(<<>>, k) = 0
<1>1. TAKE k \in D!Kinds
<1>2. <<>> \in Bindings
  BY LayoutsAre
<1>3. D!CountUpTo(<<>>, k, 0) = 0
  BY <1>2, CountSteps
<1> QED
  BY <1>3 DEF D!CountOf

(* Bindings that are entered stay if no element of their maps changes.     *)
LEMMA EnteredElsewhere ==
  ASSUME NEW els, NEW new, NEW b \in Bindings, NEW rs, NEW ms, NEW n \in 0 .. Len(b),
         EnteredOK(els, ms, rs, b, n),
         \A k \in D!Kinds : rs[k].len # 0 => Table(ms[k]),
         \A k \in D!Kinds : \A x \in span(ms[k]) : new[x] = els[x]
  PROVE  EnteredOK(new, ms, rs, b, n)
<1>1. ASSUME NEW i \in 1 .. n
      PROVE  /\ rs[b[i].kind].len # 0
             /\ Entry(new, ms[b[i].kind], b[i].binding, rs[b[i].kind].first + D!offsetOf(b, i))
  <2>1. i \in 1 .. Len(b)
    BY EachBinding
  <2>2. PICK k, key, v : k \in D!Kinds /\ key \in Nat /\ k = b[i].kind /\ key = b[i].binding /\ v = rs[k].first + D!offsetOf(b, i)
    BY <2>1, EachBinding
  <2>3. rs[k].len # 0 /\ Entry(els, ms[k], key, v)
    BY <1>1, <2>2 DEF EnteredOK
  <2>4. Table(ms[k]) /\ \A x \in span(ms[k]) : new[x] = els[x]
    BY <2>2, <2>3
  <2>5. Entry(new, ms[k], key, v)
    BY <2>2, <2>3, <2>4, EntryElsewhere
  <2> QED
    BY <2>2, <2>3, <2>5
<1>2. \A k \in D!Kinds : \A x \in span(ms[k]) :
        new[x].data # 0 => \E i \in 1 .. n : b[i].kind = k /\ new[x].key = b[i].binding
  BY DEF EnteredOK
<1> QED
  BY <1>1, <1>2 DEF EnteredOK

(* The maps of runs are of elements there are.                             *)
LEMMA TablesOfPool ==
  ASSUME NEW ls, NEW rs, NEW ms, PoolsOK(ls, rs, ms), NEW s \in Sets, NEW k \in D!Kinds,
         rs[s][k].len # 0
  PROVE  Table(ms[s][k]) /\ rs[s][k].first \in Nat \ {0} /\ span(rs[s][k]) \subseteq 1 .. PoolSize[k]
<1>1. /\ rs \in Runs /\ ms \in Runs
      /\ Apart(ls[k], PoolSize[k], Column(rs, k)) /\ Apart(ls.map, D!MapSize, Flat(ms))
      /\ rs[s][k].len = ms[s][k].len
  BY DEF PoolsOK
<1>2. rs[s][k] \in RunRec /\ ms[s][k] \in RunRec
  BY <1>1 DEF Runs
<1>3. span(rs[s][k]) \subseteq 1 .. PoolSize[k]
  <2>1. s \in DOMAIN Column(rs, k) /\ Column(rs, k)[s] = rs[s][k]
    BY DEF Column
  <2> QED
    BY <1>1, <2>1 DEF Apart
<1>4. span(ms[s][k]) \subseteq 1 .. D!MapSize
  <2>1. <<s, k>> \in DOMAIN Flat(ms) /\ Flat(ms)[<<s, k>>] = ms[s][k]
    BY DEF Flat
  <2> QED
    BY <1>1, <2>1 DEF Apart
<1>5. D!MapSize \in Nat /\ D!MapSize <= 16
  BY SetsAssumption, NamesOfLists
<1>6. PICK f \in Nat, n \in Nat : f = ms[s][k].first /\ n = ms[s][k].len
  BY <1>2 DEF RunRec
<1>7. f \in 1 .. D!MapSize /\ f + n - 1 \in 1 .. D!MapSize
  <2>1. n # 0
    BY <1>1, <1>6
  <2>2. f \in span(ms[s][k]) /\ f + n - 1 \in span(ms[s][k])
    BY <1>6, <2>1 DEF span
  <2> QED
    BY <1>4, <2>2
<1>8. n \in 1 .. 16
  BY <1>1, <1>5, <1>6, <1>7
<1>9. rs[s][k].first \in Nat \ {0}
  <2>1. PICK g \in Nat, c \in Nat : g = rs[s][k].first /\ c = rs[s][k].len
    BY <1>2 DEF RunRec
  <2>2. g \in span(rs[s][k])
    BY <2>1 DEF span
  <2> QED
    BY <1>3, <2>1, <2>2
<1> QED
  BY <1>2, <1>3, <1>4, <1>6, <1>8, <1>9 DEF Table

(* No two runs share a block.                                              *)
LEMMA RunsApart ==
  ASSUME NEW ls, NEW rs, NEW ms, PoolsOK(ls, rs, ms), NEW s \in Sets, NEW k \in D!Kinds,
         NEW t \in Sets, NEW h \in D!Kinds
  PROVE  /\ s # t => span(rs[s][k]) \cap span(rs[t][k]) = {}
         /\ <<s, k>> # <<t, h>> => span(ms[s][k]) \cap span(ms[t][h]) = {}
<1>1. Apart(ls[k], PoolSize[k], Column(rs, k)) /\ Apart(ls.map, D!MapSize, Flat(ms))
  BY DEF PoolsOK
<1>2. /\ s \in DOMAIN Column(rs, k) /\ Column(rs, k)[s] = rs[s][k]
      /\ t \in DOMAIN Column(rs, k) /\ Column(rs, k)[t] = rs[t][k]
  BY DEF Column
<1>3. /\ <<s, k>> \in DOMAIN Flat(ms) /\ Flat(ms)[<<s, k>>] = ms[s][k]
      /\ <<t, h>> \in DOMAIN Flat(ms) /\ Flat(ms)[<<t, h>>] = ms[t][h]
  BY DEF Flat
<1>4. s # t => span(rs[s][k]) \cap span(rs[t][k]) = {}
  BY <1>1, <1>2 DEF Apart
<1>5. <<s, k>> # <<t, h>> => span(ms[s][k]) \cap span(ms[t][h]) = {}
  BY <1>1, <1>3 DEF Apart
<1> QED
  BY <1>4, <1>5

(* What a search in a map can find.                                        *)
LEMMA LookUp ==
  ASSUME NEW els \in Els, NEW m, Table(m), NEW key \in Nat
  PROVE  \/ D!getMapElement(els, m, key) = -1 /\ \A x \in span(m) : els[x].data # 0
         \/ D!getMapElement(els, m, key) = 0
         \/ \E x \in span(m) : /\ els[x].key = key /\ els[x].data \in Nat \ {0}
                               /\ D!getMapElement(els, m, key) = els[x].data
<1>1. CASE D!Probe(els, m, key) = -1
  BY <1>1, NoneSpare DEF D!getMapElement
<1>2. CASE D!Probe(els, m, key) # -1
  <2>1. PICK d \in 0 .. m.len - 1 : /\ D!Ends(els, m, key, probed(m, key, d))
                                    /\ D!Probe(els, m, key) = probed(m, key, d)
    BY <1>2, ProbeCases
  <2>2. PICK x \in span(m) : x = m.first + probed(m, key, d)
    BY Places
  <2>3. els[x].key = key \/ els[x].data = 0
    BY <2>1, <2>2 DEF D!Ends
  <2>4. D!getMapElement(els, m, key) = els[x].data
    BY <1>2, <2>1, <2>2 DEF D!getMapElement
  <2>5. els[x].data \in Nat
    BY DEF Els, Table
  <2> QED
    BY <2>3, <2>4, <2>5
<1> QED
  BY <1>1, <1>2

LEMMA LiveMapsAre ==
  ASSUME NEW s \in Sets, NEW k \in D!Kinds
  PROVE  LiveMaps[s][k] = IF runs[s][k].len = 0 THEN D!NoRun ELSE maps[s][k]
BY DEF LiveMaps

LEMMA OneLayout ==
  ASSUME AllSetsOK, NEW s \in Sets
  PROVE  /\ layout[s] \in Layouts \cup {<<>>} /\ layout[s] \in Bindings /\ Distinct(layout[s])
         /\ DOMAIN layout[s] = 1 .. Len(layout[s]) /\ Len(layout[s]) \in Nat
         /\ \A i \in DOMAIN layout[s] : /\ layout[s][i].binding \in Nat
                                        /\ layout[s][i].kind \in D!Kinds /\ layout[s][i].count \in Nat
<1>1. layout[s] \in Layouts \cup {<<>>}
  BY DEF AllSetsOK, ContentsOK
<1>2. PICK b \in Bindings : b = layout[s] /\ Distinct(b)
  BY <1>1, LayoutsAre
<1>3. /\ DOMAIN b = 1 .. Len(b) /\ Len(b) \in Nat
      /\ \A i \in DOMAIN b : b[i].binding \in Nat /\ b[i].kind \in D!Kinds /\ b[i].count \in Nat
  BY EachBinding
<1> QED
  BY <1>1, <1>2, <1>3

(* A binding of a set leads to its descriptors.                            *)
LEMMA DescriptorFound ==
  ASSUME AllSetsOK, NEW s \in Sets, NEW i \in DOMAIN layout[s], NEW k, k = layout[s][i].kind
  PROVE  /\ k \in D!Kinds /\ runs[s][k].len # 0 /\ Table(maps[s][k])
         /\ FirstDescriptor(s, i) \in Nat \ {0}
         /\ D!getMapElement(elements, maps[s][k], layout[s][i].binding) = FirstDescriptor(s, i)
         /\ \A j \in 0 .. layout[s][i].count - 1 :
              /\ FirstDescriptor(s, i) + j \in span(runs[s][k])
              /\ FirstDescriptor(s, i) + j \in 1 .. PoolSize[k]
<1>1. PICK b \in Bindings : b = layout[s] /\ Distinct(b)
  BY OneLayout
<1>2. i \in DOMAIN b /\ i \in 1 .. Len(b) /\ b[i].binding \in Nat /\ b[i].kind \in D!Kinds /\ b[i].count \in Nat
  BY <1>1, OneLayout
<1>3. k \in D!Kinds /\ k = b[i].kind
  BY <1>1, <1>2
<1>4. EnteredOK(elements, LiveMaps[s], runs[s], b, Len(b)) /\ runs[s][k].len = D!CountOf(b, k)
  BY <1>1, <1>3 DEF AllSetsOK, SetOK
<1>5. PICK v : v = runs[s][k].first + D!offsetOf(b, i)
  OBVIOUS
<1>6. runs[s][k].len # 0 /\ Entry(elements, LiveMaps[s][k], b[i].binding, v)
  BY <1>2, <1>3, <1>4, <1>5 DEF EnteredOK
<1>7. LiveMaps[s][k] = maps[s][k]
  BY <1>3, <1>6, LiveMapsAre
<1>8. PoolsOK(lists, runs, LiveMaps)
  BY DEF AllSetsOK
<1>9. /\ Table(maps[s][k]) /\ runs[s][k].first \in Nat \ {0} /\ span(runs[s][k]) \subseteq 1 .. PoolSize[k]
  BY <1>3, <1>6, <1>7, <1>8, TablesOfPool
<1>10. D!getMapElement(elements, maps[s][k], b[i].binding) = v
  BY <1>2, <1>6, <1>7, <1>9, EntryFound
<1>11. v = FirstDescriptor(s, i)
  BY <1>1, <1>3, <1>5 DEF FirstDescriptor
<1>12. PICK o \in Nat, c \in Nat, n \in Nat, f \in Nat \ {0} :
         /\ o = D!offsetOf(b, i) /\ c = b[i].count /\ n = runs[s][k].len /\ f = runs[s][k].first
         /\ o + c <= n
  <2>1. D!offsetOf(b, i) \in Nat /\ D!offsetOf(b, i) + b[i].count <= D!CountOf(b, k)
    BY <1>2, <1>3, Offsets
  <2>2. D!CountOf(b, k) \in Nat
    BY CountSteps
  <2> QED
    BY <1>2, <1>4, <1>9, <2>1, <2>2
<1>13. v \in Nat \ {0}
  BY <1>5, <1>12
<1>14. \A j \in 0 .. c - 1 : v + j \in span(runs[s][k])
  BY <1>5, <1>12 DEF span
<1> QED
  BY <1>1, <1>3, <1>6, <1>9, <1>10, <1>11, <1>12, <1>13, <1>14

(* No two bindings share a descriptor.                                     *)
LEMMA PlacesApart ==
  ASSUME AllSetsOK, NEW s \in Sets, NEW i \in DOMAIN layout[s], NEW j \in 0 .. layout[s][i].count - 1,
         NEW t \in Sets, NEW h \in DOMAIN layout[t], NEW c \in 0 .. layout[t][h].count - 1,
         layout[s][i].kind = layout[t][h].kind,
         FirstDescriptor(s, i) + j = FirstDescriptor(t, h) + c
  PROVE  s = t /\ i = h /\ j = c
<1>1. PICK k \in D!Kinds : k = layout[s][i].kind /\ k = layout[t][h].kind
  BY DescriptorFound
<1>2. PICK v \in Nat, w \in Nat : v = FirstDescriptor(s, i) /\ w = FirstDescriptor(t, h)
  BY DescriptorFound
<1>3. v + j \in span(runs[s][k]) /\ w + c \in span(runs[t][k])
  BY <1>1, <1>2, DescriptorFound
<1>4. s = t
  <2>1. PoolsOK(lists, runs, LiveMaps)
    BY DEF AllSetsOK
  <2>2. s # t => span(runs[s][k]) \cap span(runs[t][k]) = {}
    BY <2>1, RunsApart
  <2> QED
    BY <1>2, <1>3, <2>2
<1>5. PICK b \in Bindings : b = layout[s]
  BY OneLayout
<1>6. DOMAIN b = 1 .. Len(b) /\ Len(b) \in Nat /\ i \in DOMAIN b /\ h \in DOMAIN b
      /\ b[i].count \in Nat /\ b[h].count \in Nat /\ b[i].kind = k /\ b[h].kind = k
  BY <1>1, <1>4, <1>5, OneLayout
<1>7. PICK f : f = runs[s][k].first
  OBVIOUS
<1>8. v = f + D!offsetOf(b, i) /\ w = f + D!offsetOf(b, h)
  BY <1>1, <1>2, <1>4, <1>5, <1>7 DEF FirstDescriptor
<1>9. PICK p \in Nat, q \in Nat : p = D!offsetOf(b, i) /\ q = D!offsetOf(b, h)
  BY <1>6, Offsets
<1>10. i < h => p + b[i].count <= q
  BY <1>6, <1>9, Offsets
<1>11. h < i => q + b[h].count <= p
  BY <1>6, <1>9, Offsets
<1>12. f \in Nat
  <2>1. runs \in Runs
    BY DEF AllSetsOK, PoolsOK
  <2> QED
    BY <1>7, <2>1 DEF Runs, RunRec
<1>13. j \in 0 .. b[i].count - 1 /\ c \in 0 .. b[h].count - 1
  BY <1>4, <1>5
<1>14. i = h
  <2>1. p + j = q + c
    <3>1. v + j = w + c
      BY <1>2
    <3>2. v = f + p /\ w = f + q /\ j \in Int /\ c \in Int
      BY <1>6, <1>8, <1>9, <1>13
    <3> QED
      BY <1>12, <3>1, <3>2
  <2>2. PICK x \in Nat, y \in Nat : x = b[i].count /\ y = b[h].count
    BY <1>6
  <2>3. j \in 0 .. x - 1 /\ c \in 0 .. y - 1
    BY <1>13, <2>2
  <2>4. ~ (p + x <= q)
    BY <2>1, <2>3
  <2>5. ~ (q + y <= p)
    BY <2>1, <2>3
  <2>6. ~ (i < h)
    BY <1>10, <2>2, <2>4
  <2>7. ~ (h < i)
    BY <1>11, <2>2, <2>5
  <2> QED
    BY <2>6, <2>7, <1>6
<1> QED
  BY <1>2, <1>4, <1>14

(* A binding is not found in the map of another kind.                      *)
LEMMA NotOfOtherKinds ==
  ASSUME AllSetsOK, NEW s \in Sets, NEW i \in DOMAIN layout[s], NEW k \in D!Kinds,
         k # layout[s][i].kind, runs[s][k].len # 0
  PROVE  D!getMapElement(elements, maps[s][k], layout[s][i].binding) \in {-1, 0}
<1>1. PICK b \in Bindings : b = layout[s] /\ Distinct(b)
  BY OneLayout
<1>2. i \in DOMAIN b /\ DOMAIN b = 1 .. Len(b) /\ Len(b) \in Nat /\ b[i].binding \in Nat
  BY <1>1, OneLayout
<1>3. EnteredOK(elements, LiveMaps[s], runs[s], b, Len(b))
  BY <1>1 DEF AllSetsOK, SetOK
<1>4. PICK m : m = maps[s][k]
  OBVIOUS
<1>5. LiveMaps[s][k] = m
  BY <1>4, LiveMapsAre
<1>6. Table(m)
  <2>1. PoolsOK(lists, runs, LiveMaps)
    BY DEF AllSetsOK
  <2> QED
    BY <1>5, <2>1, TablesOfPool
<1>7. ASSUME NEW x \in span(m), elements[x].data \in Nat \ {0}
      PROVE  elements[x].key # b[i].binding
  <2>1. PICK h \in 1 .. Len(b) : b[h].kind = k /\ elements[x].key = b[h].binding
    BY <1>3, <1>5, <1>7 DEF EnteredOK
  <2> QED
    BY <1>1, <1>2, <2>1 DEF Distinct
<1>8. elements \in Els
  BY DEF AllSetsOK, ContentsOK
<1> QED
  BY <1>1, <1>2, <1>4, <1>6, <1>7, <1>8, LookUp

-----------------------------------------------------------------------------
(* A new set.  Other sets keep their maps: the elements that change are    *)
(* in runs of its own.                                                     *)
LEMMA RoomIsLeft ==
  ASSUME AllSetsOK, NEW b \in Bindings,
         \A k \in D!Kinds : D!InUse(k) + D!CountOf(b, k) <= PoolSize[k]
  PROVE  ~ freed => Room(b)
<1>1. SUFFICES ASSUME ~ freed PROVE Room(b)
  OBVIOUS
<1>2. LensOK(lists, runs)
  BY <1>1 DEF AllSetsOK
<1>3. ASSUME NEW k \in D!Kinds  PROVE  D!Total(Used(runs, k)) + D!CountOf(b, k) <= PoolSize[k]
  <2>1. \A s \in Sets : runs[s][k].len = D!CountOf(layout[s], k)
    BY DEF AllSetsOK, SetOK
  <2>2. Used(runs, k) = [s \in Sets |-> D!CountOf(layout[s], k)]
    BY <2>1 DEF Used
  <2>3. D!InUse(k) = D!Total(Used(runs, k))
    BY <2>2 DEF D!InUse
  <2> QED
    BY <2>3
<1> QED
  BY <1>2, <1>3 DEF Room

LEMMA MapsOfNew ==
  ASSUME AllSetsOK, NEW s \in Sets, NEW b \in Bindings, NEW a \in Allocating,
         a.ok, TakenUpTo(s, b, Len(KindOrder), a)
  PROVE  /\ PoolsOK(a.lists, WithRuns(s, a.runs), WithMaps(s, a.maps))
         /\ WithRuns(s, a.runs)[s] = a.runs /\ WithMaps(s, a.maps)[s] = a.maps
         /\ \A t \in Sets : t # s => /\ WithRuns(s, a.runs)[t] = runs[t]
                                     /\ WithMaps(s, a.maps)[t] = LiveMaps[t]
         /\ MapsFor(b, a.runs, a.maps)
         /\ \A k \in D!Kinds : a.maps[k].len = 0 => a.maps[k] = D!NoRun
<1>1. PICK rs, ms : rs = WithRuns(s, a.runs) /\ ms = WithMaps(s, a.maps)
  OBVIOUS
<1>2. /\ PoolsOK(a.lists, rs, ms)
      /\ \A j \in 1 .. Len(KindOrder) :
           a.runs[KindOrder[j]].len = IF j <= Len(KindOrder) THEN D!CountOf(b, KindOrder[j]) ELSE 0
  BY <1>1 DEF TakenUpTo
<1>3. a.runs \in [D!Kinds -> RunRec] /\ a.maps \in [D!Kinds -> RunRec]
  BY DEF Allocating
<1>4. runs \in Runs /\ LiveMaps \in Runs
  BY DEF AllSetsOK, PoolsOK
<1>5. /\ rs[s] = a.runs /\ ms[s] = a.maps
      /\ \A t \in Sets : t # s => rs[t] = runs[t] /\ ms[t] = LiveMaps[t]
  BY <1>1, <1>3, <1>4 DEF WithRuns, WithMaps, Runs
<1>6. ASSUME NEW k \in D!Kinds  PROVE  a.runs[k].len = D!CountOf(b, k)
  <2>1. PICK j \in 1 .. Len(KindOrder) : KindOrder[j] = k
    BY KindsInOrder
  <2> QED
    BY <2>1, <1>2, KindsInOrder
<1>7. \A k \in D!Kinds : /\ a.runs[k].len = a.maps[k].len
                         /\ a.runs[k].len = 0 => a.maps[k] = D!NoRun
  BY <1>2, <1>5 DEF PoolsOK
<1>8. ASSUME NEW k \in D!Kinds, a.maps[k].len # 0  PROVE  Table(a.maps[k]) /\ a.runs[k].first # 0
  <2>1. rs[s][k].len # 0
    BY <1>5, <1>7, <1>8
  <2>2. Table(ms[s][k]) /\ rs[s][k].first \in Nat \ {0}
    BY <1>2, <2>1, TablesOfPool
  <2> QED
    BY <1>5, <2>2
<1>9. ASSUME NEW k \in D!Kinds, NEW h \in D!Kinds, k # h
      PROVE  span(a.maps[k]) \cap span(a.maps[h]) = {}
  <2>1. span(ms[s][k]) \cap span(ms[s][h]) = {}
    BY <1>2, <1>9, RunsApart
  <2> QED
    BY <1>5, <2>1
<1>10. MapsFor(b, a.runs, a.maps)
  BY <1>3, <1>6, <1>7, <1>8, <1>9 DEF MapsFor
<1> QED
  BY <1>1, <1>2, <1>5, <1>7, <1>10

(* What a set was given stays when the set and its descriptors do.         *)
LEMMA WrittenKept ==
  ASSUME NEW t \in Sets, WrittenOK(t), runs'[t] = runs[t], layout'[t] = layout[t],
         written'[t] = written[t], descriptors' = descriptors
  PROVE  WrittenOK(t)'
<1>1. \A i : FirstDescriptor(t, i)' = FirstDescriptor(t, i)
  BY DEF FirstDescriptor
<1> QED
  BY <1>1 DEF WrittenOK

LEMMA AllocateStep ==
  ASSUME AllSetsOK, NEW s \in Sets, NEW b \in Layouts, D!vkAllocateDescriptorSets(s, b), ~ strayed
  PROVE  SetsInv'
<1>1. b \in Bindings /\ Distinct(b) /\ b \in Layouts \cup {<<>>}
  BY LayoutsAre
<1>2. /\ layout[s] = <<>> /\ \A k \in D!Kinds : D!InUse(k) + D!CountOf(b, k) <= PoolSize[k]
      /\ UNCHANGED <<descriptors, freed, strayed>>
  BY DEF D!vkAllocateDescriptorSets
<1>3. PICK a : a = D!Allocated(b)
  OBVIOUS
<1>4. PICK e : e = D!entered(D!createMap(elements, a.maps), a.maps, a.runs, b)
  OBVIOUS
<1>5. ~ a.ok => stopped' = "no run" /\ UNCHANGED <<lists, elements, layout, runs, maps, written>>
  BY <1>3 DEF D!vkAllocateDescriptorSets
<1>6. a.ok => /\ lists' = a.lists
              /\ elements' = e.els
              /\ stopped' = IF e.hangs THEN "no element" ELSE ""
              /\ layout' = [layout EXCEPT ![s] = b]
              /\ runs' = [runs EXCEPT ![s] = a.runs]
              /\ maps' = [maps EXCEPT ![s] = [k \in D!Kinds |->
                            IF a.maps[k].len = 0 THEN @[k] ELSE a.maps[k]]]
              /\ written' = [written EXCEPT ![s] = [i \in DOMAIN b |->
                               [j \in 0 .. b[i].count - 1 |-> Undefined]]]
  BY <1>3, <1>4 DEF D!vkAllocateDescriptorSets
<1>7. /\ ContentsOK /\ PoolsOK(lists, runs, LiveMaps)
      /\ runs \in Runs /\ LiveMaps \in Runs /\ \A t \in Sets : SetOK(t)
  BY DEF AllSetsOK, PoolsOK
<1>8. \A k \in D!Kinds : runs[s][k].len = 0
  BY <1>2, <1>7, NothingInNoLayout DEF SetOK
<1>9. a \in Allocating /\ TakenUpTo(s, b, Len(KindOrder), a)
  BY <1>1, <1>3, <1>7, <1>8, AllocatedIs
<1>10. ~ freed => Room(b)
  BY <1>1, <1>2, RoomIsLeft
<1>11. CASE ~ a.ok
  <2>1. freed
    BY <1>9, <1>10, <1>11 DEF TakenUpTo
  <2> QED
    BY <2>1, <1>2, <1>5, <1>11 DEF SetsInv, StopsOnlyWhereKnown, D!StopsOnlyWhereKnown
<1>12. ASSUME a.ok  PROVE  SetsInv'
  <2>1. PICK rs, ms : rs = WithRuns(s, a.runs) /\ ms = WithMaps(s, a.maps)
    OBVIOUS
  <2>2. /\ PoolsOK(a.lists, rs, ms)
        /\ rs[s] = a.runs /\ ms[s] = a.maps
        /\ \A t \in Sets : t # s => rs[t] = runs[t] /\ ms[t] = LiveMaps[t]
        /\ MapsFor(b, a.runs, a.maps)
        /\ \A k \in D!Kinds : a.maps[k].len = 0 => a.maps[k] = D!NoRun
    BY <1>1, <1>9, <1>12, <2>1, MapsOfNew
  <2>3. rs \in Runs /\ ms \in Runs
    BY <2>2 DEF PoolsOK
  <2>4. elements \in Els
    BY <1>7 DEF ContentsOK
  <2>5. e \in Entering /\ EntersUpTo(elements, b, a.runs, a.maps, Len(b), e)
    BY <1>1, <1>4, <2>2, <2>4, EnteredIs
  <2>6. CASE e.hangs
    <3>1. stopped' = "no element" /\ layout' = [layout EXCEPT ![s] = b]
      BY <1>6, <1>12, <2>6
    <3>2. layout'[s] = b
      BY <1>7, <3>1 DEF ContentsOK
    <3>3. \E j \in DOMAIN b : b[j].count = 0
      BY <2>5, <2>6 DEF EntersUpTo
    <3>4. \E t \in Sets : \E i \in DOMAIN layout'[t] : layout'[t][i].count = 0
      BY <3>2, <3>3
    <3> QED
      BY <3>1, <3>4 DEF SetsInv, StopsOnlyWhereKnown, D!StopsOnlyWhereKnown
  <2>7. ASSUME ~ e.hangs  PROVE  SetsInv'
    <3>1. PICK new : new = e.els
      OBVIOUS
    <3>2. /\ new \in Els /\ EnteredOK(new, a.maps, a.runs, b, Len(b))
          /\ \A x \in 1 .. D!MapSize : (\A k \in D!Kinds : x \notin span(a.maps[k])) => new[x] = elements[x]
      <4>1. new \in Els
        BY <2>5, <3>1 DEF Entering
      <4>2. EnteredOK(new, a.maps, a.runs, b, Len(b))
        BY <2>5, <2>7, <3>1 DEF EntersUpTo
      <4>3. \A x \in 1 .. D!MapSize : (\A k \in D!Kinds : x \notin span(a.maps[k])) => new[x] = elements[x]
        BY <2>5, <3>1 DEF EntersUpTo
      <4> QED
        BY <4>1, <4>2, <4>3
    <3>3. /\ lists' = a.lists /\ elements' = new /\ stopped' = "" /\ runs' = rs
          /\ layout' = [layout EXCEPT ![s] = b]
      BY <1>6, <1>12, <2>1, <2>7, <3>1 DEF WithRuns
    <3>4. /\ layout'[s] = b /\ \A t \in Sets : t # s => layout'[t] = layout[t]
          /\ layout' \in [Sets -> Layouts \cup {<<>>}]
      <4>1. layout \in [Sets -> Layouts \cup {<<>>}]
        BY <1>7 DEF ContentsOK
      <4> QED
        BY <1>1, <3>3, <4>1
    <3>5. /\ DOMAIN written' = Sets /\ \A t \in Sets : t # s => written'[t] = written[t]
          /\ written'[s] = [i \in DOMAIN b |-> [j \in 0 .. b[i].count - 1 |-> Undefined]]
      <4>1. DOMAIN written = Sets
        BY <1>7 DEF ContentsOK
      <4> QED
        BY <1>6, <1>12, <4>1
    <3>6. /\ maps' \in Runs /\ \A t \in Sets : t # s => maps'[t] = maps[t]
          /\ \A k \in D!Kinds : /\ maps'[s][k] = IF a.maps[k].len = 0 THEN maps[s][k] ELSE a.maps[k]
                                /\ maps'[s][k] = D!NoRun \/ Table(maps'[s][k])
      <4>1. maps \in Runs /\ \A k \in D!Kinds : maps[s][k] = D!NoRun \/ Table(maps[s][k])
        BY <1>7 DEF ContentsOK
      <4>2. PICK n : n = [k \in D!Kinds |-> IF a.maps[k].len = 0 THEN maps[s][k] ELSE a.maps[k]]
        OBVIOUS
      <4>3. n \in [D!Kinds -> RunRec]
        <5>1. maps[s] \in [D!Kinds -> RunRec] /\ a.maps \in [D!Kinds -> RunRec]
          BY <1>9, <4>1 DEF Runs, Allocating
        <5> QED
          BY <4>2, <5>1
      <4>4. maps' = [maps EXCEPT ![s] = n]
        BY <1>6, <1>12, <4>2
      <4>5. maps'[s] = n /\ maps' \in Runs /\ \A t \in Sets : t # s => maps'[t] = maps[t]
        BY <4>1, <4>3, <4>4 DEF Runs
      <4>6. \A k \in D!Kinds : a.maps[k].len # 0 => Table(a.maps[k])
        BY <2>2 DEF MapsFor
      <4> QED
        BY <4>1, <4>2, <4>5, <4>6
    <3>7. LiveMaps' = ms
      <4>1. ASSUME NEW t \in Sets, NEW k \in D!Kinds
            PROVE  (IF runs'[t][k].len = 0 THEN D!NoRun ELSE maps'[t][k]) = ms[t][k]
        <5>1. CASE t # s
          <6>1. LiveMaps[t][k] = IF runs[t][k].len = 0 THEN D!NoRun ELSE maps[t][k]
            BY LiveMapsAre
          <6>2. runs'[t] = runs[t] /\ maps'[t] = maps[t] /\ ms[t] = LiveMaps[t]
            BY <5>1, <2>2, <3>3, <3>6
          <6> QED
            BY <6>1, <6>2
        <5>2. CASE t = s
          <6>1. a.runs[k].len = a.maps[k].len
            BY <2>2 DEF MapsFor
          <6> QED
            BY <5>2, <6>1, <2>2, <3>3, <3>6
        <5> QED
          BY <5>1, <5>2
      <4>2. LiveMaps' = [t \in Sets |-> [k \in D!Kinds |->
                           IF runs'[t][k].len = 0 THEN D!NoRun ELSE maps'[t][k]]]
        BY DEF LiveMaps, D!NoRun, D!Run
      <4>3. ms = [t \in Sets |-> [k \in D!Kinds |-> ms[t][k]]]
        BY <2>3 DEF Runs
      <4> QED
        BY <4>1, <4>2, <4>3
    <3>8. ContentsOK'
      <4>1. \A t \in Sets, k \in D!Kinds : maps'[t][k] = D!NoRun \/ Table(maps'[t][k])
        <5>1. \A t \in Sets, k \in D!Kinds : maps[t][k] = D!NoRun \/ Table(maps[t][k])
          BY <1>7 DEF ContentsOK
        <5> QED
          BY <3>6, <5>1
      <4>2. descriptors' \in Contents
        BY <1>2, <1>7 DEF ContentsOK
      <4>3. elements' \in Els
        BY <3>2, <3>3
      <4> QED
        BY <3>4, <3>5, <3>6, <4>1, <4>2, <4>3 DEF ContentsOK
    <3>9. PoolsOK(lists', runs', LiveMaps')
      BY <2>2, <3>3, <3>7
    <3>10. ~ freed' => LensOK(lists', runs')
      BY <1>2, <1>9, <1>10, <2>1, <3>3 DEF TakenUpTo
    <3>11. ASSUME NEW t \in Sets, t # s  PROVE  SetOK(t)'
      <4>1. /\ runs'[t] = runs[t] /\ layout'[t] = layout[t] /\ written'[t] = written[t]
            /\ LiveMaps'[t] = LiveMaps[t] /\ descriptors' = descriptors /\ elements' = new
        BY <1>2, <2>2, <3>3, <3>4, <3>5, <3>7, <3>11
      <4>2. /\ \A k \in D!Kinds : runs[t][k].len = D!CountOf(layout[t], k)
            /\ EnteredOK(elements, LiveMaps[t], runs[t], layout[t], Len(layout[t]))
            /\ WrittenOK(t)
        BY <1>7 DEF SetOK
      <4>3. WrittenOK(t)'
        BY <4>1, <4>2, WrittenKept
      <4>4. \A k \in D!Kinds : runs[t][k].len # 0 => Table(LiveMaps[t][k])
        BY <1>7, TablesOfPool
      <4>5. ASSUME NEW k \in D!Kinds, NEW x \in span(LiveMaps[t][k])  PROVE  new[x] = elements[x]
        <5>1. LiveMaps[t][k] = ms[t][k]
          BY <2>2, <3>11
        <5>2. \A h \in D!Kinds : span(ms[t][k]) \cap span(a.maps[h]) = {}
          <6>1. TAKE h \in D!Kinds
          <6>2. <<t, k>> # <<s, h>>
            BY <3>11
          <6>3. span(ms[t][k]) \cap span(ms[s][h]) = {}
            BY <2>2, <6>2, RunsApart
          <6> QED
            BY <2>2, <6>3
        <5>3. runs[t][k].len # 0
          <6>1. runs[t][k].len = 0 => LiveMaps[t][k] = D!NoRun
            BY LiveMapsAre
          <6> QED
            BY <4>5, <6>1, NoRunIsEmpty
        <5>4. x \in 1 .. D!MapSize
          BY <4>4, <4>5, <5>3 DEF Table
        <5> QED
          BY <3>2, <4>5, <5>1, <5>2, <5>4
      <4>6. EnteredOK(new, LiveMaps[t], runs[t], layout[t], Len(layout[t]))
        <5>1. layout[t] \in Bindings /\ Len(layout[t]) \in 0 .. Len(layout[t])
          BY OneLayout
        <5> QED
          BY <4>2, <4>4, <4>5, <5>1, EnteredElsewhere
      <4>7. EnteredOK(elements', LiveMaps'[t], runs'[t], layout'[t], Len(layout'[t]))
        BY <4>1, <4>6
      <4>8. \A k \in D!Kinds : runs'[t][k].len = D!CountOf(layout'[t], k)
        BY <4>1, <4>2
      <4> QED
        BY <4>3, <4>7, <4>8 DEF SetOK
    <3>12. SetOK(s)'
      <4>1. runs'[s] = a.runs /\ layout'[s] = b /\ LiveMaps'[s] = a.maps /\ elements' = new
        BY <2>2, <3>3, <3>4, <3>7
      <4>2. \A k \in D!Kinds : runs'[s][k].len = D!CountOf(layout'[s], k)
        BY <2>2, <4>1 DEF MapsFor
      <4>3. EnteredOK(elements', LiveMaps'[s], runs'[s], layout'[s], Len(layout'[s]))
        BY <3>2, <4>1
      <4>4. WrittenOK(s)'
        BY <3>4, <3>5 DEF WrittenOK
      <4> QED
        BY <4>2, <4>3, <4>4 DEF SetOK
    <3>13. AllSetsOK'
      BY <3>8, <3>9, <3>10, <3>11, <3>12 DEF AllSetsOK
    <3> QED
      BY <1>2, <3>3, <3>13 DEF SetsInv, StopsOnlyWhereKnown, D!StopsOnlyWhereKnown
  <2> QED
    BY <2>6, <2>7
<1> QED
  BY <1>11, <1>12

-----------------------------------------------------------------------------
LEMMA NoBindings == \E b \in Bindings : b = <<>> /\ \A x \in DOMAIN b : FALSE
<1>1. PICK b \in Bindings : b = <<>>
  BY LayoutsAre
<1>2. Len(b) = 0
  BY <1>1
<1>3. DOMAIN b = 1 .. Len(b)
  BY EachBinding
<1> QED
  BY <1>1, <1>2, <1>3

LEMMA NothingEntered ==
  ASSUME NEW els, NEW ms, NEW rs, NEW b, \A k \in D!Kinds : span(ms[k]) = {}
  PROVE  EnteredOK(els, ms, rs, b, 0)
BY DEF EnteredOK

(* A set is freed; the others do not notice.                               *)
LEMMA FreeStep ==
  ASSUME AllSetsOK, NEW s \in Sets, D!vkFreeDescriptorSets(s), stopped = ""
  PROVE  SetsInv'
<1> DEFINE none == [k \in D!Kinds |-> D!NoRun]
<1>1. /\ lists' = D!AllReturned(s)
      /\ layout' = [layout EXCEPT ![s] = <<>>]
      /\ runs' = [runs EXCEPT ![s] = none]
      /\ written' = [written EXCEPT ![s] = <<>>]
      /\ freed' = TRUE
      /\ UNCHANGED <<elements, descriptors, maps, strayed, stopped>>
  BY DEF D!vkFreeDescriptorSets
<1>2. /\ ContentsOK /\ PoolsOK(lists, runs, LiveMaps)
      /\ runs \in Runs /\ LiveMaps \in Runs /\ \A t \in Sets : SetOK(t)
  BY DEF AllSetsOK, PoolsOK
<1>3. none \in [D!Kinds -> RunRec]
  BY NoRunIsEmpty
<1>4. PoolsOK(D!AllReturned(s), WithRuns(s, none), WithMaps(s, none))
  <2>1. maps \in Runs
    BY <1>2 DEF ContentsOK
  <2> QED
    BY <1>2, <2>1, ReturnedIs
<1> HIDE DEF none
<1>5. runs'[s] = none /\ \A t \in Sets : t # s => runs'[t] = runs[t]
  BY <1>1, <1>2 DEF Runs
<1>6. layout'[s] = <<>> /\ (\A t \in Sets : t # s => layout'[t] = layout[t])
      /\ layout' \in [Sets -> Layouts \cup {<<>>}]
  BY <1>1, <1>2 DEF ContentsOK
<1>7. written'[s] = <<>> /\ (\A t \in Sets : t # s => written'[t] = written[t]) /\ DOMAIN written' = Sets
  BY <1>1, <1>2 DEF ContentsOK
<1>8. \A k \in D!Kinds : none[k] = D!NoRun /\ none[k].len = 0
  BY NoRunIsEmpty DEF none
<1>9. LiveMaps' = WithMaps(s, none)
  <2>1. ASSUME NEW t \in Sets, NEW k \in D!Kinds
        PROVE  (IF runs'[t][k].len = 0 THEN D!NoRun ELSE maps'[t][k]) = WithMaps(s, none)[t][k]
    <3>1. CASE t # s
      <4>1. LiveMaps[t][k] = IF runs[t][k].len = 0 THEN D!NoRun ELSE maps[t][k]
        BY LiveMapsAre
      <4>2. WithMaps(s, none)[t] = LiveMaps[t]
        BY <1>2, <3>1 DEF WithMaps, Runs
      <4>3. runs'[t] = runs[t] /\ maps'[t] = maps[t]
        BY <1>1, <1>5, <3>1
      <4> QED
        BY <4>1, <4>2, <4>3
    <3>2. CASE t = s
      <4>1. WithMaps(s, none)[s] = none
        BY <1>2 DEF WithMaps, Runs
      <4> QED
        BY <3>2, <4>1, <1>5, <1>8
    <3> QED
      BY <3>1, <3>2
  <2>2. LiveMaps' = [t \in Sets |-> [k \in D!Kinds |->
                       IF runs'[t][k].len = 0 THEN D!NoRun ELSE maps'[t][k]]]
    BY DEF LiveMaps, D!NoRun, D!Run
  <2>3. PICK ms : ms = WithMaps(s, none)
    OBVIOUS
  <2>4. ms \in Runs
    BY <1>2, <1>3, <2>3 DEF WithMaps, Runs
  <2>5. ms = [t \in Sets |-> [k \in D!Kinds |-> ms[t][k]]]
    BY <2>4 DEF Runs
  <2> QED
    BY <2>1, <2>2, <2>3, <2>5
<1>10. PoolsOK(lists', runs', LiveMaps')
  BY <1>1, <1>4, <1>9 DEF WithRuns
<1>11. ContentsOK'
  BY <1>1, <1>2, <1>6, <1>7 DEF ContentsOK
<1>12. ASSUME NEW t \in Sets, t # s  PROVE  SetOK(t)'
  <2>1. /\ runs'[t] = runs[t] /\ layout'[t] = layout[t] /\ written'[t] = written[t]
        /\ descriptors' = descriptors /\ elements' = elements
    BY <1>1, <1>5, <1>6, <1>7, <1>12
  <2>2. LiveMaps'[t] = LiveMaps[t]
    BY <1>2, <1>9, <1>12 DEF WithMaps, Runs
  <2>3. /\ \A k \in D!Kinds : runs[t][k].len = D!CountOf(layout[t], k)
        /\ EnteredOK(elements, LiveMaps[t], runs[t], layout[t], Len(layout[t]))
        /\ WrittenOK(t)
    BY <1>2 DEF SetOK
  <2>4. WrittenOK(t)'
    BY <2>1, <2>3, WrittenKept
  <2>5. EnteredOK(elements', LiveMaps'[t], runs'[t], layout'[t], Len(layout'[t]))
    BY <2>1, <2>2, <2>3
  <2>6. \A k \in D!Kinds : runs'[t][k].len = D!CountOf(layout'[t], k)
    BY <2>1, <2>3
  <2> QED
    BY <2>4, <2>5, <2>6 DEF SetOK
<1>13. SetOK(s)'
  <2>1. \A k \in D!Kinds : runs'[s][k].len = D!CountOf(layout'[s], k)
    BY <1>5, <1>6, <1>8, NothingInNoLayout
  <2>2. EnteredOK(elements', LiveMaps'[s], runs'[s], layout'[s], Len(layout'[s]))
    <3>1. LiveMaps'[s] = none
      BY <1>2, <1>9 DEF WithMaps, Runs
    <3>2. \A k \in D!Kinds : span(LiveMaps'[s][k]) = {}
      BY <1>8, <3>1, NoRunIsEmpty
    <3>3. Len(<<>>) = 0
      OBVIOUS
    <3>4. EnteredOK(elements', LiveMaps'[s], runs'[s], <<>>, 0)
      BY <3>2, NothingEntered
    <3> QED
      BY <1>6, <3>3, <3>4
  <2>3. WrittenOK(s)'
    <3>1. PICK b \in Bindings : b = <<>> /\ \A x \in DOMAIN b : FALSE
      BY NoBindings
    <3>4. layout'[s] = b /\ written'[s] = b
      BY <1>6, <1>7, <3>1, Zenon
    <3> QED
      BY <3>1, <3>4 DEF WrittenOK
  <2> QED
    BY <2>1, <2>2, <2>3 DEF SetOK
<1>14. AllSetsOK'
  BY <1>1, <1>10, <1>11, <1>12, <1>13 DEF AllSetsOK
<1> QED
  BY <1>1, <1>14 DEF SetsInv, StopsOnlyWhereKnown, D!StopsOnlyWhereKnown

-----------------------------------------------------------------------------
(* A binding of a set is given a descriptor: what is at its place is what  *)
(* its history says, or the history knows nothing.  As no two bindings     *)
(* share a descriptor, none else is disturbed.                             *)
LEMMA Rewritten ==
  ASSUME AllSetsOK, NEW s \in Sets, NEW i \in DOMAIN layout[s], NEW j \in 0 .. layout[s][i].count - 1,
         NEW k, k = layout[s][i].kind,
         NEW v \in Values \cup {Undefined}, NEW w \in Values \cup {Undefined}, w = v \/ w = Undefined,
         descriptors' = [descriptors EXCEPT ![k][FirstDescriptor(s, i) + j] = v],
         written' = [written EXCEPT ![s][i][j] = w],
         UNCHANGED <<lists, elements, layout, runs, maps, freed>>
  PROVE  AllSetsOK'
<1>1. /\ ContentsOK /\ PoolsOK(lists, runs, LiveMaps) /\ \A t \in Sets : SetOK(t)
  BY DEF AllSetsOK
<1>2. k \in D!Kinds /\ FirstDescriptor(s, i) + j \in 1 .. PoolSize[k]
  BY DescriptorFound
<1>3. PICK x : x = FirstDescriptor(s, i) + j
  OBVIOUS
<1>4. descriptors \in Contents
  BY <1>1 DEF ContentsOK
<1>5. \A h \in D!Kinds : descriptors[h] \in Holding(h)
  BY <1>4 DEF Contents
<1>6. PICK row : row = [descriptors[k] EXCEPT ![x] = v]
  OBVIOUS
<1>7. /\ row \in Holding(k) /\ row[x] = v
      /\ \A y \in 1 .. PoolSize[k] : y # x => row[y] = descriptors[k][y]
  BY <1>2, <1>3, <1>5, <1>6 DEF Holding
<1>8. descriptors' = [descriptors EXCEPT ![k] = row]
  BY <1>3, <1>6
<1>9. descriptors' \in Contents /\ descriptors'[k] = row
      /\ \A h \in D!Kinds : h # k => descriptors'[h] = descriptors[h]
  <2>1. DOMAIN descriptors = D!Kinds /\ descriptors \in [D!Kinds -> UNION {Holding(h) : h \in D!Kinds}]
    BY <1>4 DEF Contents
  <2>2. descriptors'[k] = row /\ \A h \in D!Kinds : h # k => descriptors'[h] = descriptors[h]
    BY <1>2, <1>8, <2>1
  <2>3. row \in UNION {Holding(h) : h \in D!Kinds}
    BY <1>2, <1>7
  <2>4. descriptors' \in [D!Kinds -> UNION {Holding(h) : h \in D!Kinds}]
    BY <1>8, <2>1, <2>3
  <2>5. \A h \in D!Kinds : descriptors'[h] \in Holding(h)
    BY <1>5, <1>7, <2>2
  <2> QED
    BY <2>2, <2>4, <2>5 DEF Contents
<1>10. \A t \in Sets : WrittenOK(t)
  BY <1>1 DEF SetOK
<1>11. written'[s] = [written[s] EXCEPT ![i][j] = w] /\ DOMAIN written' = Sets
       /\ \A t \in Sets : t # s => written'[t] = written[t]
  <2>1. DOMAIN written = Sets
    BY <1>1 DEF ContentsOK
  <2> QED
    BY <2>1
<1>12. /\ DOMAIN written[s] = DOMAIN layout[s]
       /\ \A h \in DOMAIN layout[s] : written[s][h] \in [0 .. layout[s][h].count - 1 -> Values \cup {Undefined}]
  BY <1>10 DEF WrittenOK
<1>13. PICK o : o = [written[s][i] EXCEPT ![j] = w]
  OBVIOUS
<1>14. /\ o \in [0 .. layout[s][i].count - 1 -> Values \cup {Undefined}] /\ o[j] = w
       /\ \A c \in 0 .. layout[s][i].count - 1 : c # j => o[c] = written[s][i][c]
  BY <1>12, <1>13
<1>15. /\ DOMAIN written'[s] = DOMAIN layout[s] /\ written'[s][i] = o
       /\ \A h \in DOMAIN layout[s] : h # i => written'[s][h] = written[s][h]
  <2>1. written'[s] = [written[s] EXCEPT ![i] = o]
    BY <1>11, <1>13
  <2> QED
    BY <1>12, <2>1
<1>16. \A t \in Sets : \A h : FirstDescriptor(t, h)' = FirstDescriptor(t, h)
  BY DEF FirstDescriptor
<1>17. ASSUME NEW t \in Sets, NEW h \in DOMAIN layout[t], NEW c \in 0 .. layout[t][h].count - 1
       PROVE  \/ written'[t][h][c] = Undefined
              \/ descriptors'[layout[t][h].kind][FirstDescriptor(t, h) + c] = written'[t][h][c]
  <2>1. CASE t = s /\ h = i /\ c = j
    BY <2>1, <1>3, <1>7, <1>9, <1>14, <1>15
  <2>2. CASE ~ (t = s /\ h = i /\ c = j)
    <3>1. \/ written[t][h][c] = Undefined
          \/ descriptors[layout[t][h].kind][FirstDescriptor(t, h) + c] = written[t][h][c]
      BY <1>10 DEF WrittenOK
    <3>2. written'[t][h][c] = written[t][h][c]
      BY <2>2, <1>11, <1>14, <1>15
    <3>3. PICK g, y : g \in D!Kinds /\ g = layout[t][h].kind /\ y = FirstDescriptor(t, h) + c
                                  /\ y \in 1 .. PoolSize[g]
      BY DescriptorFound
    <3>4. ASSUME g = k, y = x  PROVE FALSE
      <4>1. layout[t][h].kind = layout[s][i].kind /\ FirstDescriptor(t, h) + c = FirstDescriptor(s, i) + j
        BY <1>3, <3>3, <3>4
      <4>2. t = s /\ h = i /\ c = j
        BY <4>1, PlacesApart
      <4> QED
        BY <2>2, <4>2
    <3>5. descriptors'[g][y] = descriptors[g][y]
      BY <1>7, <1>9, <3>3, <3>4
    <3> QED
      BY <3>1, <3>2, <3>3, <3>5
  <2> QED
    BY <2>1, <2>2
<1>18. ASSUME NEW t \in Sets  PROVE  WrittenOK(t)'
  <2>1. DOMAIN written'[t] = DOMAIN layout[t]
    BY <1>10, <1>11, <1>15 DEF WrittenOK
  <2>2. \A h \in DOMAIN layout[t] : written'[t][h] \in [0 .. layout[t][h].count - 1 -> Values \cup {Undefined}]
    <3>1. CASE t = s
      BY <3>1, <1>12, <1>14, <1>15
    <3>2. CASE t # s
      BY <3>2, <1>10, <1>11 DEF WrittenOK
    <3> QED
      BY <3>1, <3>2
  <2> QED
    BY <1>16, <1>17, <2>1, <2>2 DEF WrittenOK
<1>19. LiveMaps' = LiveMaps
  BY DEF LiveMaps, D!NoRun, D!Run
<1>20. \A t \in Sets : SetOK(t)'
  BY <1>1, <1>18, <1>19 DEF SetOK
<1>21. ContentsOK'
  BY <1>1, <1>9, <1>11 DEF ContentsOK
<1> QED
  BY <1>1, <1>19, <1>20, <1>21 DEF AllSetsOK

(* A place the application may name.                                       *)
LEMMA PlacesAre ==
  ASSUME AllSetsOK, NEW s \in Sets, NEW p \in D!Places(s)
  PROVE  p[1] \in DOMAIN layout[s] /\ p[2] \in 0 .. layout[s][p[1]].count - 1
<1>1. p[1] \in DOMAIN layout[s]
  BY OneLayout DEF D!Places
<1>2. layout[s][p[1]].count \in Nat
  BY <1>1, OneLayout
<1>3. p[2] \in 0 .. 15 /\ p[2] < layout[s][p[1]].count
  BY DEF D!Places
<1> QED
  BY <1>1, <1>2, <1>3

LEMMA WriteStep ==
  ASSUME AllSetsOK, NEW s \in Sets, NEW i \in DOMAIN layout[s], NEW j \in 0 .. layout[s][i].count - 1,
         NEW v \in Values, D!write(s, i, j, v), stopped = ""
  PROVE  SetsInv'
<1>1. PICK k : k = layout[s][i].kind
  OBVIOUS
<1>2. D!getMapElement(elements, maps[s][k], layout[s][i].binding) = FirstDescriptor(s, i)
  BY <1>1, DescriptorFound
<1>3. /\ descriptors' = [descriptors EXCEPT ![k][FirstDescriptor(s, i) + j] = v]
      /\ written' = [written EXCEPT ![s][i][j] = v]
      /\ UNCHANGED <<lists, elements, layout, runs, maps, freed, strayed, stopped>>
  BY <1>1, <1>2 DEF D!write
<1>4. AllSetsOK'
  BY <1>1, <1>3, Rewritten
<1> QED
  BY <1>3, <1>4 DEF SetsInv, StopsOnlyWhereKnown, D!StopsOnlyWhereKnown

-----------------------------------------------------------------------------
(* Copying a descriptor, one kind after the other.                         *)
Copying == [desc : Contents, outcome : {"", "copy astray", "copy hung"}]

LEMMA FoundIs ==
  ASSUME ContentsOK, NEW s \in Sets, NEW k \in D!Kinds, NEW n \in Nat
  PROVE  /\ D!found(s, k, n) \in Nat \cup {-1}
         /\ D!found(s, k, n) = -1 => ~ D!Spare(s, k) \/ maps[s][k] = D!NoRun
<1>1. PICK m : m = maps[s][k]
  OBVIOUS
<1>2. CASE m = D!NoRun
  BY <1>1, <1>2 DEF D!found
<1>3. CASE m # D!NoRun
  <2>1. Table(m) /\ elements \in Els
    BY <1>1, <1>3 DEF ContentsOK
  <2>2. D!found(s, k, n) = D!getMapElement(elements, m, n)
    BY <1>1, <1>3 DEF D!found
  <2>3. \/ D!found(s, k, n) = -1 /\ \A x \in span(m) : elements[x].data # 0
        \/ D!found(s, k, n) \in Nat
    BY <2>1, <2>2, LookUp
  <2>4. ASSUME \A x \in span(m) : elements[x].data # 0  PROVE  ~ D!Spare(s, k)
    <3>1. \A i \in 0 .. m.len - 1 : m.first + i \in span(m)
      BY <2>1 DEF span, Table, RunRec
    <3> QED
      BY <1>1, <2>4, <3>1 DEF D!Spare
  <2> QED
    BY <2>3, <2>4
<1> QED
  BY <1>2, <1>3

(* What may come of it.                                                    *)
CopyCase(c, d, k, src, j, dst, jd, from, to) ==
  \/ c = D!astray(d) /\ (maps[src][k] = D!NoRun \/ (from > 0 /\ (maps[dst][k] = D!NoRun \/ to = 0)))
  \/ c = D!hung(d) /\ ((maps[src][k] # D!NoRun /\ from = -1) \/ (maps[dst][k] # D!NoRun /\ to = -1))
  \/ c = d /\ from = 0
  \/ c = D!moved(d, k, from + j, to + jd) /\ from > 0 /\ to > 0

LEMMA CopiedCases ==
  ASSUME NEW d, NEW k, NEW src, NEW sb, NEW j, NEW dst, NEW db, NEW jd, NEW c,
         c = D!Copied(d, k, src, sb, j, dst, db, jd),
         NEW from \in Nat \cup {-1}, from = D!found(src, k, sb),
         NEW to \in Nat \cup {-1}, to = D!found(dst, k, db)
  PROVE  CopyCase(c, d, k, src, j, dst, jd, from, to)
<1> SUFFICES \/ c = D!astray(d) /\ (maps[src][k] = D!NoRun \/ (from > 0 /\ (maps[dst][k] = D!NoRun \/ to = 0)))
             \/ c = D!hung(d) /\ ((maps[src][k] # D!NoRun /\ from = -1) \/ (maps[dst][k] # D!NoRun /\ to = -1))
             \/ c = d /\ from = 0
             \/ c = D!moved(d, k, from + j, to + jd) /\ from > 0 /\ to > 0
  BY DEF CopyCase
<1>1. PICK x, y, z : x = D!astray(d) /\ y = D!hung(d) /\ z = D!moved(d, k, from + j, to + jd)
  OBVIOUS
<1>2. PICK p, q, none : p = maps[src][k] /\ q = maps[dst][k] /\ none = D!NoRun
  OBVIOUS
<1>3. c = CASE p = none -> x
            [] p # none /\ from = -1 -> y
            [] from = 0 -> d
            [] from > 0 /\ q = none -> x
            [] from > 0 /\ q # none /\ to = -1 -> y
            [] from > 0 /\ to = 0 -> x
            [] from > 0 /\ to > 0 -> z
  BY <1>1, <1>2 DEF D!Copied
<1>4. (p = none => from = -1) /\ (q = none => to = -1)
  BY <1>2 DEF D!found
<1>5. CASE p = none
  <2>1. c = x
    BY <1>3, <1>4, <1>5
  <2>2. c = D!astray(d) /\ maps[src][k] = D!NoRun
    BY <1>1, <1>2, <1>5, <2>1
  <2> QED
    BY <2>2, Zenon
<1>6. CASE p # none /\ from = -1
  <2>1. c = y
    BY <1>3, <1>6
  <2>2. c = D!hung(d) /\ maps[src][k] # D!NoRun /\ from = -1
    BY <1>1, <1>2, <1>6, <2>1
  <2> QED
    BY <2>2, Zenon
<1>7. CASE p # none /\ from = 0
  <2>1. c = d
    BY <1>3, <1>7
  <2> QED
    BY <1>7, <2>1
<1>8. CASE p # none /\ from > 0 /\ q = none
  <2>1. c = x
    BY <1>3, <1>4, <1>8
  <2> QED
    BY <1>1, <1>2, <1>8, <2>1
<1>9. CASE p # none /\ from > 0 /\ q # none /\ to = -1
  <2>1. c = y
    BY <1>3, <1>9
  <2> QED
    BY <1>1, <1>2, <1>9, <2>1
<1>10. CASE p # none /\ from > 0 /\ q # none /\ to = 0
  <2>1. c = x
    BY <1>3, <1>10
  <2> QED
    BY <1>1, <1>2, <1>10, <2>1
<1>11. CASE p # none /\ from > 0 /\ q # none /\ to > 0
  <2>1. c = z
    BY <1>3, <1>11
  <2> QED
    BY <1>1, <1>11, <2>1
<1> QED
  BY <1>5, <1>6, <1>7, <1>8, <1>9, <1>10, <1>11

(* Contents with one descriptor moved.                                     *)
LEMMA MovedIsTyped ==
  ASSUME NEW d \in Contents, NEW k \in D!Kinds, NEW x \in 1 .. PoolSize[k], NEW y \in 1 .. PoolSize[k]
  PROVE  [d EXCEPT ![k][y] = d[k][x]] \in Contents
<1>1. \A h \in D!Kinds : d[h] \in Holding(h)
  BY DEF Contents
<1>2. PICK row : row = [d[k] EXCEPT ![y] = d[k][x]]
  OBVIOUS
<1>3. row \in Holding(k)
  <2>1. d[k][x] \in Values \cup {Undefined}
    BY <1>1 DEF Holding
  <2> QED
    BY <1>1, <1>2, <2>1 DEF Holding
<1>4. PICK new : new = [d EXCEPT ![k] = row]
  OBVIOUS
<1>5. d \in [D!Kinds -> UNION {Holding(h) : h \in D!Kinds}]
  BY DEF Contents
<1>6. new \in [D!Kinds -> UNION {Holding(h) : h \in D!Kinds}]
  <2>1. row \in UNION {Holding(h) : h \in D!Kinds}
    BY <1>3
  <2> QED
    BY <1>4, <1>5, <2>1
<1>7. \A h \in D!Kinds : new[h] \in Holding(h)
  BY <1>1, <1>3, <1>4, <1>5
<1>8. new \in Contents
  BY <1>6, <1>7 DEF Contents
<1> QED
  BY <1>2, <1>4, <1>8

(* How a copy goes.                                                        *)
Going(d) == d.outcome = ""
Hung(d) == d.outcome = "copy hung"
Astray(d) == d.outcome = "copy astray"

LEMMA OneOutcome ==
  ASSUME NEW d \in Copying
  PROVE  /\ Going(d) \/ Hung(d) \/ Astray(d)
         /\ ~ (Going(d) /\ Hung(d)) /\ ~ (Going(d) /\ Astray(d)) /\ ~ (Hung(d) /\ Astray(d))
<1>1. d.outcome \in {"", "copy astray", "copy hung"}
  BY DEF Copying
<1> QED
  BY <1>1 DEF Going, Hung, Astray

LEMMA OutcomesAre ==
  ASSUME NEW d \in Copying
  PROVE  /\ D!hung(d) \in Copying /\ Hung(D!hung(d)) /\ D!astray(d) \in Copying /\ Astray(D!astray(d))
<1>1. D!hung(d).outcome = "copy hung" /\ D!astray(d).outcome = "copy astray"
  BY DEF Copying, D!hung, D!astray
<1>2. D!hung(d) \in Copying /\ D!astray(d) \in Copying
  BY DEF Copying, D!hung, D!astray
<1> QED
  BY <1>1, <1>2 DEF Hung, Astray

LEMMA MovedInside ==
  ASSUME NEW d \in Copying, NEW k \in D!Kinds, NEW x \in 1 .. PoolSize[k], NEW y \in 1 .. PoolSize[k],
         NEW c, c = D!moved(d, k, x, y)
  PROVE  /\ c \in Copying /\ (Hung(c) => Hung(d)) /\ (Going(d) => Going(c))
         /\ c.desc = [d.desc EXCEPT ![k][y] = d.desc[k][x]]
<1>1. d.desc \in Contents /\ d.outcome \in {"", "copy astray", "copy hung"}
  BY DEF Copying
<1>2. PICK desc : desc = [d.desc EXCEPT ![k][y] = d.desc[k][x]]
  OBVIOUS
<1>3. desc \in Contents
  BY <1>1, <1>2, MovedIsTyped
<1>4. c = [d EXCEPT !.desc = desc]
  BY <1>2 DEF D!moved
<1>5. c \in Copying /\ c.outcome = d.outcome /\ c.desc = desc
  BY <1>1, <1>3, <1>4 DEF Copying
<1>6. (Hung(c) => Hung(d)) /\ (Going(d) => Going(c))
  BY <1>5 DEF Hung, Going
<1> QED
  BY <1>2, <1>5, <1>6

LEMMA MovedOutcome ==
  ASSUME NEW d \in Copying, NEW k \in D!Kinds, NEW x, NEW y
  PROVE  D!moved(d, k, x, y) \in Copying /\ (Hung(D!moved(d, k, x, y)) => Hung(d))
<1>1. CASE x \in 1 .. PoolSize[k] /\ y \in 1 .. PoolSize[k]
  BY <1>1, MovedInside
<1>2. CASE ~ (x \in 1 .. PoolSize[k] /\ y \in 1 .. PoolSize[k])
  <2>1. D!moved(d, k, x, y) = D!astray(d)
    BY <1>2 DEF D!moved
  <2> QED
    BY <2>1, OutcomesAre, OneOutcome
<1> QED
  BY <1>1, <1>2

LEMMA CopiedIsTyped ==
  ASSUME ContentsOK, NEW src \in Sets, NEW dst \in Sets, NEW sb \in Nat, NEW db \in Nat,
         NEW j, NEW jd, NEW d \in Copying, NEW k \in D!Kinds,
         NEW c, c = D!Copied(d, k, src, sb, j, dst, db, jd)
  PROVE  /\ c \in Copying
         /\ Hung(c) => Hung(d) \/ ~ D!Spare(src, k) \/ ~ D!Spare(dst, k)
<1>1. PICK from \in Nat \cup {-1}, to \in Nat \cup {-1} : from = D!found(src, k, sb) /\ to = D!found(dst, k, db)
  BY FoundIs
<1>2. /\ from = -1 => ~ D!Spare(src, k) \/ maps[src][k] = D!NoRun
      /\ to = -1 => ~ D!Spare(dst, k) \/ maps[dst][k] = D!NoRun
  BY <1>1, FoundIs
<1>3. \/ c = D!astray(d)
      \/ c = D!hung(d) /\ ((maps[src][k] # D!NoRun /\ from = -1) \/ (maps[dst][k] # D!NoRun /\ to = -1))
      \/ c = d
      \/ c = D!moved(d, k, from + j, to + jd)
  <2>1. CopyCase(c, d, k, src, j, dst, jd, from, to)
    BY <1>1, CopiedCases
  <2> QED
    BY <2>1 DEF CopyCase
<1>4. D!astray(d) \in Copying /\ ~ Hung(D!astray(d)) /\ D!hung(d) \in Copying
  BY OutcomesAre, OneOutcome
<1>5. CASE c = D!moved(d, k, from + j, to + jd)
  <2>1. PICK x, y : x = from + j /\ y = to + jd
    OBVIOUS
  <2>2. D!moved(d, k, x, y) \in Copying /\ (Hung(D!moved(d, k, x, y)) => Hung(d))
    BY MovedOutcome
  <2> QED
    BY <1>5, <2>1, <2>2
<1> QED
  BY <1>2, <1>3, <1>4, <1>5
(* The set has descriptors of every kind.                                  *)
Whole(s) == \A h \in D!Kinds : runs[s][h] # D!NoRun

LEMMA WholeHasMaps ==
  ASSUME AllSetsOK, NEW s \in Sets, NEW k \in D!Kinds, runs[s][k] # D!NoRun
  PROVE  /\ runs[s][k].len # 0 /\ maps[s][k] # D!NoRun
         /\ \A n : D!found(s, k, n) = D!getMapElement(elements, maps[s][k], n)
<1>1. PoolsOK(lists, runs, LiveMaps)
  BY DEF AllSetsOK
<1>2. runs[s][k].len # 0
  BY <1>1 DEF PoolsOK
<1>3. LiveMaps[s][k] = maps[s][k]
  BY <1>2, LiveMapsAre
<1>4. Table(maps[s][k])
  BY <1>1, <1>2, <1>3, TablesOfPool
<1>5. maps[s][k] # D!NoRun
  BY <1>4, NoRunIsEmpty DEF Table
<1> QED
  BY <1>2, <1>5 DEF D!found

(* Where the descriptors of a copy are.                                    *)
Copies(src, i, j, dst, ib, jd) ==
  /\ i \in DOMAIN layout[src] /\ j \in 0 .. layout[src][i].count - 1
  /\ ib \in DOMAIN layout[dst] /\ jd \in 0 .. layout[dst][ib].count - 1
  /\ layout[src][i].kind = layout[dst][ib].kind

(* A copy of whole sets moves one descriptor, of the kind of the bindings.  *)
MovedBy(desc, k, src, i, j, dst, ib, jd) ==
  IF k = layout[src][i].kind
  THEN [desc EXCEPT ![k][FirstDescriptor(dst, ib) + jd] = desc[k][FirstDescriptor(src, i) + j]]
  ELSE desc

MovedOnce(c, d, k, src, i, j, dst, ib, jd) ==
  /\ ~ Astray(c)
  /\ Going(c) => c.desc = MovedBy(d.desc, k, src, i, j, dst, ib, jd)

LEMMA CopiedOne ==
  ASSUME AllSetsOK, NEW src \in Sets, NEW dst \in Sets, Whole(src), Whole(dst),
         NEW i \in Nat, NEW j \in Nat, NEW ib \in Nat, NEW jd \in Nat, Copies(src, i, j, dst, ib, jd),
         NEW sb \in Nat, sb = layout[src][i].binding, NEW db \in Nat, db = layout[dst][ib].binding,
         NEW k \in D!Kinds, NEW d \in Copying, Going(d),
         NEW c, c = D!Copied(d, k, src, sb, j, dst, db, jd)
  PROVE  MovedOnce(c, d, k, src, i, j, dst, ib, jd)
<1> SUFFICES ~ Astray(c) /\ (Going(c) => c.desc = MovedBy(d.desc, k, src, i, j, dst, ib, jd))
  BY DEF MovedOnce
<1>1. /\ i \in DOMAIN layout[src] /\ j \in 0 .. layout[src][i].count - 1
      /\ ib \in DOMAIN layout[dst] /\ jd \in 0 .. layout[dst][ib].count - 1
      /\ layout[src][i].kind = layout[dst][ib].kind
  BY DEF Copies
<1>2. /\ runs[src][k].len # 0 /\ maps[src][k] # D!NoRun
      /\ runs[dst][k].len # 0 /\ maps[dst][k] # D!NoRun
      /\ runs[src][k] # D!NoRun /\ runs[dst][k] # D!NoRun
  BY WholeHasMaps DEF Whole
<1>4. ContentsOK
  BY DEF AllSetsOK
<1>5. PICK from \in Nat \cup {-1}, to \in Nat \cup {-1} : from = D!found(src, k, sb) /\ to = D!found(dst, k, db)
  BY <1>4, FoundIs
<1>6. /\ from = D!getMapElement(elements, maps[src][k], sb)
      /\ to = D!getMapElement(elements, maps[dst][k], db)
  BY <1>2, <1>5, WholeHasMaps
<1>11. \/ c = D!astray(d) /\ (maps[src][k] = D!NoRun \/ (from > 0 /\ (maps[dst][k] = D!NoRun \/ to = 0)))
       \/ c = D!hung(d) /\ ((maps[src][k] # D!NoRun /\ from = -1) \/ (maps[dst][k] # D!NoRun /\ to = -1))
       \/ c = d /\ from = 0
       \/ c = D!moved(d, k, from + j, to + jd) /\ from > 0 /\ to > 0
  <2>1. CopyCase(c, d, k, src, j, dst, jd, from, to)
    BY <1>5, CopiedCases
  <2> QED
    BY <2>1 DEF CopyCase
<1>12. PICK A, H, M : A = D!astray(d) /\ H = D!hung(d) /\ M = D!moved(d, k, from + j, to + jd)
  OBVIOUS
<1>13. PICK none, p, q : none = D!NoRun /\ p = maps[src][k] /\ q = maps[dst][k]
  OBVIOUS
<1>14. p # none /\ q # none
  BY <1>2, <1>13
<1>15. \/ c = A /\ (p = none \/ (from > 0 /\ (q = none \/ to = 0)))
       \/ c = H /\ ((p # none /\ from = -1) \/ (q # none /\ to = -1))
       \/ c = d /\ from = 0
       \/ c = M /\ from > 0 /\ to > 0
  BY <1>11, <1>12, <1>13
<1>8. \/ c = A /\ from > 0 /\ to = 0
      \/ c = H /\ (from = -1 \/ to = -1)
      \/ c = d /\ from = 0
      \/ c = M /\ from > 0 /\ to > 0
  BY <1>14, <1>15
<1>9. CASE k # layout[src][i].kind
  <2>1. from \in {-1, 0}
    BY <1>1, <1>2, <1>6, <1>9, NotOfOtherKinds
  <2>2. MovedBy(d.desc, k, src, i, j, dst, ib, jd) = d.desc
    BY <1>9 DEF MovedBy
  <2>3. H \in Copying /\ ~ Astray(H) /\ ~ Going(H)
    BY <1>12, OutcomesAre, OneOutcome
  <2>7. ~ Astray(d)
    BY OneOutcome
  <2>4. (c = H /\ (from = -1 \/ to = -1)) \/ (c = d /\ from = 0)
    BY <1>8, <2>1
  <2>5. CASE c = H
    BY <2>3, <2>5
  <2>6. CASE c = d
    BY <2>2, <2>6, <2>7
  <2> QED
    BY <2>4, <2>5, <2>6
<1>10. CASE k = layout[src][i].kind
  <2>1. PICK x \in Nat \ {0}, y \in Nat \ {0} : x = FirstDescriptor(src, i) /\ y = FirstDescriptor(dst, ib)
    BY <1>1, DescriptorFound
  <2>2. from = x /\ to = y /\ x + j \in 1 .. PoolSize[k] /\ y + jd \in 1 .. PoolSize[k]
    BY <1>1, <1>6, <1>10, <2>1, DescriptorFound
  <2>3. c = M /\ M = D!moved(d, k, x + j, y + jd)
    <3>1. from > 0 /\ to > 0
      BY <2>1, <2>2
    <3>2. c = M
      BY <1>8, <3>1
    <3> QED
      BY <1>12, <2>2, <3>2
  <2>4. PICK g, h : g = x + j /\ h = y + jd
    OBVIOUS
  <2>5. c \in Copying /\ Going(c) /\ c.desc = [d.desc EXCEPT ![k][h] = d.desc[k][g]]
    <3>1. g \in 1 .. PoolSize[k] /\ h \in 1 .. PoolSize[k]
      BY <2>2, <2>4
    <3>2. c = D!moved(d, k, g, h)
      BY <2>3, <2>4
    <3> QED
      BY <3>1, <3>2, MovedInside
  <2>6. MovedBy(d.desc, k, src, i, j, dst, ib, jd) = [d.desc EXCEPT ![k][h] = d.desc[k][g]]
    BY <1>10, <2>1, <2>4 DEF MovedBy
  <2> QED
    BY <2>5, <2>6, OneOutcome
<1> QED
  BY <1>9, <1>10

(* The first n kinds are copied.                                           *)
CopiedUpTo(src, i, j, dst, ib, jd, n, c) ==
  /\ Hung(c) => \E h \in D!Kinds : ~ D!Spare(src, h) \/ ~ D!Spare(dst, h)
  /\ Whole(src) /\ Whole(dst) =>
       /\ ~ Astray(c)
       /\ Going(c) =>
            c.desc = IF \E h \in 1 .. n : KindOrder[h] = layout[src][i].kind
                     THEN MovedBy(descriptors, layout[src][i].kind, src, i, j, dst, ib, jd)
                     ELSE descriptors

LEMMA CopyingStep ==
  ASSUME AllSetsOK, NEW src \in Sets, NEW dst \in Sets,
         NEW i \in Nat, NEW j \in Nat, NEW ib \in Nat, NEW jd \in Nat, Copies(src, i, j, dst, ib, jd),
         NEW n \in 1 .. Len(KindOrder), NEW d \in Copying, CopiedUpTo(src, i, j, dst, ib, jd, n - 1, d),
         NEW c, c = IF ~ Going(d) THEN d
                    ELSE D!Copied(d, KindOrder[n], src, layout[src][i].binding, j, dst, layout[dst][ib].binding, jd)
  PROVE  c \in Copying /\ CopiedUpTo(src, i, j, dst, ib, jd, n, c)
<1>1. CASE ~ Going(d)
  <2>1. c = d
    BY <1>1
  <2> QED
    BY <1>1, <2>1 DEF CopiedUpTo
<1>2. CASE Going(d)
  <2>1. PICK k \in D!Kinds : k = KindOrder[n]
    BY KindsInOrder
  <2>2. PICK sb \in Nat, db \in Nat : sb = layout[src][i].binding /\ db = layout[dst][ib].binding
    BY OneLayout DEF Copies
  <2>3. c = D!Copied(d, k, src, sb, j, dst, db, jd)
    BY <1>2, <2>1, <2>2
  <2>4. /\ c \in Copying
        /\ Hung(c) => ~ D!Spare(src, k) \/ ~ D!Spare(dst, k)
    <3>1. ContentsOK
      BY DEF AllSetsOK
    <3>2. /\ c \in Copying
          /\ Hung(c) => Hung(d) \/ ~ D!Spare(src, k) \/ ~ D!Spare(dst, k)
      BY <2>3, <3>1, CopiedIsTyped
    <3> QED
      BY <1>2, <3>2, OneOutcome
  <2>5. ASSUME Whole(src), Whole(dst)
        PROVE  /\ ~ Astray(c)
               /\ Going(c) =>
                    c.desc = IF \E h \in 1 .. n : KindOrder[h] = layout[src][i].kind
                             THEN MovedBy(descriptors, layout[src][i].kind, src, i, j, dst, ib, jd)
                             ELSE descriptors
    <3>1. PICK kind : kind = layout[src][i].kind
      OBVIOUS
    <3>2. d.desc = IF \E h \in 1 .. n - 1 : KindOrder[h] = kind
                   THEN MovedBy(descriptors, kind, src, i, j, dst, ib, jd) ELSE descriptors
      BY <1>2, <2>5, <3>1 DEF CopiedUpTo
    <3>3. /\ ~ Astray(c)
          /\ Going(c) => c.desc = MovedBy(d.desc, k, src, i, j, dst, ib, jd)
      <4>1. MovedOnce(c, d, k, src, i, j, dst, ib, jd)
        BY <1>2, <2>2, <2>3, <2>5, CopiedOne
      <4> QED
        BY <4>1 DEF MovedOnce
    <3>4. CASE k = kind
      <4>1. ASSUME NEW h \in 1 .. n - 1, KindOrder[h] = kind  PROVE  FALSE
        <5>1. h \in 1 .. Len(KindOrder) /\ h # n
          BY KindsInOrder
        <5>2. KindOrder[h] = KindOrder[n]
          BY <2>1, <3>4, <4>1
        <5> QED
          BY <5>1, <5>2, KindsInOrder
      <4>2. n \in 1 .. n
        BY KindsInOrder
      <4> QED
        BY <2>1, <3>1, <3>2, <3>3, <3>4, <4>1, <4>2
    <3>5. CASE k # kind
      <4>1. MovedBy(d.desc, k, src, i, j, dst, ib, jd) = d.desc
        BY <3>1, <3>5 DEF MovedBy
      <4>2. (\E h \in 1 .. n : KindOrder[h] = kind) <=> \E h \in 1 .. n - 1 : KindOrder[h] = kind
        BY <2>1, <3>5, KindsInOrder
      <4> QED
        BY <3>1, <3>2, <3>3, <4>1, <4>2
    <3> QED
      BY <3>4, <3>5
  <2> QED
    BY <2>4, <2>5 DEF CopiedUpTo
<1> QED
  BY <1>1, <1>2

(* All kinds, one after the other.                                         *)
LEMMA CopiedOverIs ==
  ASSUME AllSetsOK, NEW src \in Sets, NEW dst \in Sets,
         NEW i \in Nat, NEW j \in Nat, NEW ib \in Nat, NEW jd \in Nat, Copies(src, i, j, dst, ib, jd),
         NEW r, r = D!CopiedOver(src, layout[src][i].binding, j, dst, layout[dst][ib].binding, jd)
  PROVE  r \in Copying /\ CopiedUpTo(src, i, j, dst, ib, jd, Len(KindOrder), r)
<1>1. PICK m \in Nat : m = Len(KindOrder)
  BY KindsInOrder
<1>2. PICK a : a = [desc |-> descriptors, outcome |-> ""]
  OBVIOUS
<1>3. a \in Copying
  BY <1>2 DEF AllSetsOK, ContentsOK, Copying
<1>4. CopiedUpTo(src, i, j, dst, ib, jd, 0, a)
  <2>1. Going(a) /\ a.desc = descriptors
    BY <1>2 DEF Going
  <2>2. ~ Hung(a) /\ ~ Astray(a)
    BY <1>3, <2>1, OneOutcome
  <2> QED
    BY <2>1, <2>2 DEF CopiedUpTo
<1>5. PICK sb, db : sb = layout[src][i].binding /\ db = layout[dst][ib].binding
  OBVIOUS
<1> DEFINE next(d, n) == IF ~ Going(d) THEN d ELSE D!Copied(d, KindOrder[n], src, sb, j, dst, db, jd)
<1> DEFINE R == {p \in Nat \X Copying : CopiedUpTo(src, i, j, dst, ib, jd, p[1], p[2])}
<1>6. \A n \in 1 .. m, d \in Copying : next(d, n) \in Copying
  <2>1. TAKE n \in 1 .. m
  <2>2. TAKE d \in Copying
  <2>3. KindOrder[n] \in D!Kinds
    BY <1>1, KindsInOrder
  <2>4. sb \in Nat /\ db \in Nat
    BY <1>5, OneLayout DEF Copies
  <2>5. ContentsOK
    BY DEF AllSetsOK
  <2>6. D!Copied(d, KindOrder[n], src, sb, j, dst, db, jd) \in Copying
    BY <2>3, <2>4, <2>5, CopiedIsTyped
  <2> QED
    BY <2>6
<1>7. ASSUME NEW n \in 1 .. m, NEW d \in Copying, CopiedUpTo(src, i, j, dst, ib, jd, n - 1, d)
      PROVE  CopiedUpTo(src, i, j, dst, ib, jd, n, next(d, n))
  <2>1. PICK c : c = next(d, n)
    OBVIOUS
  <2>2. c = IF ~ Going(d) THEN d
            ELSE D!Copied(d, KindOrder[n], src, layout[src][i].binding, j, dst, layout[dst][ib].binding, jd)
    BY <1>5, <2>1
  <2>3. n \in 1 .. Len(KindOrder)
    BY <1>1
  <2>4. CopiedUpTo(src, i, j, dst, ib, jd, n, c)
    BY <1>7, <2>2, <2>3, CopyingStep
  <2> QED
    BY <2>1, <2>4
<1> DEFINE G == [p \in Copying \X Nat |-> IF p[2] \in 1 .. m THEN next(p[1], p[2]) ELSE p[1]]
<1>8. G \in [Copying \X Nat -> Copying] /\ \A d \in Copying, n \in 1 .. m : G[<<d, n>>] = next(d, n)
  <2>1. \A p \in Copying \X Nat : (IF p[2] \in 1 .. m THEN next(p[1], p[2]) ELSE p[1]) \in Copying
    BY <1>6
  <2>2. \A d \in Copying, n \in 1 .. m : <<d, n>> \in Copying \X Nat
    OBVIOUS
  <2> HIDE DEF next
  <2> QED
    BY <2>1, <2>2
<1>9. PICK f : Stepwise(f, Copying, a, G, m)
  <2> HIDE DEF G
  <2> QED
    BY <1>3, <1>8, StepByStep
<1> HIDE DEF G
<1>10. f \in [0 .. m -> Copying] /\ f[0] = a
  BY <1>9 DEF Stepwise
<1>11. \A n \in 1 .. m : f[n] = next(f[n - 1], n)
  <2>1. TAKE n \in 1 .. m
  <2>2. f[n - 1] \in Copying
    BY <1>10
  <2>3. G[<<f[n - 1], n>>] = next(f[n - 1], n)
    BY <2>2, <1>8
  <2> QED
    BY <2>3, <1>9 DEF Stepwise
<1> DEFINE Fits(g) == g = [n \in 0 .. m |-> IF n = 0 THEN a ELSE next(g[n - 1], n)]
<1>12. Fits(f)
  <2> HIDE DEF next
  <2>1. \A n \in 0 .. m : f[n] = IF n = 0 THEN a ELSE next(f[n - 1], n)
    BY <1>10, <1>11
  <2> QED
    BY <2>1, <1>10
<1>13. PICK g : g = CHOOSE h : Fits(h)
  OBVIOUS
<1>14. Fits(g)
  BY <1>12, <1>13
<1>15. r = g[m]
  BY <1>1, <1>2, <1>5, <1>13 DEF D!CopiedOver, D!Each, Going
<1>16. g[0] = a /\ \A n \in 1 .. m : g[n] = next(g[n - 1], n)
  <2> HIDE DEF next
  <2>1. \A n \in 0 .. m : g[n] = IF n = 0 THEN a ELSE next(g[n - 1], n)
    BY <1>14
  <2> QED
    BY <2>1
<1> HIDE DEF Fits
<1>17. <<0, g[0]>> \in R
  BY <1>3, <1>4, <1>16
<1>18. ASSUME NEW n \in 1 .. m, <<n - 1, g[n - 1]>> \in R  PROVE  <<n, g[n]>> \in R
  <2>1. PICK d \in Copying : d = g[n - 1] /\ CopiedUpTo(src, i, j, dst, ib, jd, n - 1, d)
    BY <1>18
  <2>2. next(d, n) \in Copying
    BY <1>6
  <2>3. CopiedUpTo(src, i, j, dst, ib, jd, n, next(d, n))
    BY <2>1, <1>7
  <2> HIDE DEF next
  <2> QED
    BY <2>1, <2>2, <2>3, <1>16
<1>19. <<m, g[m]>> \in R
  <2> HIDE DEF R
  <2> QED
    BY <1>17, <1>18, StepsReach
<1> QED
  BY <1>1, <1>15, <1>19

(* A descriptor is copied.                                                 *)
LEMMA CopyStep ==
  ASSUME AllSetsOK, NEW src \in Sets, NEW dst \in Sets,
         NEW i \in DOMAIN layout[src], NEW j \in 0 .. layout[src][i].count - 1,
         NEW ib \in DOMAIN layout[dst], NEW jd \in 0 .. layout[dst][ib].count - 1,
         D!copy(src, i, j, dst, ib, jd)
  PROVE  SetsInv'
<1>1. PICK r : r = D!CopiedOver(src, layout[src][i].binding, j, dst, layout[dst][ib].binding, jd)
  OBVIOUS
<1>2. /\ layout[src][i].kind = layout[dst][ib].kind
      /\ descriptors' = r.desc /\ stopped' = r.outcome
      /\ strayed' = (strayed \/ \E k \in D!Kinds : runs[src][k] = D!NoRun \/ runs[dst][k] = D!NoRun)
      /\ written' = [written EXCEPT ![dst][ib][jd] = written[src][i][j]]
      /\ UNCHANGED <<lists, elements, layout, runs, maps, freed>>
  BY <1>1 DEF D!copy
<1>3. Copies(src, i, j, dst, ib, jd)
  BY <1>2 DEF Copies
<1>4. r \in Copying /\ CopiedUpTo(src, i, j, dst, ib, jd, Len(KindOrder), r)
  <2>1. i \in Nat /\ j \in Nat /\ ib \in Nat /\ jd \in Nat
    <3>1. layout[src][i].count \in Nat /\ layout[dst][ib].count \in Nat
          /\ DOMAIN layout[src] = 1 .. Len(layout[src]) /\ Len(layout[src]) \in Nat
          /\ DOMAIN layout[dst] = 1 .. Len(layout[dst]) /\ Len(layout[dst]) \in Nat
      BY OneLayout
    <3> QED
      BY <3>1
  <2> QED
    BY <1>1, <1>3, <2>1, CopiedOverIs
<1>5. r.outcome \in {"", "copy astray", "copy hung"}
  BY <1>4 DEF Copying
<1>9. (stopped' = "" <=> Going(r)) /\ (stopped' = "copy hung" <=> Hung(r)) /\ (stopped' = "copy astray" <=> Astray(r))
  BY <1>2 DEF Going, Hung, Astray
<1>6. ~ strayed' => Whole(src) /\ Whole(dst)
  BY <1>2 DEF Whole
<1>7. StopsOnlyWhereKnown'
  <2>1. stopped' = "copy hung" => \E s \in Sets, k \in D!Kinds : layout'[s] # <<>> /\ ~ D!Spare(s, k)'
    <3>1. layout[src] # <<>> /\ layout[dst] # <<>>
      <4>1. PICK b \in Bindings : b = <<>> /\ \A x \in DOMAIN b : FALSE
        BY NoBindings
      <4> QED
        BY <4>1
    <3>2. \A s \in Sets, k \in D!Kinds : D!Spare(s, k)' = D!Spare(s, k)
      BY <1>2 DEF D!Spare, D!NoRun, D!Run
    <3>3. stopped' = "copy hung" => \E h \in D!Kinds : ~ D!Spare(src, h) \/ ~ D!Spare(dst, h)
      BY <1>4, <1>9 DEF CopiedUpTo
    <3> QED
      BY <1>2, <3>1, <3>2, <3>3
  <2>2. stopped' = "copy astray" => strayed'
    BY <1>4, <1>6, <1>9 DEF CopiedUpTo
  <2>3. stopped' # "no element" /\ stopped' # "no run"
    BY <1>2, <1>5
  <2> QED
    BY <2>1, <2>2, <2>3 DEF StopsOnlyWhereKnown, D!StopsOnlyWhereKnown
<1>8. ASSUME stopped' = "", ~ strayed'  PROVE  AllSetsOK'
  <2>1. PICK k, x, v, w : /\ k = layout[dst][ib].kind /\ x = FirstDescriptor(src, i) + j
                          /\ v = descriptors[k][x] /\ w = written[src][i][j]
    OBVIOUS
  <2>2. k \in D!Kinds /\ x \in 1 .. PoolSize[k]
    BY <1>2, <2>1, DescriptorFound
  <2>3. \E h \in 1 .. Len(KindOrder) : KindOrder[h] = k
    BY <2>2, KindsInOrder
  <2>4. r.desc = MovedBy(descriptors, k, src, i, j, dst, ib, jd)
    BY <1>2, <1>4, <1>6, <1>8, <1>9, <2>1, <2>3 DEF CopiedUpTo
  <2>5. descriptors' = [descriptors EXCEPT ![k][FirstDescriptor(dst, ib) + jd] = v]
    BY <1>2, <2>1, <2>4 DEF MovedBy
  <2>6. v \in Values \cup {Undefined}
    <3>1. descriptors[k] \in Holding(k)
      BY <2>2 DEF AllSetsOK, ContentsOK, Contents
    <3> QED
      BY <2>1, <2>2, <3>1 DEF Holding
  <2>7. w \in Values \cup {Undefined} /\ (w = Undefined \/ v = w)
    <3>1. WrittenOK(src)
      BY DEF AllSetsOK, SetOK
    <3> QED
      BY <1>2, <2>1, <3>1 DEF WrittenOK
  <2>8. written' = [written EXCEPT ![dst][ib][jd] = w]
    BY <1>2, <2>1
  <2>9. UNCHANGED <<lists, elements, layout, runs, maps, freed>>
    BY <1>2
  <2>10. w = v \/ w = Undefined
    BY <2>7
  <2>11. k = layout[dst][ib].kind /\ w \in Values \cup {Undefined}
    BY <2>1, <2>7
  <2> QED
    BY <2>5, <2>6, <2>8, <2>9, <2>10, <2>11, Rewritten
<1> QED
  BY <1>7, <1>8 DEF SetsInv

-----------------------------------------------------------------------------
(* A new pool: all blocks are on the lists, and no set has any.            *)
LEMMA NewLists ==
  ASSUME NEW n \in Nat, NEW list, list = [i \in 1 .. n |-> i]
  PROVE  ListOK(list, n) /\ Neat(list) /\ Len(list) = n
<1>1. list \in Seq(1 .. n) /\ Len(list) = n
  OBVIOUS
<1> QED
  BY <1>1 DEF ListOK, Once, Neat

LEMMA KeptByNone ==
  ASSUME NEW n \in Nat, NEW list, ListOK(list, n), NEW f, \A x \in DOMAIN f : f[x] = D!NoRun
  PROVE  Apart(list, n, f)
BY NoRunIsEmpty DEF Apart

LEMMA NewPool ==
  ASSUME NEW ls, NEW rs, NEW ms,
         ls = [k \in D!Kinds \cup {"map"} |-> [i \in 1 .. IF k = "map" THEN D!MapSize ELSE PoolSize[k] |-> i]],
         rs = [s \in Sets |-> [k \in D!Kinds |-> D!NoRun]], ms = rs
  PROVE  PoolsOK(ls, rs, ms) /\ LensOK(ls, rs)
<1>1. /\ "map" \notin D!Kinds /\ D!MapSize \in Nat /\ \A k \in D!Kinds : PoolSize[k] \in Nat
  BY NamesOfLists
<1>2. \A k \in D!Kinds : ls[k] = [i \in 1 .. PoolSize[k] |-> i]
  BY <1>1
<1>3. ls.map = [i \in 1 .. D!MapSize |-> i]
  OBVIOUS
<1>4. \A k \in D!Kinds : ListOK(ls[k], PoolSize[k]) /\ Neat(ls[k]) /\ Len(ls[k]) = PoolSize[k]
  BY <1>1, <1>2, NewLists
<1>5. ListOK(ls.map, D!MapSize) /\ Neat(ls.map) /\ Len(ls.map) = D!MapSize
  BY <1>1, <1>3, NewLists
<1>6. rs \in Runs /\ \A s \in Sets, k \in D!Kinds : rs[s][k] = D!NoRun /\ rs[s][k].len = 0
  BY NoRunIsEmpty DEF Runs
<1>7. ls \in [D!Kinds \cup {"map"} -> Seq(Nat)]
  <2>1. \A k \in D!Kinds : ls[k] \in Seq(Nat)
    BY <1>1, <1>4, BlocksAreNumbers
  <2>2. ls.map \in Seq(Nat)
    BY <1>1, <1>5, BlocksAreNumbers
  <2>3. DOMAIN ls = D!Kinds \cup {"map"} /\ ls = [k \in DOMAIN ls |-> ls[k]]
    OBVIOUS
  <2> HIDE DEF Nat
  <2> QED
    BY <2>1, <2>2, <2>3
<1>8. \A k \in D!Kinds : Apart(ls[k], PoolSize[k], Column(rs, k))
  <2>1. TAKE k \in D!Kinds
  <2>2. \A x \in DOMAIN Column(rs, k) : Column(rs, k)[x] = D!NoRun
    BY <1>6 DEF Column
  <2> QED
    BY <1>1, <1>4, <2>2, KeptByNone
<1>9. Apart(ls.map, D!MapSize, Flat(ms))
  <2>1. \A x \in DOMAIN Flat(ms) : Flat(ms)[x] = D!NoRun
    BY <1>6 DEF Flat
  <2> QED
    BY <1>1, <1>5, <2>1, KeptByNone
<1>10. PoolsOK(ls, rs, ms)
  BY <1>6, <1>7, <1>8, <1>9 DEF PoolsOK
<1>11. \A k \in D!Kinds : D!Total([s \in Sets |-> rs[s][k].len]) = 0
  <2>1. TAKE k \in D!Kinds
  <2>2. PICK f : f = [s \in Sets |-> rs[s][k].len]
    OBVIOUS
  <2>3. f \in [Sets -> Nat] /\ \A s \in Sets : f[s] = 0
    BY <1>6, <2>2
  <2>4. D!Total(f) = 0
    BY <2>3, TotalOfNone
  <2> QED
    BY <2>2, <2>4
<1>12. D!Total([k \in D!Kinds |-> Len(ls[k])]) = D!MapSize
  <2>1. PoolSize = [k \in D!Kinds |-> Len(ls[k])]
    BY <1>4, SetsAssumption
  <2> QED
    BY <2>1 DEF D!MapSize
<1>13. LensOK(ls, rs)
  <2>1. ASSUME NEW k \in D!Kinds
        PROVE  Neat(ls[k]) /\ Len(ls[k]) + D!Total([s \in Sets |-> rs[s][k].len]) = PoolSize[k]
    <3>1. PICK t : t = D!Total([s \in Sets |-> rs[s][k].len])
      OBVIOUS
    <3>2. t = 0
      BY <3>1, <1>11
    <3>3. Len(ls[k]) + t = PoolSize[k]
      BY <1>1, <1>4, <3>2
    <3> QED
      BY <1>4, <3>1, <3>3
  <2>2. Neat(ls.map) /\ Len(ls.map) = D!Total([k \in D!Kinds |-> Len(ls[k])])
    BY <1>5, <1>12
  <2> QED
    BY <2>1, <2>2 DEF LensOK
<1> QED
  BY <1>10, <1>13

LEMMA SetsStart == D!Init => SetsInv
<1> SUFFICES ASSUME D!Init  PROVE  SetsInv
  OBVIOUS
<1>1. /\ lists = [k \in D!Kinds \cup {"map"} |-> [i \in 1 .. IF k = "map" THEN D!MapSize ELSE PoolSize[k] |-> i]]
      /\ elements = [i \in 1 .. D!MapSize |-> [key |-> 0, data |-> 0]]
      /\ descriptors = [k \in D!Kinds |-> [i \in 1 .. PoolSize[k] |-> Undefined]]
      /\ layout = [s \in Sets |-> <<>>]
      /\ runs = [s \in Sets |-> [k \in D!Kinds |-> D!NoRun]]
      /\ maps = [s \in Sets |-> [k \in D!Kinds |-> D!NoRun]]
      /\ written = [s \in Sets |-> <<>>]
      /\ freed = FALSE /\ stopped = ""
  BY DEF D!Init
<1>2. LiveMaps = runs
  BY <1>1, NoRunIsEmpty DEF LiveMaps
<1>3. PoolsOK(lists, runs, LiveMaps) /\ LensOK(lists, runs)
  BY <1>1, <1>2, NewPool
<1>4. ContentsOK
  <2>1. elements \in Els
    BY <1>1 DEF Els
  <2>2. descriptors \in Contents
    <3>1. \A k \in D!Kinds : [i \in 1 .. PoolSize[k] |-> Undefined] \in Holding(k)
      BY DEF Holding
    <3>2. PICK row : row = [k \in D!Kinds |-> [i \in 1 .. PoolSize[k] |-> Undefined]]
      OBVIOUS
    <3>3. \A k \in D!Kinds : row[k] \in Holding(k)
      BY <3>1, <3>2
    <3>4. row \in [D!Kinds -> UNION {Holding(k) : k \in D!Kinds}]
      BY <3>1, <3>2
    <3> QED
      BY <1>1, <3>2, <3>3, <3>4 DEF Contents
  <2>3. layout \in [Sets -> Layouts \cup {<<>>}] /\ DOMAIN written = Sets
    BY <1>1
  <2>4. maps \in Runs /\ \A s \in Sets, k \in D!Kinds : maps[s][k] = D!NoRun
    BY <1>1, NoRunIsEmpty DEF Runs
  <2> QED
    BY <2>1, <2>2, <2>3, <2>4 DEF ContentsOK
<1>5. ASSUME NEW s \in Sets  PROVE  SetOK(s)
  <2>1. PICK b \in Bindings : b = <<>> /\ \A x \in DOMAIN b : FALSE
    BY NoBindings
  <2>2. layout[s] = b /\ written[s] = b /\ layout[s] = <<>>
    BY <1>1, <2>1, Zenon
  <2>3. \A k \in D!Kinds : runs[s][k] = D!NoRun /\ runs[s][k].len = 0
    BY <1>1, NoRunIsEmpty
  <2>4. \A k \in D!Kinds : runs[s][k].len = D!CountOf(layout[s], k)
    BY <2>2, <2>3, NothingInNoLayout
  <2>5. WrittenOK(s)
    BY <2>1, <2>2 DEF WrittenOK
  <2>6. EnteredOK(elements, LiveMaps[s], runs[s], layout[s], Len(layout[s]))
    <3>1. \A k \in D!Kinds : span(LiveMaps[s][k]) = {}
      BY <1>2, <2>3, NoRunIsEmpty
    <3>2. Len(<<>>) = 0
      OBVIOUS
    <3>3. EnteredOK(elements, LiveMaps[s], runs[s], layout[s], 0)
      BY <3>1, NothingEntered
    <3> QED
      BY <2>2, <3>2, <3>3
  <2> QED
    BY <2>4, <2>5, <2>6 DEF SetOK
<1>6. AllSetsOK
  BY <1>3, <1>4, <1>5 DEF AllSetsOK
<1> QED
  BY <1>1, <1>6 DEF SetsInv, StopsOnlyWhereKnown, D!StopsOnlyWhereKnown

(* The parts of the invariant read the state of the sets and nothing else. *)
LEMMA SetsStay == SetsInv /\ UNCHANGED setVars => SetsInv'
<1> SUFFICES ASSUME SetsInv, UNCHANGED setVars  PROVE  SetsInv'
  OBVIOUS
<1>1. UNCHANGED <<lists, elements, descriptors, layout, runs, maps, written, freed, strayed, stopped>>
  BY DEF setVars
<1>2. LiveMaps' = LiveMaps
  BY <1>1 DEF LiveMaps, D!NoRun, D!Run
<1>3. ContentsOK => ContentsOK'
  BY <1>1 DEF ContentsOK, D!NoRun, D!Run
<1>4. \A s \in Sets : SetOK(s) => SetOK(s)'
  <2>1. TAKE s \in Sets
  <2>2. WrittenOK(s) => WrittenOK(s)'
    BY <1>1, WrittenKept
  <2> QED
    BY <1>1, <1>2, <2>2 DEF SetOK
<1>5. AllSetsOK => AllSetsOK'
  BY <1>1, <1>2, <1>3, <1>4 DEF AllSetsOK
<1>6. StopsOnlyWhereKnown => StopsOnlyWhereKnown'
  BY <1>1 DEF StopsOnlyWhereKnown, D!StopsOnlyWhereKnown, D!Spare, D!NoRun, D!Run
<1> QED
  BY <1>1, <1>5, <1>6 DEF SetsInv

(* Each call preserves the invariant, as long as no copy strayed.          *)
LEMMA SetsSteps == SetsInv /\ D!Next => SetsInv'
<1> SUFFICES ASSUME SetsInv, D!Next  PROVE  SetsInv'
  OBVIOUS
<1>1. stopped = "" /\ ~ strayed
  BY DEF D!Next
<1>2. AllSetsOK
  BY <1>1 DEF SetsInv
<1>3. CASE \E s \in Sets, b \in Layouts : D!vkAllocateDescriptorSets(s, b)
  BY <1>1, <1>2, <1>3, AllocateStep
<1>4. CASE \E s \in Sets : D!vkFreeDescriptorSets(s)
  BY <1>1, <1>2, <1>4, FreeStep
<1>5. CASE \E s \in Sets : \E p \in D!Places(s), v \in Values : D!write(s, p[1], p[2], v)
  <2>1. PICK s \in Sets : \E p \in D!Places(s), v \in Values : D!write(s, p[1], p[2], v)
    BY <1>5
  <2>2. PICK p \in D!Places(s), v \in Values : D!write(s, p[1], p[2], v)
    BY <2>1
  <2>3. p[1] \in DOMAIN layout[s] /\ p[2] \in 0 .. layout[s][p[1]].count - 1
    BY <1>2, PlacesAre
  <2> QED
    BY <1>1, <1>2, <2>2, <2>3, WriteStep
<1>6. CASE \E src, dst \in Sets : \E p \in D!Places(src), q \in D!Places(dst) :
             D!copy(src, p[1], p[2], dst, q[1], q[2])
  <2>1. PICK src \in Sets, dst \in Sets : \E p \in D!Places(src), q \in D!Places(dst) :
               D!copy(src, p[1], p[2], dst, q[1], q[2])
    BY <1>6
  <2>2. PICK p \in D!Places(src), q \in D!Places(dst) : D!copy(src, p[1], p[2], dst, q[1], q[2])
    BY <2>1
  <2>3. /\ p[1] \in DOMAIN layout[src] /\ p[2] \in 0 .. layout[src][p[1]].count - 1
        /\ q[1] \in DOMAIN layout[dst] /\ q[2] \in 0 .. layout[dst][q[1]].count - 1
    BY <1>2, PlacesAre
  <2> QED
    BY <1>2, <2>2, <2>3, CopyStep
<1> QED
  BY <1>3, <1>4, <1>5, <1>6 DEF D!Next

LEMMA SetsInvariance == PartsSpec => []SetsInv
<1>1. PartsInit => SetsInv
  BY SetsStart DEF PartsInit
<1>2. SetsInv /\ [PartsNext]_<<vars, setVars, queryVars, part>> => SetsInv'
  <2> SUFFICES ASSUME SetsInv, [PartsNext]_<<vars, setVars, queryVars, part>>  PROVE  SetsInv'
    OBVIOUS
  <2>1. CASE D!Next
    BY <2>1, SetsSteps
  <2>2. CASE UNCHANGED setVars
    BY <2>2, SetsStay
  <2> QED
    BY <2>1, <2>2 DEF PartsNext
<1> QED
  BY <1>1, <1>2, PTL DEF PartsSpec

(* Whatever sets of whatever layouts are allocated from a pool, written,   *)
(* copied, freed and allocated again: the elements of their maps lead      *)
(* every binding to descriptors no other binding has, and they hold what   *)
(* was last put there (descriptorSet.c:120-381, map.c:11-31).              *)
THEOREM SetsHoldTheirOwn == PartsSpec => []SetsHoldWhatWasWritten
<1>1. SetsInv => SetsHoldWhatWasWritten
  <2> SUFFICES ASSUME AllSetsOK, NEW s \in Sets, NEW p \in D!Places(s)
               PROVE  LET b == layout[s][p[1]]
                          at == D!getMapElement(elements, maps[s][b.kind], b.binding)
                      IN  /\ at > 0
                          /\ \/ written[s][p[1]][p[2]] = Undefined
                             \/ descriptors[b.kind][at + p[2]] = written[s][p[1]][p[2]]
    BY DEF SetsInv, SetsHoldWhatWasWritten, D!SetsHoldWhatWasWritten
  <2>1. p[1] \in DOMAIN layout[s] /\ p[2] \in 0 .. layout[s][p[1]].count - 1
    BY PlacesAre
  <2>2. /\ FirstDescriptor(s, p[1]) \in Nat \ {0}
        /\ D!getMapElement(elements, maps[s][layout[s][p[1]].kind], layout[s][p[1]].binding)
             = FirstDescriptor(s, p[1])
    BY <2>1, DescriptorFound
  <2>3. \/ written[s][p[1]][p[2]] = Undefined
        \/ descriptors[layout[s][p[1]].kind][FirstDescriptor(s, p[1]) + p[2]] = written[s][p[1]][p[2]]
    BY <2>1 DEF AllSetsOK, SetOK, WrittenOK
  <2> QED
    BY <2>2, <2>3
<1> QED
  BY <1>1, SetsInvariance, PTL

(* A search for a binding that never ends, a run that is not had and a     *)
(* copy on memory that is not its own happen in the known cases alone,     *)
(* whatever the layouts and in any order of calls (map.c:16-28,            *)
(* descriptorSet.c:176-189, 352-377).                                      *)
THEOREM SearchesEnd == PartsSpec => []StopsOnlyWhereKnown
<1>1. SetsInv => StopsOnlyWhereKnown
  BY DEF SetsInv
<1> QED
  BY <1>1, SetsInvariance, PTL
==============================================================================
