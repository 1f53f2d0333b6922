------------------------------- MODULE Objects -------------------------------
(***************************************************************************)
(* The life of the objects an application creates: what each vkCreate call *)
(* allocates and in which order, what stays behind when one of the         *)
(* allocations fails, and what the vkDestroy call gives back.  Device      *)
(* memory can also be mapped into the address space, and instances share   *)
(* the device file.                                                        *)
(*                                                                         *)
(* The three parts share no state; "uses" says which one a run follows.    *)
(***************************************************************************)
EXTENDS Integers, FiniteSets, SequencesExt

CONSTANTS
  Ids,                          \* objects the application may create
  Infos,                        \* create infos: [kind, given], given names the optional parts
  MaxSize, Pages,               \* bounds: pages of a memory object, of the address space
  Stages                        \* shader stages and assembly types, as numbers

VARIABLES
  uses,                         \* "objects", "memory" or "instances"
  info, status,                 \* each object's create info; none, live, failed, gone
  heap,                         \* allocations that were not freed: <<object, part>>
  wild,                         \* history: <<object, part>> freed but never allocated
  crash,                        \* a null pointer was followed
  size, mapped,                 \* _deviceMemory: size, and mappedPtr and mappedSize
  pages,                        \* the address space: what each page maps
  freedMapped,                  \* history: memory mapped in part was freed
  controlFd, refCounter,        \* the device file, and how often it is in use
  openFiles,                    \* the descriptors open for it
  users, fileLost               \* history: instances that use the file; an open
                                \* failed, or the last user left
ObjectKinds ==
  {"GraphicsPipeline", "PipelineLayout", "RenderPass", "Framebuffer", "ShaderModule", "Image",
   "QueryPool", "DescriptorSetLayout", "DescriptorPool", "CommandPool", "Device", "DeviceMemory",
   "ImageView", "Buffer", "BufferView", "Sampler", "Fence", "Semaphore"}

ASSUME ObjectsAssumption ==
  /\ Ids \subseteq Nat \ {0} /\ MaxSize \in Nat /\ Pages \in Nat
  /\ IsFiniteSet(Stages) /\ Stages = 1 .. Cardinality(Stages)
  /\ \A c \in Infos : c.kind \in ObjectKinds

objectVars == <<info, status, heap, wild, crash>>
memoryVars == <<size, mapped, pages, freedMapped>>
fileVars   == <<controlFd, refCounter, openFiles, users, fileLost>>
vars == <<uses, objectVars, memoryVars, fileVars>>

None == 0

-----------------------------------------------------------------------------
(* What the objects are made of, in the order of allocation.  The parts in *)
(* Optional are allocated only when the create info asks for them.         *)

PerStage(name) == {<<name, s>> : s \in Stages}
Part(name) == <<name, 0>>
InTurn(names) ==                \* all names of the first stage, then of the second...
  LET n == Len(names)
  IN  [i \in 1 .. Cardinality(Stages) * n |-> <<names[1 + ((i - 1) % n)], 1 + ((i - 1) \div n)>>]
Named(names) == [n \in DOMAIN names |-> Part(names[n])]

GraphicsPipeline ==
  Named(<<"pipeline">>) \o InTurn(<<"name">>)
    \o Named(<<"attributes", "bindings", "viewports", "scissors", "blendStates", "dynamicStates">>)
PipelineLayout == Named(<<"layout", "setLayouts", "pushConstantRanges", "elements">>)
References == <<"input", "color", "resolve", "depthStencil", "preserve">>
RenderPass ==
  Named(<<"renderPass", "attachments", "subpasses">>) \o InTurn(References) \o Named(<<"dependencies">>)
Framebuffer == Named(<<"framebuffer", "attachmentViews">>)
ShaderModule == Named(<<"shader">>) \o InTurn(<<"code", "mappings">>)
Image == Named(<<"image", "queueFamilies">>)
QueryPool == Named(<<"pool", "queries", "perfmons">>)
DescriptorSetLayout == Named(<<"layout", "bindings">>)
DescriptorPool == Named(<<"pool", "sets", "elements", "images", "buffers", "texelBuffers">>)
CommandPool == Named(<<"pool", "commandBuffers", "blocks">>)
Device == Named(<<"device", "queues", "emulation">>)
DeviceMemory == Named(<<"bo", "memory">>)
ImageView == Named(<<"view">>)
Buffer == Named(<<"buffer">>)
BufferView == Named(<<"bufferView">>)
Sampler == Named(<<"sampler">>)
Fence == Named(<<"fence">>)
Semaphore == Named(<<"semaphore">>)

Parts(kind) ==
  CASE kind = "GraphicsPipeline" -> GraphicsPipeline
    [] kind = "PipelineLayout" -> PipelineLayout
    [] kind = "RenderPass" -> RenderPass
    [] kind = "Framebuffer" -> Framebuffer
    [] kind = "ShaderModule" -> ShaderModule
    [] kind = "Image" -> Image
    [] kind = "QueryPool" -> QueryPool
    [] kind = "DescriptorSetLayout" -> DescriptorSetLayout
    [] kind = "DescriptorPool" -> DescriptorPool
    [] kind = "CommandPool" -> CommandPool
    [] kind = "Device" -> Device
    [] kind = "DeviceMemory" -> DeviceMemory
    [] kind = "ImageView" -> ImageView
    [] kind = "Buffer" -> Buffer
    [] kind = "BufferView" -> BufferView
    [] kind = "Sampler" -> Sampler
    [] kind = "Fence" -> Fence
    [] kind = "Semaphore" -> Semaphore

Optional ==
  PerStage("name") \cup PerStage("code") \cup PerStage("mappings")
    \cup UNION {PerStage(References[r]) : r \in DOMAIN References}
    \cup {Part(p) : p \in {"dynamicStates", "setLayouts", "pushConstantRanges", "queueFamilies",
                           "images", "buffers", "texelBuffers"}}

(* The parts an info asks for, at which places they are allocated, and     *)
(* those that are there when the k-th is.                                  *)
Wanted(c, p) == p \notin Optional \/ p \in c.given
Allocated(c) == {p \in Range(Parts(c.kind)) : Wanted(c, p)}
Steps(c) == {k \in DOMAIN Parts(c.kind) : Wanted(c, Parts(c.kind)[k])}
Before(c, k) == {Parts(c.kind)[i] : i \in {j \in Steps(c) : j < k}}

(* What a call frees again when it cannot allocate the k-th part: all it   *)
(* has in some cases, the first part in two, and nothing in all others.    *)
Undone(c, k) ==
  LET p == Parts(c.kind)[k]
  IN  CASE p \in {Part("setLayouts"), Part("attachmentViews"), Part("queueFamilies"),
                  Part("commandBuffers")} \/ c.kind = "DescriptorSetLayout" -> Before(c, k)
        [] p \in {Part("pushConstantRanges"), Part("blocks")} -> {Head(Parts(c.kind))}
        [] OTHER -> {}

(* Allocations whose failure is not noticed: code, monitors and what the   *)
(* emulation needs are then missing, the others are written to.            *)
Written(c, p) ==
  \/ c.kind = "QueryPool" /\ p # Part("perfmons")
  \/ c.kind = "PipelineLayout" /\ p = Part("elements") /\ Part("setLayouts") \in c.given
Unnoticed(c, p) ==
  \/ p[1] \in {"code", "perfmons", "emulation"} \/ c.kind = "QueryPool"
  \/ c.kind = "PipelineLayout" /\ p = Part("elements")

(* Pointers that keep what the memory held before when the info does not   *)
(* ask for the part; all others are then null.                             *)
LeftUnset(c) ==
  CASE c.kind = "PipelineLayout" -> {Part("setLayouts"), Part("pushConstantRanges")} \ c.given
    [] c.kind = "DescriptorPool" -> {Part("images"), Part("buffers"), Part("texelBuffers")} \ c.given
    [] OTHER -> {}

(* Bug: the scissors are forgotten. *)
PipelineFreedForgets ==
  {Part(p) : p \in {"dynamicStates", "blendStates", "viewports", "bindings", "attributes", "pipeline"}}
    \cup PerStage("name")

(* The parts the vkDestroy calls free, when they are there. *)
PipelineFreed ==
  {Part(p) : p \in {"dynamicStates", "blendStates", "scissors", "viewports", "bindings", "attributes", "pipeline"}}
    \cup PerStage("name")
PipelineLayoutFreed == {Part(p) : p \in {"elements", "pushConstantRanges", "setLayouts", "layout"}}
RenderPassFreed ==
  {Part(p) : p \in {"dependencies", "subpasses", "attachments", "renderPass"}}
    \cup UNION {PerStage(References[r]) : r \in DOMAIN References}
FramebufferFreed == {Part("attachmentViews"), Part("framebuffer")}
ShaderModuleFreed == PerStage("code") \cup PerStage("mappings") \cup {Part("shader")}
ImageFreed == {Part("queueFamilies"), Part("image")}
DescriptorPoolFreed == {Part(p) : p \in {"sets", "elements", "images", "texelBuffers", "buffers", "pool"}}
DescriptorSetLayoutFreed == {Part("bindings"), Part("layout")}
QueryPoolFreed == {Part("perfmons"), Part("queries")}
CommandPoolFreed == {Part("commandBuffers"), Part("blocks"), Part("pool")}
DeviceFreed == {Part("queues"), Part("device")}
MemoryFreed == {Part("bo"), Part("memory")}

Freed(kind) ==
  CASE kind = "GraphicsPipeline" -> PipelineFreed
    [] kind = "PipelineLayout" -> PipelineLayoutFreed
    [] kind = "RenderPass" -> RenderPassFreed
    [] kind = "Framebuffer" -> FramebufferFreed
    [] kind = "ShaderModule" -> ShaderModuleFreed
    [] kind = "Image" -> ImageFreed
    [] kind = "DescriptorPool" -> DescriptorPoolFreed
    [] kind = "DescriptorSetLayout" -> DescriptorSetLayoutFreed
    [] kind = "QueryPool" -> QueryPoolFreed
    [] kind = "CommandPool" -> CommandPoolFreed
    [] kind = "Device" -> DeviceFreed
    [] kind = "DeviceMemory" -> MemoryFreed
    [] OTHER -> {Head(Parts(kind))}

-----------------------------------------------------------------------------
Of(o) == {a \in heap : a[1] = o}
Mark(o, state) == status' = [status EXCEPT ![o] = state]

(* A vkCreate call in which the allocation at k fails, or none if k is 0.  *)
create(o, c, k) ==
  LET p == Parts(c.kind)[k] IN
  /\ status[o] = "none"
  /\ info' = [info EXCEPT ![o] = c]
  /\ \/ /\ k = 0
        /\ heap' = heap \cup {<<o, q>> : q \in Allocated(c)}
        /\ Mark(o, "live") /\ UNCHANGED crash
     \/ /\ k > 0 /\ ~ Unnoticed(c, p)
        /\ heap' = heap \cup {<<o, q>> : q \in Before(c, k) \ Undone(c, k)}
        /\ Mark(o, "failed") /\ UNCHANGED crash
     \/ /\ k > 0 /\ Unnoticed(c, p)
        /\ heap' = heap \cup {<<o, q>> : q \in Allocated(c) \ {p}}
        /\ Mark(o, "live")
        /\ crash' = Written(c, p)
  /\ UNCHANGED wild

destroy(o) ==
  LET c == info[o]
      gone == {<<o, p>> : p \in Freed(c.kind)}
  IN  /\ status[o] = "live"
      /\ heap' = heap \ gone
      /\ wild' = wild \cup {<<o, p>> : p \in LeftUnset(c)}
      /\ Mark(o, "gone")
      /\ UNCHANGED <<info, crash>>

Creates(o) ==
  /\ \E c \in Infos : \E k \in {0} \cup Steps(c) : create(o, c, k)
  /\ UNCHANGED <<memoryVars, fileVars>>
Destroys(o) == destroy(o) /\ UNCHANGED <<memoryVars, fileVars>>

-----------------------------------------------------------------------------
(* Device memory.  The kernel finds a place for a mapping; munmap removes  *)
(* whatever lies in its range.                                             *)
Place(at, len) == at .. at + len - 1
Removed(space, at, len) == [p \in 1 .. Pages |-> IF p \in Place(at, len) THEN None ELSE space[p]]
MemoryInfo == [kind |-> "DeviceMemory", given |-> {}]

vkAllocateMemory(o) ==
  /\ \E k \in {0} \cup Steps(MemoryInfo) : create(o, MemoryInfo, k)
  /\ \E n \in 1 .. MaxSize : size' = [size EXCEPT ![o] = n]
  /\ UNCHANGED <<mapped, pages, freedMapped, fileVars>>

(* vkMapMemory of n pages from an offset, or of the whole size.  mmap may  *)
(* fail, and when the wait for the buffer object fails the mapping stays.  *)
vkMapMemory(o) ==
  /\ status[o] = "live" /\ mapped[o].len = 0
  /\ \E n \in 1 .. size[o], at \in 1 .. Pages :
       /\ Place(at, n) \subseteq 1 .. Pages
       /\ \A p \in Place(at, n) : pages[p] = None
       /\ pages' = [p \in 1 .. Pages |-> IF p \in Place(at, n) THEN o ELSE pages[p]]
       /\ mapped' \in {mapped, [mapped EXCEPT ![o] = [at |-> at, len |-> n]]}
  /\ UNCHANGED <<objectVars, size, freedMapped, fileVars>>

(* Bug: what was allocated is unmapped, not what was mapped. *)
unmapAll(o) ==
  /\ status[o] = "live" /\ mapped[o].len > 0
  /\ pages' = Removed(pages, mapped[o].at, size[o])
  /\ mapped' = [mapped EXCEPT ![o] = [at |-> 0, len |-> 0]]
  /\ UNCHANGED <<objectVars, size, freedMapped, fileVars>>

vkUnmapMemory(o) ==
  /\ status[o] = "live" /\ mapped[o].len > 0
  /\ pages' = Removed(pages, mapped[o].at, mapped[o].len)
  /\ mapped' = [mapped EXCEPT ![o] = [at |-> 0, len |-> 0]]
  /\ UNCHANGED <<objectVars, size, freedMapped, fileVars>>

(* vkFreeMemory unmaps memory that is mapped, by its allocated size. *)
vkFreeMemory(o) ==
  /\ status[o] = "live"
  /\ IF mapped[o].len = 0 THEN UNCHANGED <<pages, freedMapped>>
     ELSE /\ pages' = Removed(pages, mapped[o].at, size[o])
          /\ freedMapped' = (freedMapped \/ mapped[o].len < size[o])
  /\ mapped' = [mapped EXCEPT ![o] = [at |-> 0, len |-> 0]]
  /\ destroy(o)
  /\ UNCHANGED <<size, fileVars>>

-----------------------------------------------------------------------------
(* Instances and the device file. *)

Open ==
  /\ controlFd = 0
  /\ controlFd' = Cardinality(openFiles) + 1
  /\ openFiles' = openFiles \cup {controlFd'}

(* Bug: only the instance that opens the file is counted. *)
openIoctlOnce ==
  \/ Open /\ refCounter' = refCounter + 1
  \/ controlFd # 0 /\ UNCHANGED <<controlFd, openFiles, refCounter>>

openIoctl ==
  /\ \/ Open
     \/ controlFd # 0 /\ UNCHANGED <<controlFd, openFiles>>
  /\ refCounter' = refCounter + 1

openIoctlFails ==
  /\ controlFd = 0 /\ controlFd' = -1 /\ fileLost' = TRUE
  /\ UNCHANGED <<openFiles, refCounter, users>>

(* The caller passes no argument, so any descriptor may be closed. *)
closeIoctl ==
  /\ refCounter' = refCounter - 1
  /\ IF refCounter' = 0 THEN openFiles' \in {openFiles, openFiles \ {controlFd}}
                        ELSE UNCHANGED openFiles
  /\ UNCHANGED controlFd

(* vkCreateInstance fails before it has allocated anything, or with an     *)
(* unknown extension; it keeps the instance when the hardware cannot be    *)
(* identified, when the file does not open, and when the chip is unknown.  *)
vkCreateInstance(o) ==
  /\ status[o] = "none"
  /\ \/ Mark(o, "failed") /\ UNCHANGED <<heap, fileVars>>
     \/ Mark(o, "failed") /\ heap' \in {heap \cup {<<o, Part("instance")>>},
                                        heap \cup {<<o, Part("instance")>>, <<o, Part("cpuinfo")>>}}
        /\ UNCHANGED fileVars
     \/ openIoctlFails /\ Mark(o, "failed") /\ heap' = heap \cup {<<o, Part("instance")>>}
     \/ openIoctl /\ heap' = heap \cup {<<o, Part("instance")>>}
        /\ users' = users \cup {o} /\ UNCHANGED fileLost
        /\ \E result \in {"failed", "live"} : Mark(o, result)
  /\ UNCHANGED <<info, wild, crash, memoryVars>>

vkDestroyInstance(o) ==
  /\ status[o] = "live"
  /\ closeIoctl
  /\ users' = users \ {o} /\ fileLost' = (fileLost \/ users' = {})
  /\ heap' = heap \ {<<o, Part("instance")>>}
  /\ Mark(o, "gone")
  /\ UNCHANGED <<info, wild, crash, memoryVars>>

-----------------------------------------------------------------------------
Init ==
  /\ uses \in {"objects", "memory", "instances"}
  /\ info = [o \in Ids |-> MemoryInfo] /\ status = [o \in Ids |-> "none"]
  /\ heap = {} /\ wild = {} /\ crash = FALSE
  /\ size = [o \in Ids |-> 0] /\ mapped = [o \in Ids |-> [at |-> 0, len |-> 0]]
  /\ pages = [p \in 1 .. Pages |-> None] /\ freedMapped = FALSE
  /\ controlFd = 0 /\ refCounter = 0 /\ openFiles = {}
  /\ users = {} /\ fileLost = FALSE

Next ==
  /\ ~ crash /\ UNCHANGED uses
  /\ \E o \in Ids :
       \/ uses = "objects" /\ (Creates(o) \/ Destroys(o))
       \/ uses = "memory" /\ (vkAllocateMemory(o) \/ vkMapMemory(o) \/ vkUnmapMemory(o) \/ vkFreeMemory(o))
       \/ uses = "instances" /\ (vkCreateInstance(o) \/ vkDestroyInstance(o))

Spec == Init /\ [][Next]_vars

-----------------------------------------------------------------------------
(* Whatever the create info asked for, destroying an object gives back all *)
(* that creating it allocated and nothing else (pipeline.c:185-616,        *)
(* renderpass.c:344-573, shader.c:18-489, resource.c:10-325, memory.c:68-  *)
(* 175).  Known not to hold: a query pool keeps its struct (query.c:110),  *)
(* a device what it made for emulated commands (device.c:364), and layouts *)
(* and pools free pointers they never set (pipeline.c:612,                 *)
(* descriptorSet.c:408).                                                   *)
DestroyReturnsEverything ==
  /\ \A o \in Ids : status[o] = "gone" =>
       \/ Of(o) = {}
       \/ info[o].kind = "QueryPool" /\ Of(o) = {<<o, Part("pool")>>}
       \/ info[o].kind = "Device" /\ Of(o) = {<<o, Part("emulation")>>}
  /\ \A w \in wild :
       LET c == info[w[1]] IN
       \/ c.kind = "PipelineLayout" /\ ~ {Part("setLayouts"), Part("pushConstantRanges")} \subseteq c.given
       \/ c.kind = "DescriptorPool"

(* Memory that an application has mapped stays mapped while it uses it,    *)
(* whatever other memory is unmapped or freed (memory.c:106-175,           *)
(* kernelInterface.c:255-290, 463-471).  Not claimed once memory that was  *)
(* mapped in part is freed: vkFreeMemory then unmaps more than its own.    *)
MappingsStay ==
  ~ freedMapped =>
    \A o \in Ids : \A p \in Place(mapped[o].at, mapped[o].len) : pages[p] = o

(* While an instance lives the device file is open, in whatever order      *)
(* instances come and go (kernelInterface.c:9-40), until the last one has  *)
(* gone or an open has failed: the file is then never opened again.        *)
FileStaysOpen ==
  ~ fileLost => \A o \in Ids : uses = "instances" /\ status[o] = "live" => controlFd \in openFiles
===============================================================================
