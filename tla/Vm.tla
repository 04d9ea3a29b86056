--------------------------------- MODULE Vm ---------------------------------
(***************************************************************************)
(* Virtual machines behind their channels.  A connection feeds the bytes   *)
(* it receives into a parser, whose callback loads every object into VM    *)
(* Home (vm_proxy::load); other threads load whole programs into the same  *)
(* VM (vm_proxy::execute).  Both are two messages to the VM's channel, the *)
(* code and then run(), and the messages of all threads mix in its strand. *)
(* A program calls functions of its VM or forwards the call to another VM, *)
(* which the registry looks up by its tag.                                 *)
(*                                                                         *)
(* A program is a record: its code, the calls its author expects, and the  *)
(* arguments (astray) it passes to a direct call of an unknown function.   *)
(***************************************************************************)
EXTENDS Wire

CONSTANTS
    Vms,        \* the VMs of the mesh, numbers that stand for their tags
    Home,       \* the VM the connection and the threads load
    Functions,  \* names of the functions every VM has, numbers
    Voids,      \* those that return nothing
    Workloads,  \* programs the connection (conn) and the others (job) may load
    MaxQueue    \* bound: messages in Home's strand when more code is loaded

ASSUME VmAssumption ==
    /\ Vms \subseteq Nat \ {0}
    /\ Home \in Vms
    /\ Functions \subseteq Nat
    /\ Voids \subseteq Functions
    /\ MaxQueue \in Nat

VARIABLES
    programs,   \* [conn, job]: the programs of this behaviour
    wire,       \* bytes not yet received
    parser,     \* the connection's parser
    parsed,     \* history: what the parser handed out
    jobs,       \* programs not yet loaded by the other threads
    owes,       \* who has loaded code and not yet called run()
    strand,     \* per VM: messages waiting in its channel
    mem, pc,    \* per VM: memory::mem_, pc_
    st,         \* per VM: stack::s_, bp_
    running,    \* per VM: run() is on the strand
    lookups,    \* forwarded calls waiting in the registry's strand
    log         \* history: functions called, in order

vars == <<programs, wire, parser, parsed, jobs, owes, strand, mem, pc, st,
          running, lookups, log>>

Callers == {"conn", "job"}

----------------------------------------------------------------------------
(* Programs. *)

\* A call: of which VM, over its channel or direct, of which function.
Called(vm, how, fn, args) == [vm |-> vm, how |-> how, fn |-> fn, args |-> args]

\* The result of a function that has one, here the number of its arguments.
Result(args) == Num(Len(args))

CodeOf(ps) == FoldLeft(LAMBDA acc, p : acc \o p.code, <<>>, ps)
CallsOf(ps) == FoldLeft(LAMBDA acc, p : acc \o p.calls, <<>>, ps)
Astray(ps) == UNION {ps[i].astray : i \in DOMAIN ps}

\* The connection sends what the serializers can write.
ASSUME WorkloadAssumption ==
    \A w \in Workloads :
        /\ CodeOf(w.conn) \in Seq(Instructions)
        /\ \A i \in DOMAIN CodeOf(w.conn) : Len(CodeOf(w.conn)[i].v) < Limit8

----------------------------------------------------------------------------
(* Loading. *)

LoadMsg(code) == [kind |-> "load", code |-> code, call |-> <<>>]
RunMsg == [kind |-> "run", code |-> <<>>, call |-> <<>>]
CallMsg(c) == [kind |-> "call", code |-> <<>>, call |-> <<c>>]

\* channel::dispatch()
Dispatch(vm, m) == strand' = [strand EXCEPT ![vm] = Append(@, m)]

\* Mutant: only a program's last instruction starts the machine.
LoadObjectLazy(obj) ==
    /\ Dispatch(Home, LoadMsg(<<obj>>))
    /\ owes' = IF obj = Op("INVOKE") THEN owes \cup {"conn"} ELSE owes

\* vm_proxy::load(object), first message; an op code is followed by run().
LoadObject(obj) ==
    /\ Dispatch(Home, LoadMsg(<<obj>>))
    /\ owes' = IF obj.t = "op" THEN owes \cup {"conn"} ELSE owes

\* Bytes arrive up to the end of an object, which the parser's callback loads.
Receive ==
    /\ wire # <<>>
    /\ "conn" \notin owes
    /\ Len(strand[Home]) < MaxQueue
    /\ \E got \in Read(parser, wire) :
       /\ wire' = SubSeq(wire, got.used + 1, Len(wire))
       /\ parser' = got.parser
       /\ parsed' = parsed \o got.out
       /\ IF got.out = <<>> THEN UNCHANGED <<strand, owes>> ELSE LoadObject(got.out[1])
    /\ UNCHANGED <<programs, jobs, mem, pc, st, running, lookups, log>>

\* vm_proxy::execute() on another thread: load(deque) ...
LoadJob ==
    /\ jobs # <<>>
    /\ "job" \notin owes
    /\ Len(strand[Home]) < MaxQueue
    /\ Dispatch(Home, LoadMsg(Head(jobs).code))
    /\ jobs' = Tail(jobs)
    /\ owes' = owes \cup {"job"}
    /\ UNCHANGED <<programs, wire, parser, parsed, mem, pc, st, running, lookups, log>>

\* ... and run(), which the connection's load() calls as well.
SendRun(c) ==
    /\ c \in owes
    /\ owes' = owes \ {c}
    /\ Dispatch(Home, RunMsg)
    /\ UNCHANGED <<programs, wire, parser, parsed, jobs, mem, pc, st, running, lookups, log>>

----------------------------------------------------------------------------
(* The strand of a VM. *)

\* The next message: load() appends to the memory, run() starts the machine,
\* a call reaches its function.
Handle(vm) ==
    /\ ~running[vm]
    /\ strand[vm] # <<>>
    /\ strand' = [strand EXCEPT ![vm] = Tail(@)]
    /\ LET m == Head(strand[vm]) IN
       /\ mem' = [mem EXCEPT ![vm] = @ \o m.code]
       /\ running' = [running EXCEPT ![vm] = m.kind = "run"]
       /\ log' = log \o m.call
    /\ UNCHANGED <<programs, wire, parser, parsed, jobs, owes, pc, st, lookups>>

\* exec() of an instruction that leaves the stack s and sends nothing.
Exec(vm, s) ==
    /\ st' = [st EXCEPT ![vm] = s]
    /\ pc' = [pc EXCEPT ![vm] = @ + 1]

\* The name below the arguments is known: dispatch() to the channel of target.
\* The call is lost otherwise.
CallOver(target, c) ==
    IF c.fn \in Functions THEN Dispatch(target, CallMsg(c)) ELSE UNCHANGED strand

\* INVOKE: name, argument count and arguments are popped.
ExecInvoke(vm) ==
    LET below == Pop(st[vm]) IN
    /\ CallOver(vm, Called(vm, "channel", Top(st[vm]).v[1], Arguments(below)))
    /\ Exec(vm, Collect(below)[2])
    /\ UNCHANGED <<mem, lookups, log>>

\* FORWARD: the tag on top selects this VM or, by way of the registry, another.
ExecForward(vm) ==
    LET target == Top(st[vm]).v[1]
        named == Pop(st[vm])
        c == Called(target, "channel", Top(named).v[1], Arguments(Pop(named)))
    IN /\ Exec(vm, Collect(Pop(named))[2])
       /\ IF target = vm
          THEN CallOver(vm, c) /\ UNCHANGED lookups
          ELSE lookups' = Append(lookups, c) /\ UNCHANGED strand
       /\ UNCHANGED <<mem, log>>

\* Mutant: a function without a result pushes null, as slot 0 does.
PushResultAlways(s, fn, args) == Push(s, IF fn \in Voids THEN Null ELSE Result(args))

\* A function without a result leaves the stack as it is.
PushResult(s, fn, args) == IF fn \in Voids THEN s ELSE Push(s, Result(args))

\* INVOKE_R: the function is called at once and its result, if any, pushed.
\* The index that RESOLVE pushed for an unknown name ends at slot 0, which is
\* load(): the first argument becomes an instruction, and null is pushed.
ExecInvokeR(vm) ==
    LET below == Pop(st[vm])
        fn == Top(st[vm]).v[1]
        args == Arguments(below)
    IN /\ UNCHANGED <<strand, lookups>>
       /\ IF fn \in Functions
          THEN /\ log' = Append(log, Called(vm, "direct", fn, args))
               /\ Exec(vm, PushResult(Collect(below)[2], fn, args))
               /\ UNCHANGED mem
          ELSE /\ mem' = [mem EXCEPT ![vm] = Append(@, args[1])]
               /\ Exec(vm, Push(Collect(below)[2], Null))
               /\ UNCHANGED log

\* vm_base::run(): one turn of the loop, or its end.  A value is pushed.
Run(vm) ==
    /\ running[vm]
    /\ UNCHANGED <<programs, wire, parser, parsed, jobs, owes>>
    /\ IF pc[vm] = Len(mem[vm])
       THEN /\ running' = [running EXCEPT ![vm] = FALSE]
            /\ UNCHANGED <<strand, mem, pc, st, lookups, log>>
       ELSE LET o == mem[vm][pc[vm] + 1]
                name == IF o.t = "op" THEN OpNames[o.v[1]] ELSE "PUSH"
            IN /\ UNCHANGED running
               /\ CASE name = "PUSH" -> Exec(vm, Push(st[vm], o))
                                        /\ UNCHANGED <<strand, mem, lookups, log>>
                    [] name = "INVOKE" -> ExecInvoke(vm)
                    [] name = "INVOKE_R" -> ExecInvokeR(vm)
                    [] name = "FORWARD" -> ExecForward(vm)
                    [] name = "RESOLVE" -> Exec(vm, Push(Pop(st[vm]), Num(Top(st[vm]).v[1])))
                                           /\ UNCHANGED <<strand, mem, lookups, log>>
                    [] name = "IDENT" -> Exec(vm, Push(st[vm], Uuid(vm)))
                                         /\ UNCHANGED <<strand, mem, lookups, log>>
                    [] OTHER -> Exec(vm, ExecStack(st[vm], name))
                                /\ UNCHANGED <<strand, mem, lookups, log>>

\* The registry finds the channel of a forwarded call, or nothing.
Lookup ==
    /\ lookups # <<>>
    /\ lookups' = Tail(lookups)
    /\ LET c == Head(lookups) IN
       IF c.vm \in Vms THEN CallOver(c.vm, c) ELSE UNCHANGED strand
    /\ UNCHANGED <<programs, wire, parser, parsed, jobs, owes, mem, pc, st, running, log>>

----------------------------------------------------------------------------
Init ==
    /\ programs \in Workloads
    /\ wire = SerializeAll(CodeOf(programs.conn))
    /\ parser = Parser
    /\ parsed = <<>>
    /\ jobs = programs.job
    /\ owes = {}
    /\ strand = [vm \in Vms |-> <<>>]
    /\ mem = [vm \in Vms |-> <<>>]
    /\ pc = [vm \in Vms |-> 0]
    /\ st = [vm \in Vms |-> [s |-> <<>>, bp |-> 0]]
    /\ running = [vm \in Vms |-> FALSE]
    /\ lookups = <<>>
    /\ log = <<>>

Next ==
    \/ Receive
    \/ LoadJob
    \/ \E c \in Callers : SendRun(c)
    \/ \E vm \in Vms : Handle(vm) \/ Run(vm)
    \/ Lookup

Spec == Init /\ [][Next]_vars

\* The bytes of the connection arrive, threads go on, the pool runs strands.
Fairness ==
    /\ WF_vars(Receive)
    /\ WF_vars(LoadJob)
    /\ \A c \in Callers : WF_vars(SendRun(c))
    /\ \A vm \in Vms : WF_vars(Handle(vm)) /\ WF_vars(Run(vm))
    /\ WF_vars(Lookup)

FairSpec == Spec /\ Fairness

----------------------------------------------------------------------------
(* Properties. *)

TypeOK ==
    /\ parser.state \in {"TYPE", "LENGTH", "VALUE"}
    /\ parser.length < Base ^ 8
    /\ owes \subseteq Callers
    /\ \A vm \in Vms :
        /\ pc[vm] \in 0 .. Len(mem[vm])
        /\ st[vm].bp \in 0 .. Len(st[vm].s)
        /\ \A i \in DOMAIN strand[vm] : strand[vm][i].kind \in {"load", "run", "call"}

\* What the parser hands out is what was written: no length at the border of
\* two encodings shifts the frames behind it.
FramesAligned == IsPrefix(parsed, CodeOf(programs.conn))

\* The calls of one caller to one VM, over the channel or direct, are made in
\* the order its programs make them, with the arguments it wrote, whatever the
\* other callers load in between.  Containers arrive rebuilt.
Made(c, vm, how) ==
    LET mine == {CallsOf(programs[c])[i].fn : i \in DOMAIN CallsOf(programs[c])} IN
    SelectSeq(log, LAMBDA x : x.vm = vm /\ x.how = how /\ x.fn \in mine)

Wanted(c, vm, how) ==
    SelectSeq(CallsOf(programs[c]), LAMBDA x : x.vm = vm /\ x.how = how)

CallsAsWritten ==
    \A c \in Callers, vm \in Vms, how \in {"channel", "direct"} :
        IsPrefix(Made(c, vm, how), Wanted(c, vm, how))

\* A machine that has run all programs has no frame left and nothing on its
\* stack, except what went astray: the argument of a direct call of an unknown
\* function comes back as an instruction, inside or behind the frame it was in.
\* For a build without assertions: with them the first REBA ends the process.
Finished(vm) == ~running[vm] /\ strand[vm] = <<>> /\ pc[vm] = Len(mem[vm])

StackBalanced ==
    wire = <<>> /\ jobs = <<>> /\ owes = {} =>
        \A vm \in Vms : Finished(vm) =>
            /\ st[vm].bp = 0
            /\ ToSet(st[vm].s) \subseteq UNION {Astray(programs[c]) : c \in Callers}

\* Every call is made in the end.
AllCallsMade ==
    <>[](\A c \in Callers, vm \in Vms, how \in {"channel", "direct"} :
            Made(c, vm, how) = Wanted(c, vm, how))
============================================================================
