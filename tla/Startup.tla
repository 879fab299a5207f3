------------------------------ MODULE Startup ------------------------------
(***************************************************************************)
(* The process from its launch on: main reads the configuration file line   *)
(* by line and the command line over it, init brings the server up (see     *)
(* SocketServer), and every shard sizes its pool of entries from the        *)
(* configuration and its memory.  Fractions are whole percents.             *)
(***************************************************************************)
EXTENDS SocketServer, Sequences

CONSTANTS Launches,   \* [disk, port]: the files config.conf, ../config.conf and
                      \* ../../config.conf, and the command line's port, or Nil
          Bad,        \* what a parser makes of a value that is not for it
          Memory,     \* total_memory() of a shard
          EntrySize,  \* sizeof(ttl::Entry)
          MaxSize     \* the greatest size_t

-----------------------------------------------------------------------------
(* load_config_file.  A line is a key and a value; blank lines, comments,    *)
(* lines without '=' or without a value, and the policy, of which there is   *)
(* only one, count as lines with an unknown key.  A value is what each       *)
(* parser makes of it.  Fields have the names of their keys.                 *)

PortKeys     == {"db_port", "base_port", "port"}
DoubleKeys   == {"soft_trigger", "soft_stop", "hard_trigger", "memory_reserve_percentage",
                 "pool_max_memory_percent", "probationary_pool_size"}
IntegerKeys  == {"soft_budget", "hard_budget", "page_size_goal", "key_reserve"}
BoolKeys     == {"soft_throttle", "send_shard_details_on_connect"}
Keys         == PortKeys \cup DoubleKeys \cup IntegerKeys \cup BoolKeys \cup {"hash"}

Port == 0..65535       \* uint16_t

Field(key) == IF key \in PortKeys THEN "db_port" ELSE key
Fields == {Field(k) : k \in Keys}

Value == [u64 : Nat \cup {Bad}, double : Int \cup {Bad}, bool : BOOLEAN \cup {Bad},
          text : STRING]
Line == [key : STRING, value : Value]

ASSUME StartupAssumption ==
    /\ Memory \in Nat /\ EntrySize \in Nat \ {0} /\ MaxSize \in Nat /\ Memory <= MaxSize
    /\ Bad \notin Int /\ Bad \notin BOOLEAN /\ Bad \notin STRING
    /\ Nil \notin [max : Nat, prob : Nat, threshold : Nat]
    /\ \A l \in Launches : /\ DOMAIN l.disk = 1..3
                           /\ \A i \in 1..3 : l.disk[i] = Nil \/ l.disk[i] \in Seq(Line)

DefaultPort == 60110

\* db_config.
Default ==
    [f \in Fields |->
        IF f = "db_port" THEN DefaultPort
        ELSE IF f = "hash" THEN "fnv1a64"
        ELSE IF f = "memory_reserve_percentage" THEN 15
        ELSE IF f \in BoolKeys THEN FALSE
        ELSE 0]

\* Mutant: a port is cut to 16 bits.
SettingCutsPort(line) ==
    LET v == line.value IN
    IF line.key \in PortKeys /\ v.u64 # Bad THEN v.u64 % 65536
    ELSE IF line.key \in IntegerKeys THEN v.u64
    ELSE IF line.key \in DoubleKeys THEN v.double
    ELSE IF line.key = "send_shard_details_on_connect" THEN v.bool
    ELSE IF line.key = "hash" THEN v.text
    ELSE Bad

\* What the line assigns to its field, or Bad.  A soft_throttle that parses
\* turns the throttle off.
Setting(line) ==
    LET v == line.value IN
    IF line.key \in IntegerKeys \/ (line.key \in PortKeys /\ v.u64 \in Port) THEN v.u64
    ELSE IF line.key \in DoubleKeys THEN v.double
    ELSE IF line.key = "soft_throttle" /\ v.bool # Bad THEN FALSE
    ELSE IF line.key = "send_shard_details_on_connect" THEN v.bool
    ELSE IF line.key = "hash" THEN v.text
    ELSE Bad

VARIABLES launch,   \* how the process was launched
          stage,    \* of main: open, read, options, run
          file,     \* the lines of the file that was opened
          read,     \* the number of lines that have been read
          config,   \* the global config
          pool      \* per shard: the sizes that the pool's init computes, or Nil

loader == <<launch, stage, file, read, config>>
startVars == <<vars, loader, pool>>

StartInit ==
    /\ Init
    /\ launch \in Launches /\ stage = "open"
    /\ file = <<>> /\ read = 0 /\ config = Default
    /\ pool = [s \in Shards |-> Nil]

Readable == {i \in 1..3 : launch.disk[i] # Nil}

\* The file that is opened: the first that can be.
File == IF Readable = {} THEN <<>>
        ELSE launch.disk[CHOOSE i \in Readable : \A j \in Readable : i <= j]

Open ==
    /\ stage = "open" /\ stage' = "read" /\ file' = File
    /\ UNCHANGED <<vars, launch, read, config, pool>>

Assign(c, line) ==
    IF Setting(line) = Bad THEN c ELSE [c EXCEPT ![Field(line.key)] = Setting(line)]

ReadLine ==
    /\ stage = "read" /\ read < Len(file)
    /\ config' = Assign(config, file[read + 1]) /\ read' = read + 1
    /\ UNCHANGED <<vars, launch, stage, file, pool>>

EndOfFile ==
    /\ stage = "read" /\ read = Len(file) /\ stage' = "options"
    /\ UNCHANGED <<vars, launch, file, read, config, pool>>

\* app.run parses the command line; the file's port is its default.
Options ==
    /\ stage = "options" /\ stage' = "run"
    /\ config' = IF launch.port = Nil THEN config ELSE [config EXCEPT !["db_port"] = launch.port]
    /\ UNCHANGED <<vars, launch, file, read, pool>>

Load == Open \/ ReadLine \/ EndOfFile \/ Options

-----------------------------------------------------------------------------
(* The pool's sizes.                                                         *)

\* A number of hundredths, converted from double to size_t: cut to an integer, and
\* undefined where that does not fit.
ToSize(n) ==
    IF n > -100 /\ n < 100 * (MaxSize + 1) THEN {IF n < 0 THEN 0 ELSE n \div 100}
    ELSE 0..MaxSize

\* The same after std::floor.
FloorToSize(n) == IF n < 0 THEN 0..MaxSize ELSE ToSize(n)

PerEntry(c) == EntrySize + c["page_size_goal"] + c["key_reserve"]

\* calculate_optimal_pool_size, for a target of t bytes.
OptimalSize(c, t) == IF t = 0 THEN 0 ELSE t \div PerEntry(c)

\* What the pool may use of the memory that is not reserved.
Targets(c) ==
    UNION {ToSize(u * c["pool_max_memory_percent"]) :
           u \in ToSize((100 - c["memory_reserve_percentage"]) * Memory)}

Sizes(c) == [max : {OptimalSize(c, t) : t \in Targets(c)},
             prob : 0..MaxSize, threshold : 0..MaxSize]

\* Mutant: the threshold is taken of the whole pool.
InitOfWhole(c) ==
    {p \in Sizes(c) : /\ p.prob \in FloorToSize(c["probationary_pool_size"] * p.max)
                      /\ p.threshold \in ToSize(c["hard_trigger"] * p.max)
                      /\ p.max * PerEntry(c) <= Memory}

\* init of the pool: its size, that of its probationary part, and the threshold
\* in that.  prepopulate_pool allocates all the entries.
PoolInit(c) ==
    {p \in Sizes(c) : /\ p.prob \in FloorToSize(c["probationary_pool_size"] * p.max)
                      /\ p.threshold \in ToSize(c["hard_trigger"] * p.prob)
                      /\ p.max * PerEntry(c) <= Memory}

Starts(s) == shard[s].service = "starting" /\ shard'[s].service = "up"

\* A shard whose store has started has sized and filled its pool.
SizePools ==
    \/ \E s \in Shards : /\ Starts(s)
                         /\ \E p \in PoolInit(config) : pool' = [pool EXCEPT ![s] = p]
    \/ (\A s \in Shards : ~Starts(s)) /\ UNCHANGED pool

\* A step of init or of the servers.
Run(A) == stage = "run" /\ A /\ SizePools /\ UNCHANGED loader

StartNext == Load \/ Run(Next)

StartSpec == StartInit /\ [][StartNext]_startVars

\* As FairSpec, and main gets on with loading.
FairStart ==
    /\ StartSpec
    /\ WF_startVars(Load) /\ WF_startVars(Run(Continue \/ Wake))
    /\ \A s \in Shards : WF_startVars(Run(InitStep(s))) /\ WF_startVars(Run(AcceptStep(s)))
    /\ \A c \in Conns : WF_startVars(Run(LeaveGate(c)))

-----------------------------------------------------------------------------
(* Properties.                                                               *)

LastOf(S) == CHOOSE i \in S : \A j \in S : j <= i

\* What a line says, in the type of its key, or Bad when it says nothing of that type.
Reader(key) ==
    CASE key \in PortKeys \cup IntegerKeys -> "u64"
      [] key \in DoubleKeys -> "double"
      [] key \in BoolKeys -> "bool"
      [] OTHER -> "text"

Says(line) ==
    LET x == line.value[Reader(line.key)] IN
    IF line.key \notin Keys \/ (line.key \in PortKeys /\ x \notin Port) THEN Bad ELSE x

\* What the launch asks for: the command line's port, and else what is said by the
\* last line for the field that says anything, in the first file there is.
Asked(f) ==
    LET said == {i \in DOMAIN File : Field(File[i].key) = f /\ Says(File[i]) # Bad}
    IN  IF f = "db_port" /\ launch.port # Nil THEN launch.port
        ELSE IF said = {} THEN Default[f]
        ELSE Says(File[LastOf(said)])

\* The fields that something but the log reads.  Nothing reads soft_throttle, which
\* is assigned false whatever its line says.
UsedFields == Fields \ {"soft_throttle"}

Fraction(c, f) == c[f] \in 0..100

Sane(c) == /\ Fraction(c, "memory_reserve_percentage") /\ Fraction(c, "hard_trigger")
           /\ Fraction(c, "pool_max_memory_percent") /\ Fraction(c, "probationary_pool_size")

\* A client is served by the configuration that was asked for, whatever malformed
\* or repeated lines are in the file: every field in use has the value that was asked
\* for, and all shards have sized their pools, alike unless a conversion was undefined.
ServesAsAsked ==
    (\E c \in Conns : conn[c].pc = "processing") =>
        /\ \A f \in UsedFields : config[f] = Asked(f)
        /\ \A s, t \in Shards : pool[s] # Nil /\ (Sane(config) => pool[s] = pool[t])

\* From fractions that are fractions come sizes that the store can work with: the
\* pool fits into the memory that is not reserved, its probationary part into the
\* pool, and the reaper's threshold into that.
PoolsSound ==
    \A s \in Shards : pool[s] # Nil /\ Sane(config) =>
        /\ 100 * pool[s].max * PerEntry(config)
               <= (100 - config["memory_reserve_percentage"]) * Memory
        /\ pool[s].prob <= pool[s].max /\ pool[s].threshold <= pool[s].prob
=============================================================================
