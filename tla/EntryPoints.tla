------------------------------ MODULE EntryPoints ------------------------------
(***************************************************************************)
(* The cache of OpenGL entry points (common/nack_proc_cache.cpp): an open  *)
(* hash table that lives as long as the process, over a driver that comes  *)
(* and goes with the window layer.                                         *)
(*                                                                         *)
(* The hash is any function; the table is small, so that it fills.         *)
(***************************************************************************)
EXTENDS Integers, FiniteSetsExt

CONSTANTS
  Name,        \* entry points looked up
  LongName,    \* those of more than NACK_PROC_NAME_MAX characters
  Absent,      \* those the driver does not have
  Contextual,  \* those it has only while a context is current (WGL)
  Size,        \* NACK_PROC_CACHE_SIZE
  MaxSessions  \* bound: times the window layer starts

ASSUME EntryPointsAssumption ==
  /\ LongName \subseteq Name /\ Absent \subseteq Name /\ Contextual \subseteq Name
  /\ Size \in Nat \ {0} /\ MaxSessions \in Nat \ {0}

VARIABLES
  hash,     \* nack__proc_hash & NACK_PROC_CACHE_MASK of the names it is taken of
  slots,    \* nack__proc_cache: [used, name, proc]
  count,    \* nack__proc_cache_used
  layer,    \* [up, session, context] of the window layer and its driver
  said,     \* history: name -> the answers of this session's driver
  answer    \* history: [name, proc] the last lookup gave

cacheVars == <<hash, slots, count, layer, said, answer>>

Unnamed  == "unnamed"
Null     == <<0, Unnamed>>
Empty    == [used |-> FALSE, name |-> Unnamed, proc |-> Null]
Emptied  == [i \in 0 .. Size - 1 |-> Empty]
NoAnswer == [name |-> Unnamed, proc |-> Null]
Silent   == [n \in Name |-> {}]

\* gl_get_proc_address of the backend: what the driver has now.
Resolve(n) ==
  IF n \in Absent \/ (n \in Contextual /\ ~layer.context) THEN Null
  ELSE <<layer.session, n>>

-----------------------------------------------------------------------------
\* The probes at which the search for a name can end.
Probes(n) ==
  {p \in 0 .. Size - 1 :
     LET slot == slots[(hash[n] + p) % Size] IN ~slot.used \/ slot.name = n}

\* nack__proc_cache_get
CacheGet(n) ==
  LET at   == (hash[n] + Min(Probes(n))) % Size
      took == answer' = [name |-> n, proc |-> Resolve(n)]
  IN IF n \in LongName \/ Probes(n) = {} THEN took /\ UNCHANGED <<slots, count>>
     ELSE IF slots[at].used
     THEN answer' = [name |-> n, proc |-> slots[at].proc] /\ UNCHANGED <<slots, count>>
     ELSE /\ took
          /\ IF count + 1 >= Size THEN UNCHANGED <<slots, count>>
             ELSE /\ slots' = [slots EXCEPT ![at] = [used |-> TRUE, name |-> n, proc |-> Resolve(n)]]
                  /\ count' = count + 1

\* nack__gl_get_proc_address
GetProcAddress(n) ==
  /\ IF layer.up
     THEN CacheGet(n) /\ said' = [said EXCEPT ![n] = @ \cup {Resolve(n)}]
     ELSE answer' = [name |-> n, proc |-> Null] /\ UNCHANGED <<slots, count, said>>
  /\ UNCHANGED <<hash, layer>>

\* nack__gl_make_current, from and to no context
MakeCurrent ==
  /\ layer.up
  /\ layer' = [layer EXCEPT !.context = ~@]
  /\ UNCHANGED <<hash, slots, count, said, answer>>

\* nack__win_init
WinInit ==
  /\ ~layer.up /\ layer.session < MaxSessions
  /\ layer' = [up |-> TRUE, session |-> layer.session + 1, context |-> FALSE]
  /\ said' = Silent /\ answer' = NoAnswer
  /\ UNCHANGED <<hash, slots, count>>

\* Mutant: what the driver that goes gave stays.
CacheClearNot == UNCHANGED <<slots, count>>

\* nack__proc_cache_clear
CacheClear == slots' = Emptied /\ count' = 0

\* nack__win_shutdown
WinShutdown ==
  /\ layer.up
  /\ layer' = [layer EXCEPT !.up = FALSE, !.context = FALSE]
  /\ CacheClear
  /\ answer' = NoAnswer
  /\ UNCHANGED <<hash, said>>

CacheInit ==
  /\ hash \in [Name \ LongName -> 0 .. Size - 1]
  /\ slots = Emptied /\ count = 0
  /\ layer = [up |-> FALSE, session |-> 0, context |-> FALSE]
  /\ said = Silent /\ answer = NoAnswer

CacheNext == WinInit \/ WinShutdown \/ MakeCurrent \/ \E n \in Name : GetProcAddress(n)

CacheSpec == CacheInit /\ [][CacheNext]_cacheVars

-----------------------------------------------------------------------------
(* Properties *)

\* However names collide and the table fills, a lookup answers what the driver
\* of this session said of that very name: "Entry points belong to the driver
\* we are dropping" (nack.cpp:521).  Only a name the driver has at some times
\* may be answered with what was true earlier.
AnswersAreTheDrivers ==
  layer.up /\ answer # NoAnswer =>
    /\ answer.proc \in said[answer.name]
    /\ answer.name \notin Contextual => answer.proc = Resolve(answer.name)
===============================================================================
