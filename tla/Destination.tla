----------------------------- MODULE Destination -----------------------------
(***************************************************************************)
(* The destination RPC (rpcnet.cpp lines 61-202): a two-pass filtered      *)
(* listing of the address book's destination statistics.                  *)
(*                                                                         *)
(* The handler holds cs_main and cs_vNodes and works on vecStats, the copy *)
(* CAddrMan::CopyDestinationStats made, so no other thread changes what it *)
(* reads: the only interleaving is inside the handler. Pass 0 counts the   *)
(* matches and emits {tablesize, matchsize}; pass 1 emits one object per   *)
(* match. Each step below is one iteration of the loop of line 151.       *)
(*                                                                         *)
(* Strings are sequences of characters so that std::string::find is       *)
(* modelled by what it does.                                               *)
(***************************************************************************)
EXTENDS Integers, Sequences, SequencesExt

CONSTANTS
    Stats,      \* CDestinationStats records the address book may hold
    MaxBook,    \* most entries in the address book
    Calls       \* the parameter lists destination may be called with

ASSUME MaxBook \in Nat /\ Calls # {}

VARIABLES
    params,       \* the call's parameters
    vecStats,     \* the copy of the address book's destination stats
    nTableSize,   \* CopyDestinationStats's return value
    filter,       \* which of fMatchStr/fMatchTried/... parsing set
    sMatchStr,    \* the "match" argument
    pc,           \* "parse", "pass", "done", "error" or "help"
    i,            \* the pass, 0 or 1
    pos,          \* the next element of vecStats the pass visits
    nMatchSize,   \* the pass's match counter
    fMatchFound,  \* the loop's match flag
    ret           \* the UniValue array built so far

vars == <<params, vecStats, nTableSize, filter, sMatchStr, pc, i, pos,
          nMatchSize, fMatchFound, ret>>

NoBase64 == <<"-">>   \* stands for an object without the "base64" key

Filters == {"all", "match", "good", "attempt", "connect", "unknown"}

(* std::string::find(p) != npos: p occurs in s (the empty string always).  *)
Occurs(p, s) == \E k \in 0..(Len(s) - Len(p)) : SubSeq(s, k + 1, k + Len(p)) = p

(* Lines 152-168: whether one entry matches the filter.                    *)
Matches(f, str, stats) ==
    CASE f = "match"   -> \/ Occurs(str, stats.addr)
                          \/ Occurs(str, stats.source)
                          \/ Occurs(str, stats.base64)
      [] f = "good"    -> stats.tried
      [] f = "attempt" -> stats.attempts > 0
      [] f = "connect" -> stats.success > 0
      [] OTHER         -> TRUE

(* Lines 171-181: the object built for a matching entry; "base64" only     *)
(* when a filter was selected.                                              *)
MatchObject(f, stats) ==
    [address |-> stats.addr, good |-> stats.tried, attempt |-> stats.attempts,
     lasttry |-> stats.lasttry, connect |-> stats.success, source |-> stats.source,
     base64 |-> IF f # "all" THEN stats.base64 ELSE NoBase64]

SizesObject(t, m) == [tablesize |-> t, matchsize |-> m]

Init ==
    /\ params \in Calls
    /\ vecStats \in BoundedSeq(Stats, MaxBook)
    /\ nTableSize = Len(vecStats)   \* CAddrMan::CopyDestinationStats
    /\ filter = "all"
    /\ sMatchStr = <<>>
    /\ pc = "parse"
    /\ i = 0
    /\ pos = 1
    /\ nMatchSize = 0
    /\ fMatchFound = FALSE
    /\ ret = <<>>

(* Lines 63-64: more than two parameters is the help text.                 *)
Help ==
    /\ pc = "parse"
    /\ params.n > 2
    /\ pc' = "help"
    /\ UNCHANGED <<params, vecStats, nTableSize, filter, sMatchStr, i, pos,
                   nMatchSize, fMatchFound, ret>>

(* Lines 115-140 and 147/199: the subcommand sets one filter flag; an      *)
(* unknown one, or "match" without its argument, throws RPC_INVALID_PARAMS. *)
Parse ==
    /\ pc = "parse"
    /\ params.n <= 2
    /\ LET f == IF params.n = 0 THEN "all"
                ELSE IF params.cmd = "match" /\ params.n < 2 THEN "unknown"
                ELSE IF params.cmd \in {"match", "good", "attempt", "connect"}
                     THEN params.cmd
                ELSE "unknown"
       IN  /\ filter' = f
           /\ sMatchStr' = IF f = "match" THEN params.str ELSE <<>>
           /\ pc' = IF f = "unknown" THEN "error" ELSE "pass"
    /\ UNCHANGED <<params, vecStats, nTableSize, i, pos, nMatchSize, fMatchFound, ret>>

(* Mutant: fMatchFound is not reset after a match is counted (line 186).   *)
VisitNoReset ==
    /\ pc = "pass"
    /\ pos <= Len(vecStats)
    /\ LET stats == vecStats[pos]
           found == fMatchFound \/ Matches(filter, sMatchStr, stats)
       IN  /\ ret' = IF i = 1 /\ found THEN Append(ret, MatchObject(filter, stats)) ELSE ret
           /\ nMatchSize' = IF found THEN nMatchSize + 1 ELSE nMatchSize
           /\ fMatchFound' = found
    /\ pos' = pos + 1
    /\ UNCHANGED <<params, vecStats, nTableSize, filter, sMatchStr, pc, i>>

(* Lines 151-187: one entry: test it, emit its object on pass 1, count it. *)
Visit ==
    /\ pc = "pass"
    /\ pos <= Len(vecStats)
    /\ LET stats == vecStats[pos]
           found == fMatchFound \/ Matches(filter, sMatchStr, stats)
       IN  /\ ret' = IF i = 1 /\ found THEN Append(ret, MatchObject(filter, stats)) ELSE ret
           /\ nMatchSize' = IF found THEN nMatchSize + 1 ELSE nMatchSize
    /\ fMatchFound' = FALSE
    /\ pos' = pos + 1
    /\ UNCHANGED <<params, vecStats, nTableSize, filter, sMatchStr, pc, i>>

(* Lines 189-197 and 148-150: after pass 0 the sizes object is appended    *)
(* first; the next pass starts with fresh counters; after pass 1 the array *)
(* is returned (line 201).                                                  *)
EndPass ==
    /\ pc = "pass"
    /\ pos > Len(vecStats)
    /\ ret' = IF i = 0 THEN Append(ret, SizesObject(nTableSize, nMatchSize)) ELSE ret
    /\ IF i = 0 THEN i' = 1 /\ pc' = "pass" ELSE pc' = "done" /\ UNCHANGED i
    /\ pos' = 1
    /\ nMatchSize' = 0
    /\ fMatchFound' = FALSE
    /\ UNCHANGED <<params, vecStats, nTableSize, filter, sMatchStr>>

Next == Help \/ Parse \/ Visit \/ EndPass

Spec == Init /\ [][Next]_vars /\ WF_vars(Next)

-----------------------------------------------------------------------------

(* The spec's destination (4.2): an unknown subcommand is an error; else   *)
(* {tablesize, matchsize} followed by the matching entries in address-book *)
(* order, tablesize the book's size whatever the filter and matchsize the  *)
(* number of match objects that follow (spec 8.1, 8.2).                    *)
Chars(book) == UNION {Range(s.addr) \cup Range(s.source) \cup Range(s.base64) : s \in Range(book)}
MaxStr == 3

Reference(p, book) ==
    LET f == IF p.n = 0 THEN "all"
             ELSE IF p.cmd \in {"good", "attempt", "connect"} \/ (p.cmd = "match" /\ p.n = 2)
                  THEN p.cmd ELSE "unknown"
        str == IF f = "match" THEN p.str ELSE <<>>
        \* the filters as spec 4.2 words them
        IsMatch(s) ==
            CASE f = "match"   -> \E fld \in {s.addr, s.source, s.base64} :
                                     \E u, v \in BoundedSeq(Chars(book), MaxStr) :
                                         fld = u \o str \o v
              [] f = "good"    -> s.tried
              [] f = "attempt" -> s.attempts # 0
              [] f = "connect" -> s.success # 0
              [] OTHER         -> TRUE
        hits == SelectSeq(book, IsMatch)
    IN  IF p.n > 2 THEN "help"
        ELSE IF f = "unknown" THEN "error"
        ELSE <<SizesObject(Len(book), Len(hits))>>
             \o [k \in 1..Len(hits) |-> MatchObject(f, hits[k])]

(* When the handler finishes, its outcome is the reference's.              *)
ReturnsReference ==
    pc \in {"done", "error", "help"} =>
        Reference(params, vecStats) = IF pc = "done" THEN ret ELSE pc

====
