------------------------------ MODULE Handles ------------------------------
(***************************************************************************)
(* The table of services by handle and the list of their names             *)
(* (skynet-src/skynet_handle.c).  A step is what a thread does under the   *)
(* reader-writer lock, or without it.                                      *)
(***************************************************************************)
EXTENDS Integers, SequencesExt

CONSTANTS
  Context,    (* contexts; one is used again after it was retired           *)
  Thread,     (* workers that launch services at the same time; one where   *)
              (* service/launcher.lua does it for all                       *)
  FirstSize,  (* DEFAULT_SLOT_SIZE, a power of 2: "& (slot_size - 1)" is    *)
              (* the remainder                                              *)
  MaxHandle,  (* HANDLE_MASK                                                *)
  MaxName,    (* bound: names, 1 .. MaxName by strcmp                       *)
  Null

ASSUME HandleParameters ==
  /\ Null \notin Context
  /\ FirstSize \in Nat \ {0} /\ MaxHandle \in Nat \ {0} /\ FirstSize <= MaxHandle
  /\ MaxName \in Nat

VARIABLES
  slot,       (* H->slot, with slot_size entries                            *)
  index,      (* H->handle_index                                            *)
  handle,     (* ctx->handle                                                *)
  got,        (* of a thread in skynet_context_new: the context and the     *)
              (* handle that skynet_handle_register returned                *)
  name,       (* H->name                                                    *)
  all,        (* skynet_handle_retireall: the slot, the handle read, n      *)
  must,       (* history: the contexts that it has to retire                *)
  given       (* history: the handle of each name, 0 for none               *)

handlevars == <<slot, index, handle, got, name, all, must, given>>

Size == Len(slot)
At(h) == slot[(h % Size) + 1]
InTable(c) == \E i \in DOMAIN slot : slot[i] = c
Registering(c) == \E t \in Thread : got[t].ctx = c

NoCall == [ctx |-> Null, handle |-> 0]
Idle == [at |-> "out", i |-> 0, handle |-> 0, n |-> 0]

HandleInit ==
  /\ slot = [i \in 1 .. FirstSize |-> Null]
  /\ index = 1
  /\ handle = [c \in Context |-> 0]
  /\ got = [t \in Thread |-> NoCall]
  /\ name = <<>>
  /\ all = Idle
  /\ must = {}
  /\ given = [n \in 1 .. MaxName |-> 0]

-----------------------------------------------------------------------------
(* skynet_handle_register.                                                 *)

(* The i-th handle that is tried: 0 is reserved.                           *)
Tried(i) == ((index + i - 1) % MaxHandle) + 1
FreeTries(s) == {i \in 0 .. Len(s) - 1 : s[(Tried(i) % Len(s)) + 1] = Null}

(* The table is full: one of twice the size.                               *)
MutOldMask(c) == handle[c] % Size       (* the hash of the old table         *)
Hash(c) == handle[c] % (2 * Size)
Expanded ==
  [i \in 1 .. 2 * Size |-> LET here == {c \in Context : InTable(c) /\ Hash(c) = i - 1}
                           IN IF here = {} THEN Null ELSE CHOOSE c \in here : TRUE]

(* Bound: handles may wrap only where the scan, which then skips slot 0,   *)
(* finds another free slot; if it finds none the code takes the table for  *)
(* full and reads the handle of the NULL in slot 0 (skynet_handle.c:63).   *)
(* The limits of the table's size (59) are not reached either, and once    *)
(* doubled it has a free slot, as it always does where its size and        *)
(* HANDLE_MASK + 1 are powers of 2, as they are in the code.               *)
WithinBounds ==
  \/ FreeTries(slot) # {}
  \/ /\ 2 * Size - 1 <= MaxHandle
     /\ \A i \in DOMAIN slot : slot[i] # Null
     /\ FreeTries(Expanded) # {}

Put(s, h, c) == [s EXCEPT ![(h % Len(s)) + 1] = c]

(* The handle found, in table s.                                           *)
Found(s) == Tried(Min(FreeTries(s)))

Register(t, c) ==
  LET s == IF FreeTries(slot) # {} THEN slot ELSE Expanded
      h == Found(s)
  IN
  /\ got[t] = NoCall /\ ~InTable(c) /\ ~Registering(c) /\ WithinBounds
  /\ slot' = Put(s, h, c)
  /\ index' = h + 1
  /\ got' = [got EXCEPT ![t] = [ctx |-> c, handle |-> h]]
  /\ must' = must \ {c}
  /\ UNCHANGED <<handle, name, all, given>>

(* skynet_context_new: ctx->handle is set without the lock.                *)
SetHandle(t) ==
  /\ got[t] # NoCall
  /\ handle' = [handle EXCEPT ![got[t].ctx] = got[t].handle]
  /\ got' = [got EXCEPT ![t] = NoCall]
  /\ UNCHANGED <<slot, index, name, all, must, given>>

-----------------------------------------------------------------------------
(* skynet_handle_retire, of a context that the table knows by handle h.    *)
Known(h) == At(h) # Null /\ handle[At(h)] = h

(* The loop that moves the names of other handles forward.                 *)
Move(f, h, i) ==
  IF i = 0 THEN <<>>
  ELSE IF name[i].handle = h THEN f[i - 1] ELSE Append(f[i - 1], name[i])
Kept(h) == LET moved[i \in 0 .. Len(name)] == Move(moved, h, i) IN moved[Len(name)]

Unnamed(h) == given' = [n \in 1 .. MaxName |-> IF given[n] = h THEN 0 ELSE given[n]]

Retiring(h) ==
  /\ slot' = Put(slot, h, Null)
  /\ handle' = [handle EXCEPT ![At(h)] = 0]
  /\ name' = Kept(h)
  /\ Unnamed(h)

Retire(h) ==
  /\ h # 0 /\ Known(h)
  /\ Retiring(h)
  /\ UNCHANGED <<index, got, all, must>>

-----------------------------------------------------------------------------
(* skynet_handle_retireall: passes over the slots until one retires none.  *)
AllBegin ==
  /\ all = Idle
  /\ all' = [Idle EXCEPT !.at = "look"]
  /\ must' = {c \in Context : InTable(c) /\ handle[c] # 0}
  /\ UNCHANGED <<slot, index, handle, got, name, given>>

(* The handle of a slot is read under the lock.                            *)
AllLook ==
  /\ all.at = "look" /\ all.i < Size
  /\ LET c == slot[all.i + 1]
         h == IF c = Null THEN 0 ELSE handle[c]
     IN all' = [all EXCEPT !.handle = h, !.i = @ + 1, !.at = IF h = 0 THEN "look" ELSE "retire"]
  /\ UNCHANGED <<slot, index, handle, got, name, must, given>>

(* skynet_handle_retire, unless another thread was faster.                 *)
AllRetire ==
  /\ all.at = "retire"
  /\ \/ /\ Known(all.handle)
        /\ Retiring(all.handle)
        /\ all' = [all EXCEPT !.at = "look", !.n = 1]
     \/ /\ ~Known(all.handle)
        /\ all' = [all EXCEPT !.at = "look"]
        /\ UNCHANGED <<slot, handle, name, given>>
  /\ UNCHANGED <<index, got, must>>

MutShortPass ==               (* a pass ends where the table once ended      *)
  /\ all.at = "look" /\ all.i >= FirstSize
  /\ all' = [Idle EXCEPT !.at = IF all.n = 0 THEN "done" ELSE "look"]
  /\ UNCHANGED <<slot, index, handle, got, name, must, given>>

AllPass ==
  /\ all.at = "look" /\ all.i = Size
  /\ all' = [Idle EXCEPT !.at = IF all.n = 0 THEN "done" ELSE "look"]
  /\ UNCHANGED <<slot, index, handle, got, name, must, given>>

-----------------------------------------------------------------------------
(* The names, sorted: the binary search of _insert_name and                *)
(* skynet_handle_findname, which gives the entry or the place for it.      *)
Spans == (1 .. Len(name) + 1) \X (0 .. Len(name))    (* begin and end        *)

(* One turn of the loop; the rest of the search is in f.                   *)
Compare(f, n, s) ==
  LET mid == (s[1] + s[2]) \div 2 IN
  IF s[1] > s[2] THEN [at |-> s[1], handle |-> 0]
  ELSE IF name[mid].name = n THEN [at |-> mid, handle |-> name[mid].handle]
  ELSE IF name[mid].name < n THEN f[<<mid + 1, s[2]>>]
  ELSE f[<<s[1], mid - 1>>]

Search(n) ==
  LET step[s \in Spans] == Compare(step, n, s) IN step[<<1, Len(name)>>]

(* skynet_handle_findname.                                                 *)
FindName(n) == Search(n).handle

MutAppend(n, h) ==            (* inserted at the end                         *)
  /\ FindName(n) = 0
  /\ name' = Append(name, [name |-> n, handle |-> h])
  /\ given' = [given EXCEPT ![n] = h]
  /\ UNCHANGED <<slot, index, handle, got, all, must>>

(* skynet_handle_namehandle: REG and NAME do not ask whether a service has *)
(* the handle.                                                             *)
NameHandle(n, h) ==
  /\ FindName(n) = 0
  /\ name' = InsertAt(name, Search(n).at, [name |-> n, handle |-> h])
  /\ given' = [given EXCEPT ![n] = h]
  /\ UNCHANGED <<slot, index, handle, got, all, must>>

-----------------------------------------------------------------------------
HandleNext ==
  \/ \E t \in Thread : SetHandle(t) \/ \E c \in Context : Register(t, c)
  \/ \E h \in 1 .. MaxHandle : Retire(h)
  \/ AllBegin \/ AllLook \/ AllRetire \/ AllPass
  \/ \E n \in 1 .. MaxName, h \in 1 .. MaxHandle : NameHandle(n, h)

HandleSpec == HandleInit /\ [][HandleNext]_handlevars

-----------------------------------------------------------------------------
(* Properties.                                                             *)

(* When the table is doubled no two contexts fall into one slot:           *)
(* skynet_handle.c:64 "assert(new_slot[hash] == NULL);".                   *)
ExpandAssert ==
  FreeTries(slot) = {} /\ (\E t \in Thread : got[t] = NoCall) =>
    \A c, d \in Context : InTable(c) /\ InTable(d) /\ Hash(c) = Hash(d) => c = d

(* The binary search finds each name that was given, with its handle, and  *)
(* none whose service was retired since (skynet_handle.c:88, 165, 215).    *)
NamesFound == \A n \in 1 .. MaxName : FindName(n) = given[n]

(* Every service is found by its handle and its names, and no other has    *)
(* them, also after the table grew and after handles wrapped around        *)
(* (skynet_handle.c:44, 63); a handle is never 0.                          *)
Reachable ==
  /\ NamesFound
  /\ ExpandAssert
  /\ \A c \in Context : handle[c] # 0 => At(handle[c]) = c
  /\ \A t \in Thread : got[t] # NoCall => got[t].handle \in 1 .. MaxHandle /\ At(got[t].handle) = got[t].ctx

(* When skynet_handle_retireall returns, every service that was known when *)
(* it was called is retired, although it reads the slots one by one while  *)
(* other threads retire and launch services and double the table           *)
(* (skynet_handle.c:118).                                                  *)
AllGone == all.at = "done" => \A c \in must : ~InTable(c)
=============================================================================
