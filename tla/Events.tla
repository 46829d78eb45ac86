------------------------------- MODULE Events -------------------------------
(* The event dispatcher, for one event name: Listen appends under the write lock, *)
(* Dispatch and DispatchAsync copy the slice header under the read lock and call   *)
(* the listeners without it.  The backing array is shared: an append that fits     *)
(* the capacity writes into the array a running dispatch reads.                    *)
EXTENDS Naturals, Sequences, SequencesExt

CONSTANTS EListeners,  \* listeners, each registered once
          ECalls       \* calls of Dispatch and DispatchAsync

VARIABLES eHeap,   \* the arrays allocated so far: capacity and elements written
          eSlice,  \* d.listeners[eventName]: array and length
          eCall    \* each call: its mode, slice, listeners run, errors, and (history) the
                   \* listeners that were registered when it began

evars == <<eHeap, eSlice, eCall>>
NoCall == [mode |-> "new"]

EInit == /\ eHeap = <<[cap |-> 0, data |-> <<>>]>> /\ eSlice = [array |-> 1, len |-> 0]
         /\ eCall = [c \in ECalls |-> NoCall]

Element(slice, n) == eHeap[slice.array].data[n]
Registered == [n \in 1 .. eSlice.len |-> Element(eSlice, n)]

\* Mutant of Listen: the newest listener goes first, in the shared array.
ListenFirst(l) ==
  /\ ~Contains(Registered, l)
  /\ LET old == eHeap[eSlice.array]
         grown == <<l>> \o SubSeq(old.data, 1, eSlice.len)
     IN IF eSlice.len < old.cap
        THEN /\ eHeap' = [eHeap EXCEPT ![eSlice.array].data = grown]
             /\ eSlice' = [eSlice EXCEPT !.len = @ + 1]
        ELSE /\ eHeap' = Append(eHeap, [cap |-> IF old.cap = 0 THEN 1 ELSE 2 * old.cap, data |-> grown])
             /\ eSlice' = [array |-> Len(eHeap) + 1, len |-> eSlice.len + 1]
  /\ UNCHANGED eCall

Listen(l) ==
  /\ ~Contains(Registered, l)
  /\ LET old == eHeap[eSlice.array]
         grown == SubSeq(old.data, 1, eSlice.len) \o <<l>>
     IN IF eSlice.len < old.cap
        THEN /\ eHeap' = [eHeap EXCEPT ![eSlice.array].data = grown]
             /\ eSlice' = [eSlice EXCEPT !.len = @ + 1]
        ELSE /\ eHeap' = Append(eHeap, [cap |-> IF old.cap = 0 THEN 1 ELSE 2 * old.cap, data |-> grown])
             /\ eSlice' = [array |-> Len(eHeap) + 1, len |-> eSlice.len + 1]
  /\ UNCHANGED eCall

BeginDispatch(c, mode) == /\ eCall[c] = NoCall
                          /\ eCall' = [eCall EXCEPT ![c] = [mode |-> mode, slice |-> eSlice, ran |-> <<>>,
                                                            errs |-> {}, at |-> Registered]]
                          /\ UNCHANGED <<eHeap, eSlice>>
Dispatch(c) == BeginDispatch(c, "sync")
DispatchAsync(c) == BeginDispatch(c, "async")

(* Dispatch: the next listener, unless one failed.  DispatchAsync: any goroutine       *)
(* that has not run yet; an error goes to the handler and stops nothing.               *)
Ready(c) == LET call == eCall[c] IN
  CASE call.mode = "sync" -> IF call.errs = {} THEN {Len(call.ran) + 1} \cap 1 .. call.slice.len ELSE {}
    [] call.mode = "async" -> {n \in 1 .. call.slice.len : ~Contains(call.ran, Element(call.slice, n))}
    [] OTHER -> {}
RunListener(c, n, ok) ==
  /\ n \in Ready(c)
  /\ LET l == Element(eCall[c].slice, n) IN
     eCall' = [eCall EXCEPT ![c].ran = Append(@, l), ![c].errs = IF ok THEN @ ELSE @ \cup {l}]
  /\ UNCHANGED <<eHeap, eSlice>>

ENext == \/ \E l \in EListeners : Listen(l)
         \/ \E c \in ECalls : \/ Dispatch(c) \/ DispatchAsync(c)
                              \/ \E n \in Ready(c), ok \in BOOLEAN : RunListener(c, n, ok)

ESpec == EInit /\ [][ENext]_evars

-----------------------------------------------------------------------------
ETypeOK == /\ eSlice.array \in DOMAIN eHeap /\ eSlice.len <= eHeap[eSlice.array].cap
           /\ \A c \in ECalls : eCall[c].mode \in {"new", "sync", "async"}

(* A dispatch calls exactly the listeners that were registered when it began, each      *)
(* once, whatever Listen appends to the shared array meanwhile: in order and up to the   *)
(* first error when synchronous, all of them when asynchronous.                          *)
DispatchesItsSnapshot ==
  \A c \in ECalls : LET call == eCall[c] IN call # NoCall =>
    /\ IsInjective(call.ran) /\ ToSet(call.ran) \subseteq ToSet(call.at)
    /\ call.mode = "sync" => /\ IsPrefix(call.ran, call.at)
                             /\ \A n \in DOMAIN call.ran : call.ran[n] \in call.errs => n = Len(call.ran)
    /\ Ready(c) = {} /\ (call.mode = "async" \/ call.errs = {}) => ToSet(call.ran) = ToSet(call.at)
=============================================================================
