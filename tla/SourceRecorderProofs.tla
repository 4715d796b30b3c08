----------------------- MODULE SourceRecorderProofs -----------------------
(***************************************************************************)
(* For every program, every debug information and every execution: the     *)
(* calls open in the trace are the recorder's frames with the inlined      *)
(* calls in each, none is left open or closed twice, and the last step is  *)
(* of the innermost.  Where no call falls into the next instruction the    *)
(* memory is the interpreter's, and where DWARF describes every function   *)
(* the frames are the interpreter's calls.                                 *)
(***************************************************************************)
EXTENDS SourceRecorder, SharedLemmas

\* A scope of a function is among the inlined ones, and its call a call.
LEMMA ScopesOfFunction ==
  ASSUME NEW f \in Functions
  PROVE  /\ Range(Scopes[f]) \subseteq InlinedScopes
         /\ Scopes[f] \in Seq(Range(Scopes[f]))
         /\ \A i \in 1 .. Len(Scopes[f]) : Scopes[f][i] \in Range(Scopes[f])
<1>1. Scopes[f] \in Seq([call : Calls, pcs : SUBSET PC])
  BY DebugType
<1>2. DOMAIN Scopes[f] = 1 .. Len(Scopes[f]) /\ Len(Scopes[f]) \in Nat
  BY <1>1
<1>3. \A i \in 1 .. Len(Scopes[f]) : Scopes[f][i] \in Range(Scopes[f])
  BY <1>2 DEF Range
<1>4. Scopes[f] \in [1 .. Len(Scopes[f]) -> Range(Scopes[f])]
  BY <1>1, <1>2, <1>3, LenProperties
<1>5. Scopes[f] \in Seq(Range(Scopes[f]))
  BY <1>2, <1>4, SeqDef
<1>6. Range(Scopes[f]) \subseteq InlinedScopes
  BY DEF InlinedScopes
<1> QED BY <1>3, <1>5, <1>6

LEMMA CallOfScope == \A s \in InlinedScopes : s.call \in Calls
BY DEF Calls

(***************************************************************************)
(* The chain of inlined calls around a pc is a sequence of the function's  *)
(* scopes.                                                                 *)
(***************************************************************************)
LEMMA ChainOfScopes ==
  ASSUME NEW f \in Functions, NEW pc
  PROVE  InlinedChain(f, pc) \in Seq(Range(Scopes[f]))
<1> PICK S : S = Seq(Range(Scopes[f]))
  OBVIOUS
<1> PICK n \in Nat : n = Len(Scopes[f])
  BY ScopesOfFunction
<1> DEFINE Grow(i, s) == IF pc \in Scopes[f][i].pcs THEN Append(s, Scopes[f][i]) ELSE s
           Grows(h) == h = [i \in 0 .. n |-> IF i = 0 THEN << >>
                                             ELSE IF pc \in Scopes[f][i].pcs
                                               THEN Append(h[i - 1], Scopes[f][i])
                                             ELSE h[i - 1]]
           grow == [p \in (1 .. n) \X S |-> Grow(p[1], p[2])]
<1>1. << >> \in S
  OBVIOUS
<1>2. \A i \in 1 .. n, s \in S : Grow(i, s) \in S
  BY ScopesOfFunction, AppendProperties
<1>3. grow \in [(1 .. n) \X S -> S] /\ \A i \in 1 .. n, s \in S : grow[<< i, s >>] = Grow(i, s)
  <2> HIDE DEF Grow
  <2> QED BY <1>2
<1>4. \E h : Grows(h)
  <2>1. PICK h \in [0 .. n -> S] : h[0] = << >> /\ \A i \in 1 .. n : h[i] = grow[<< i, h[i - 1] >>]
    <3> HIDE DEF grow
    <3>1. PICK h \in [0 .. n -> S] : Iterates(h, n, << >>, grow)
      BY <1>1, <1>3, Recursion
    <3> QED BY <3>1 DEF Iterates
  <2>2. \A i \in 1 .. n : i - 1 \in 0 .. n
    OBVIOUS
  <2>3. \A i \in 1 .. n : h[i] = Grow(i, h[i - 1])
    <3> HIDE DEF grow, Grow
    <3> QED BY <1>3, <2>1, <2>2
  <2>4. h = [i \in 0 .. n |-> IF i = 0 THEN << >> ELSE h[i]]
    BY <2>1
  <2>5. \A i \in 0 .. n : i = 0 \/ i \in 1 .. n
    OBVIOUS
  <2>6. Grows(h)
    BY <2>1, <2>3, <2>5
  <2> HIDE DEF Grows
  <2> QED BY <2>6
<1> DEFINE g == CHOOSE h : Grows(h)
<1>5. Grows(g)
  <2> HIDE DEF Grows
  <2> QED BY <1>4
<1>6. InlinedChain(f, pc) = g[n]
  BY DEF InlinedChain
<1>7. \A i \in 0 .. n : g[i] = IF i = 0 THEN << >> ELSE Grow(i, g[i - 1])
  <2> HIDE DEF g
  <2> QED BY <1>5
<1> DEFINE Typed == {i \in 0 .. n : g[i] \in S}
<1> HIDE DEF g, Grow
<1>8. 0 \in Typed /\ \A i \in 1 .. n : i - 1 \in Typed => i \in Typed
  <2>0. 0 \in 0 .. n
    OBVIOUS
  <2>1. g[0] = << >>
    BY <1>7, <2>0
  <2>2. ASSUME NEW i \in 1 .. n, g[i - 1] \in S PROVE i \in 0 .. n /\ g[i] \in S
    <3>1. i \in 0 .. n /\ i # 0
      OBVIOUS
    <3> QED BY <1>2, <1>7, <2>2, <3>1
  <2> QED BY <1>1, <2>0, <2>1, <2>2, Zenon
<1>9. \A i \in 0 .. n : i \in Typed
  <2> HIDE DEF Typed
  <2> QED BY <1>8, Induction
<1> QED BY <1>6, <1>9

(***************************************************************************)
(* The calls of scopes and of a frame.                                     *)
(***************************************************************************)
LEMMA CallsOfScopes ==
  ASSUME NEW s \in Seq(InlinedScopes)
  PROVE  /\ ScopeCalls(s) \in Seq(Calls)
         /\ Len(ScopeCalls(s)) = Len(s)
         /\ \A i \in 1 .. Len(s) : ScopeCalls(s)[i] = s[i].call
<1>1. DOMAIN s = 1 .. Len(s) /\ Len(s) \in Nat
  OBVIOUS
<1>2. \A i \in 1 .. Len(s) : s[i] \in InlinedScopes
  BY ElementOfSeq
<1>3. \A i \in 1 .. Len(s) : s[i].call \in Calls
  BY <1>2, CallOfScope
<1>4. ScopeCalls(s) \in [1 .. Len(s) -> Calls]
  BY <1>1, <1>3 DEF ScopeCalls
<1>5. ScopeCalls(s) \in Seq(Calls)
  BY <1>1, <1>4, SeqDef
<1>6. Len(ScopeCalls(s)) = Len(s)
  BY <1>1, <1>4, <1>5, LenProperties
<1>7. \A i \in 1 .. Len(s) : ScopeCalls(s)[i] = s[i].call
  BY <1>1 DEF ScopeCalls
<1> QED BY <1>5, <1>6, <1>7

LEMMA CallsOfFrame ==
  ASSUME NEW frame \in Frames
  PROVE  /\ << frame.function >> \in Seq(Calls)
         /\ ScopeCalls(frame.inlined) \in Seq(Calls)
         /\ FrameCalls(frame) \in Seq(Calls)
<1>1. frame.function \in Calls /\ frame.inlined \in Seq(InlinedScopes)
  BY DEF Frames, Calls
<1>2. << frame.function >> \in Seq(Calls)
  BY <1>1
<1>3. ScopeCalls(frame.inlined) \in Seq(Calls)
  BY <1>1, CallsOfScopes
<1> QED BY <1>2, <1>3, ConcatProperties DEF FrameCalls

(***************************************************************************)
(* The calls of the first frames of a stack, one frame at a time.          *)
(***************************************************************************)
Accumulates(calls, frames) ==
  /\ calls[0] = << >>
  /\ \A i \in 1 .. Len(frames) : calls[i] = calls[i - 1] \o FrameCalls(frames[i])
  /\ \A i \in 0 .. Len(frames) : calls[i] \in Seq(Calls)

LEMMA CallsOfFrames ==
  ASSUME NEW frames \in Seq(Frames)
  PROVE  \E calls : Accumulates(calls, frames) /\ CallsOf(frames) = calls[Len(frames)]
<1> PICK S : S = Seq(Calls)
  OBVIOUS
<1> PICK n \in Nat : n = Len(frames)
  OBVIOUS
<1> DEFINE Grow(i, s) == s \o FrameCalls(frames[i])
           Grows(h) == h = [i \in 0 .. n |-> IF i = 0 THEN << >>
                                             ELSE h[i - 1] \o FrameCalls(frames[i])]
           grow == [p \in (1 .. n) \X S |-> Grow(p[1], p[2])]
<1>1. << >> \in S
  OBVIOUS
<1>2. \A i \in 1 .. n, s \in S : Grow(i, s) \in S
  <2>1. \A i \in 1 .. n : frames[i] \in Frames
    BY ElementOfSeq
  <2>2. \A i \in 1 .. n : FrameCalls(frames[i]) \in Seq(Calls)
    BY <2>1, CallsOfFrame
  <2> QED BY <2>2, ConcatProperties
<1>3. grow \in [(1 .. n) \X S -> S] /\ \A i \in 1 .. n, s \in S : grow[<< i, s >>] = Grow(i, s)
  <2> HIDE DEF Grow
  <2> QED BY <1>2
<1>4. \E h : Grows(h)
  <2>1. PICK h \in [0 .. n -> S] : h[0] = << >> /\ \A i \in 1 .. n : h[i] = grow[<< i, h[i - 1] >>]
    <3> HIDE DEF grow
    <3>1. PICK h \in [0 .. n -> S] : Iterates(h, n, << >>, grow)
      BY <1>1, <1>3, Recursion
    <3> QED BY <3>1 DEF Iterates
  <2>2. \A i \in 1 .. n : i - 1 \in 0 .. n
    OBVIOUS
  <2>3. \A i \in 1 .. n : h[i] = Grow(i, h[i - 1])
    <3> HIDE DEF grow, Grow
    <3> QED BY <1>3, <2>1, <2>2
  <2>4. \A i \in 0 .. n : i = 0 \/ i \in 1 .. n
    OBVIOUS
  <2>5. Grows(h)
    BY <2>1, <2>3, <2>4
  <2> HIDE DEF Grows
  <2> QED BY <2>5
<1> DEFINE g == CHOOSE h : Grows(h)
<1>5. Grows(g)
  <2> HIDE DEF Grows
  <2> QED BY <1>4
<1>6. CallsOf(frames) = g[n]
  BY DEF CallsOf
<1>7. \A i \in 0 .. n : g[i] = IF i = 0 THEN << >> ELSE Grow(i, g[i - 1])
  <2> HIDE DEF g
  <2> QED BY <1>5
<1>8. \A i \in 1 .. n : g[i] = Grow(i, g[i - 1])
  <2>1. \A i \in 1 .. n : i \in 0 .. n /\ i # 0
    OBVIOUS
  <2> HIDE DEF g, Grow
  <2> QED BY <1>7, <2>1
<1> DEFINE Typed == {i \in 0 .. n : g[i] \in S}
<1>9. \A i \in 0 .. n : i \in Typed
  <2> HIDE DEF g, Grow
  <2>0. 0 \in 0 .. n /\ g[0] = << >>
    BY <1>7
  <2>1. 0 \in Typed
    BY <1>1, <2>0, Zenon
  <2>2. ASSUME NEW i \in 1 .. n, i - 1 \in Typed PROVE i \in Typed
    BY <1>2, <1>8, <2>2
  <2> HIDE DEF Typed
  <2> QED BY <2>1, <2>2, Induction
<1>10. g[0] = << >>
  <2> HIDE DEF g, Grow
  <2> QED BY <1>7
<1>11. Accumulates(g, frames)
  <2> HIDE DEF g
  <2> QED BY <1>8, <1>9, <1>10 DEF Accumulates
<1> QED BY <1>6, <1>11

LEMMA CallsOfNone == CallsOf(<< >>) = << >>
<1>1. << >> \in Seq(Frames) /\ Len(<< >>) = 0
  OBVIOUS
<1>2. PICK calls : Accumulates(calls, << >>) /\ CallsOf(<< >>) = calls[0]
  BY <1>1, CallsOfFrames
<1> QED BY <1>2 DEF Accumulates

LEMMA CallsOfAppended ==
  ASSUME NEW frames \in Seq(Frames), NEW frame \in Frames
  PROVE  /\ CallsOf(frames) \in Seq(Calls)
         /\ CallsOf(Append(frames, frame)) = CallsOf(frames) \o FrameCalls(frame)
<1> PICK more : more = Append(frames, frame)
  OBVIOUS
<1> PICK n \in Nat : n = Len(frames)
  OBVIOUS
<1>1. more \in Seq(Frames) /\ Len(more) = n + 1 /\ more[n + 1] = frame
      /\ \A i \in 1 .. n : more[i] = frames[i]
  BY AppendProperties
<1>2. PICK a : Accumulates(a, frames) /\ CallsOf(frames) = a[n]
  BY CallsOfFrames
<1>3. PICK b : Accumulates(b, more) /\ CallsOf(more) = b[n + 1]
  BY <1>1, CallsOfFrames
<1>4. Len(more) = n + 1
  BY <1>1
<1>6. \A i \in 1 .. n + 1 : b[i] = b[i - 1] \o FrameCalls(more[i])
  BY <1>3, <1>4, Zenon DEF Accumulates
<1> DEFINE Same == {i \in 0 .. n : a[i] = b[i]}
<1>5. \A i \in 0 .. n : i \in Same
  <2>1. 0 \in Same
    BY <1>2, <1>3 DEF Accumulates
  <2>2. ASSUME NEW i \in 1 .. n, i - 1 \in Same PROVE i \in Same
    <3>1. a[i] = a[i - 1] \o FrameCalls(frames[i])
      BY <1>2 DEF Accumulates
    <3>2. i \in 1 .. n + 1 /\ i \in 0 .. n
      OBVIOUS
    <3>3. b[i] = b[i - 1] \o FrameCalls(more[i])
      BY <1>6, <3>2
    <3>4. a[i - 1] = b[i - 1] /\ more[i] = frames[i]
      BY <1>1, <2>2
    <3> QED BY <3>1, <3>2, <3>3, <3>4, Zenon
  <2> HIDE DEF Same
  <2> QED BY <2>1, <2>2, Induction
<1>7. b[n + 1] = b[n] \o FrameCalls(more[n + 1])
  <2> PICK m : m = n + 1
    OBVIOUS
  <2>1. m \in 1 .. n + 1 /\ m - 1 = n
    OBVIOUS
  <2>2. b[m] = b[m - 1] \o FrameCalls(more[m])
    BY <1>6, <2>1
  <2> QED BY <2>1, <2>2
<1>8. a[n] = b[n]
  BY <1>5
<1>9. CallsOf(frames) \in Seq(Calls)
  BY <1>2 DEF Accumulates
<1> QED BY <1>1, <1>2, <1>3, <1>7, <1>8, <1>9

----------------------------------------------------------------------------
(***************************************************************************)
(* What the writer's operations do to the functions of the open calls.     *)
(***************************************************************************)
SourceTraces == Traces(Calls, Nil, Steps)

LEMMA OpenFunctions ==
  ASSUME NEW t \in SourceTraces
  PROVE  /\ t.open \in Seq(OpenCalls(Calls, Nil))
         /\ OpenFns(t) \in Seq(Calls)
         /\ Len(OpenFns(t)) = Len(t.open)
         /\ Len(t.open) \in Nat
         /\ \A i \in 1 .. Len(t.open) : OpenFns(t)[i] = t.open[i].fn
<1>1. t.open \in Seq(OpenCalls(Calls, Nil))
  BY DEF SourceTraces, Traces
<1>2. Len(t.open) \in Nat /\ DOMAIN t.open = 1 .. Len(t.open)
  BY <1>1
<1>3. \A i \in 1 .. Len(t.open) : t.open[i] \in OpenCalls(Calls, Nil)
  BY <1>1
<1>4. \A i \in 1 .. Len(t.open) : t.open[i].fn \in Calls
  BY <1>3 DEF OpenCalls
<1>5. OpenFns(t) \in [1 .. Len(t.open) -> Calls]
  BY <1>2, <1>4 DEF OpenFns
<1>6. OpenFns(t) \in Seq(Calls)
  BY <1>2, <1>5, SeqDef
<1>7. Len(OpenFns(t)) = Len(t.open)
  BY <1>2, <1>5, <1>6, LenProperties
<1>8. \A i \in 1 .. Len(t.open) : OpenFns(t)[i] = t.open[i].fn
  BY <1>2 DEF OpenFns
<1> QED BY <1>1, <1>2, <1>6, <1>7, <1>8

\* Only the open calls change.
Kept(t, u) == u.orphan = t.orphan /\ u.drained = t.drained /\ u.position = t.position

LEMMA LenDomain ==
  ASSUME NEW S, NEW s \in Seq(S), NEW n \in Nat, DOMAIN s = 1 .. n
  PROVE  Len(s) = n
OBVIOUS

LEMMA OpenReplaced ==
  ASSUME NEW t \in SourceTraces, NEW open \in Seq(OpenCalls(Calls, Nil))
  PROVE  /\ [t EXCEPT !.open = open] \in SourceTraces
         /\ [t EXCEPT !.open = open].open = open
         /\ Kept(t, [t EXCEPT !.open = open])
BY DEF SourceTraces, Traces, Kept

LEMMA ReturnedFunctions ==
  ASSUME NEW t \in SourceTraces, NEW m \in 0 .. Len(t.open)
  PROVE  /\ Returned(t, m) \in SourceTraces
         /\ Kept(t, Returned(t, m))
         /\ OpenFns(Returned(t, m)) = SubSeq(OpenFns(t), 1, Len(t.open) - m)
<1> PICK u : u = Returned(t, m)
  OBVIOUS
<1> PICK k : k = Len(t.open) - m
  OBVIOUS
<1>1. t.open \in Seq(OpenCalls(Calls, Nil)) /\ k \in Nat /\ k <= Len(t.open)
  BY OpenFunctions
<1>2. u = [t EXCEPT !.open = SubSeq(t.open, 1, k)]
  BY <1>1 DEF Returned
<1>3. /\ SubSeq(t.open, 1, k) \in Seq(OpenCalls(Calls, Nil))
      /\ Len(SubSeq(t.open, 1, k)) = k
      /\ \A i \in 1 .. k : SubSeq(t.open, 1, k)[i] = t.open[i]
  BY <1>1, SubSeqProperties
<1>4. u \in SourceTraces /\ u.open = SubSeq(t.open, 1, k) /\ Kept(t, u)
  BY ONLY t \in SourceTraces, <1>2, <1>3, OpenReplaced
<1>5. /\ OpenFns(u) \in Seq(Calls)
      /\ Len(OpenFns(u)) = k
      /\ \A i \in 1 .. k : OpenFns(u)[i] = t.open[i].fn
  <2>1. OpenFns(u) \in Seq(Calls) /\ Len(OpenFns(u)) = Len(u.open)
        /\ \A i \in 1 .. Len(u.open) : OpenFns(u)[i] = u.open[i].fn
    BY <1>4, OpenFunctions
  <2>2. Len(u.open) = k /\ \A i \in 1 .. k : u.open[i] = t.open[i]
    BY <1>3, <1>4
  <2> QED BY <2>1, <2>2
<1>6. /\ SubSeq(OpenFns(t), 1, k) \in Seq(Calls)
      /\ Len(SubSeq(OpenFns(t), 1, k)) = k
      /\ \A i \in 1 .. k : SubSeq(OpenFns(t), 1, k)[i] = t.open[i].fn
  <2>1. OpenFns(t) \in Seq(Calls) /\ Len(OpenFns(t)) = Len(t.open)
        /\ \A i \in 1 .. Len(t.open) : OpenFns(t)[i] = t.open[i].fn
    BY OpenFunctions
  <2> QED BY <1>1, <2>1, SubSeqProperties
<1>7. OpenFns(u) = SubSeq(OpenFns(t), 1, k)
  BY <1>5, <1>6, SeqEqual
<1> QED BY <1>4, <1>7

LEMMA CalledFunctions ==
  ASSUME NEW t \in SourceTraces, NEW fn \in Calls
  PROVE  /\ Called(t, fn, Nil) \in SourceTraces
         /\ Kept(t, Called(t, fn, Nil))
         /\ OpenFns(Called(t, fn, Nil)) = Append(OpenFns(t), fn)
<1> PICK u : u = Called(t, fn, Nil)
  OBVIOUS
<1> PICK call : call = [fn |-> fn, target |-> Nil]
  OBVIOUS
<1>1. t.open \in Seq(OpenCalls(Calls, Nil)) /\ call \in OpenCalls(Calls, Nil) /\ call.fn = fn
  BY OpenFunctions DEF OpenCalls
<1>2. u = [t EXCEPT !.open = Append(t.open, call)]
  BY DEF Called
<1> PICK n \in Nat : n = Len(t.open)
  BY OpenFunctions
<1>3. /\ Append(t.open, call) \in Seq(OpenCalls(Calls, Nil))
      /\ Len(Append(t.open, call)) = n + 1
      /\ \A i \in 1 .. n : Append(t.open, call)[i] = t.open[i]
      /\ Append(t.open, call)[n + 1] = call
  BY <1>1, AppendProperties
<1>4. u \in SourceTraces /\ u.open = Append(t.open, call) /\ Kept(t, u)
  BY ONLY t \in SourceTraces, <1>2, <1>3, OpenReplaced
<1>5. /\ OpenFns(u) \in Seq(Calls)
      /\ Len(OpenFns(u)) = n + 1
      /\ \A i \in 1 .. n : OpenFns(u)[i] = t.open[i].fn
      /\ OpenFns(u)[n + 1] = fn
  <2>1. OpenFns(u) \in Seq(Calls) /\ Len(OpenFns(u)) = Len(u.open)
        /\ \A i \in 1 .. Len(u.open) : OpenFns(u)[i] = u.open[i].fn
    BY <1>4, OpenFunctions
  <2>2. Len(u.open) = n + 1 /\ \A i \in 1 .. n : u.open[i] = t.open[i]
    BY <1>3, <1>4
  <2>3. u.open[n + 1].fn = fn
    BY <1>1, <1>3, <1>4
  <2>4. n + 1 \in 1 .. n + 1 /\ \A i \in 1 .. n : i \in 1 .. n + 1
    OBVIOUS
  <2> QED BY <2>1, <2>2, <2>3, <2>4
<1>6. /\ Append(OpenFns(t), fn) \in Seq(Calls)
      /\ Len(Append(OpenFns(t), fn)) = n + 1
      /\ \A i \in 1 .. n : Append(OpenFns(t), fn)[i] = t.open[i].fn
      /\ Append(OpenFns(t), fn)[n + 1] = fn
  BY OpenFunctions, AppendProperties
<1>7. OpenFns(u) = Append(OpenFns(t), fn)
  BY <1>5, <1>6, SeqEqual
<1> QED BY <1>4, <1>7

LEMMA CallAllFunctions ==
  ASSUME NEW t \in SourceTraces, NEW s \in Seq(InlinedScopes)
  PROVE  /\ CallAll(t, s) \in SourceTraces
         /\ Kept(t, CallAll(t, s))
         /\ OpenFns(CallAll(t, s)) = OpenFns(t) \o ScopeCalls(s)
<1> PICK u : u = CallAll(t, s)
  OBVIOUS
<1> PICK new : new = [k \in DOMAIN s |-> [fn |-> s[k].call, target |-> Nil]]
  OBVIOUS
<1> PICK m \in Nat, n \in Nat : m = Len(t.open) /\ n = Len(s)
  BY OpenFunctions
<1>1. DOMAIN s = 1 .. n /\ \A k \in 1 .. n : s[k].call \in Calls
  BY CallOfScope
<1>2. \A k \in 1 .. n : new[k] = [fn |-> s[k].call, target |-> Nil]
  BY <1>1
<1>3. \A k \in 1 .. n : new[k] \in OpenCalls(Calls, Nil) /\ new[k].fn = s[k].call
  BY <1>1, <1>2 DEF OpenCalls
<1>4. new \in [1 .. n -> OpenCalls(Calls, Nil)]
  BY <1>1, <1>3
<1>5. new \in Seq(OpenCalls(Calls, Nil)) /\ Len(new) = n
  <2>1. new \in Seq(OpenCalls(Calls, Nil))
    BY ONLY <1>4, n \in Nat, SeqDef
  <2>2. DOMAIN new = 1 .. n
    BY ONLY <1>4, Zenon
  <2>3. Len(new) = n
    BY ONLY <2>1, <2>2, n \in Nat, LenDomain
  <2> QED BY ONLY <2>1, <2>3, Zenon
<1>6. u = [t EXCEPT !.open = t.open \o new]
  BY DEF CallAll
<1>7. /\ t.open \o new \in Seq(OpenCalls(Calls, Nil))
      /\ Len(t.open \o new) = m + n
      /\ \A i \in 1 .. m + n : (t.open \o new)[i] = IF i <= m THEN t.open[i] ELSE new[i - m]
  <2>1. t.open \in Seq(OpenCalls(Calls, Nil))
    BY OpenFunctions
  <2>2. /\ t.open \o new \in Seq(OpenCalls(Calls, Nil))
        /\ Len(t.open \o new) = Len(t.open) + Len(new)
        /\ \A i \in 1 .. Len(t.open) + Len(new) :
             (t.open \o new)[i] = IF i <= Len(t.open) THEN t.open[i] ELSE new[i - Len(t.open)]
    BY ONLY <1>5, <2>1, ConcatProperties
  <2> QED BY <1>5, <2>2
<1>8. u \in SourceTraces /\ u.open = t.open \o new /\ Kept(t, u)
  BY ONLY t \in SourceTraces, <1>6, <1>7, OpenReplaced
<1>9. OpenFns(u) \in Seq(Calls) /\ Len(OpenFns(u)) = m + n
      /\ \A i \in 1 .. m + n : OpenFns(u)[i] = (t.open \o new)[i].fn
  <2>1. OpenFns(u) \in Seq(Calls) /\ Len(OpenFns(u)) = Len(u.open)
        /\ \A i \in 1 .. Len(u.open) : OpenFns(u)[i] = u.open[i].fn
    BY <1>8, OpenFunctions
  <2> QED BY <1>7, <1>8, <2>1
<1> PICK c : c = ScopeCalls(s)
  OBVIOUS
<1>10. c \in Seq(Calls) /\ Len(c) = n /\ \A i \in 1 .. n : c[i] = s[i].call
  BY CallsOfScopes
<1>11. OpenFns(t) \in Seq(Calls) /\ Len(OpenFns(t)) = m
       /\ \A i \in 1 .. m : OpenFns(t)[i] = t.open[i].fn
  BY OpenFunctions
<1>12. OpenFns(t) \o c \in Seq(Calls) /\ Len(OpenFns(t) \o c) = m + n
       /\ \A i \in 1 .. m + n : (OpenFns(t) \o c)[i] = IF i <= m THEN OpenFns(t)[i] ELSE c[i - m]
  BY <1>10, <1>11, ConcatProperties
<1>13. ASSUME NEW i \in 1 .. m + n PROVE OpenFns(u)[i] = (OpenFns(t) \o c)[i]
  <2>1. CASE i <= m
    <3>1. i \in 1 .. m
      BY <2>1
    <3>2. OpenFns(u)[i] = t.open[i].fn
      BY ONLY <1>7, <1>9, i \in 1 .. m + n, <2>1
    <3>3. (OpenFns(t) \o c)[i] = t.open[i].fn
      BY ONLY <1>11, <1>12, i \in 1 .. m + n, <2>1, <3>1
    <3> QED BY ONLY <3>2, <3>3, Zenon
  <2>2. CASE ~ (i <= m)
    <3>1. i - m \in 1 .. n
      BY <2>2
    <3>2. OpenFns(u)[i] = new[i - m].fn
      BY ONLY <1>7, <1>9, i \in 1 .. m + n, <2>2
    <3>3. (OpenFns(t) \o c)[i] = c[i - m]
      BY ONLY <1>12, i \in 1 .. m + n, <2>2
    <3>4. new[i - m].fn = s[i - m].call
      BY <1>3, <3>1
    <3>5. c[i - m] = s[i - m].call
      BY <1>10, <3>1
    <3> QED BY <3>2, <3>3, <3>4, <3>5
  <2> QED BY <2>1, <2>2
<1>14. OpenFns(u) = OpenFns(t) \o c
  <2>1. Len(OpenFns(u)) = Len(OpenFns(t) \o c)
    BY ONLY <1>9, <1>12, Zenon
  <2>2. \A i \in 1 .. Len(OpenFns(u)) : OpenFns(u)[i] = (OpenFns(t) \o c)[i]
    BY ONLY <1>9, <1>13, Zenon
  <2> QED BY ONLY <1>9, <1>12, <2>1, <2>2, SeqEqual
<1> QED BY <1>8, <1>14

----------------------------------------------------------------------------
(***************************************************************************)
(* Sequences of calls with one tail exchanged for another.                 *)
(***************************************************************************)
LEMMA PrefixOfConcat ==
  ASSUME NEW a \in Seq(Calls), NEW b \in Seq(Calls)
  PROVE  SubSeq(a \o b, 1, Len(a)) = a
<1> PICK m \in Nat, n \in Nat : m = Len(a) /\ n = Len(b)
  OBVIOUS
<1> PICK s : s = a \o b
  OBVIOUS
<1>1. s \in Seq(Calls) /\ Len(s) = m + n /\ \A i \in 1 .. m + n : s[i] = IF i <= m THEN a[i] ELSE b[i - m]
  BY ConcatProperties
<1>2. \A i \in 1 .. m : s[i] = a[i] /\ s[i] \in Calls
  <2>1. \A i \in 1 .. m : i \in 1 .. m + n /\ i <= m
    OBVIOUS
  <2>2. \A i \in 1 .. m : a[i] \in Calls
    BY ElementOfSeq
  <2> QED BY <1>1, <2>1, <2>2
<1>3. SubSeq(s, 1, m) \in Seq(Calls) /\ Len(SubSeq(s, 1, m)) = m
      /\ \A i \in 1 .. m : SubSeq(s, 1, m)[i] = s[i]
  BY <1>2, SubSeqProperties
<1> QED BY <1>2, <1>3, SeqEqual

LEMMA Suffix ==
  ASSUME NEW S, NEW s \in Seq(S), NEW n \in 0 .. Len(s)
  PROVE  /\ SubSeq(s, n + 1, Len(s)) \in Seq(S)
         /\ Len(SubSeq(s, n + 1, Len(s))) = Len(s) - n
         /\ \A i \in 1 .. Len(s) - n : SubSeq(s, n + 1, Len(s))[i] = s[n + i]
<1> PICK m \in Nat : m = Len(s)
  OBVIOUS
<1> PICK r : r = SubSeq(s, n + 1, m)
  OBVIOUS
<1>1. \A i \in n + 1 .. m : i \in 1 .. m
  OBVIOUS
<1>2. \A i \in 1 .. m : s[i] \in S
  BY ElementOfSeq
<1>3. n + 1 \in Int /\ m \in Int /\ \A i \in n + 1 .. m : s[i] \in S
  BY <1>1, <1>2
<1>4. /\ r \in Seq(S) /\ Len(r) = (IF n + 1 <= m THEN m - (n + 1) + 1 ELSE 0)
      /\ \A i \in 1 .. m - (n + 1) + 1 : r[i] = s[n + 1 + i - 1]
  BY <1>3, SubSeqProperties
<1> QED BY <1>4

LEMMA TailExchanged ==
  ASSUME NEW a \in Seq(Calls), NEW b \in Seq(Calls), NEW d \in Seq(Calls),
         NEW n \in 0 .. Len(b), n <= Len(d), \A i \in 1 .. n : b[i] = d[i]
  PROVE  SubSeq(a \o b, 1, Len(a \o b) - (Len(b) - n)) \o SubSeq(d, n + 1, Len(d)) = a \o d
<1> PICK k \in Nat, l \in Nat, m \in Nat : k = Len(a) /\ l = Len(b) /\ m = Len(d)
  OBVIOUS
<1> PICK s : s = a \o b
  OBVIOUS
<1> PICK r : r = SubSeq(d, n + 1, m)
  OBVIOUS
<1> PICK p : p = SubSeq(s, 1, k + n)
  OBVIOUS
<1>1. s \in Seq(Calls) /\ Len(s) = k + l /\ \A i \in 1 .. k + l : s[i] = IF i <= k THEN a[i] ELSE b[i - k]
  BY ConcatProperties
<1>2. p \in Seq(Calls) /\ Len(p) = k + n /\ \A i \in 1 .. k + n : p[i] = s[i]
  <2>1. \A i \in 1 .. k + n : i \in 1 .. k + l
    OBVIOUS
  <2>2. \A i \in 1 .. k + l : s[i] \in Calls
    BY <1>1, ElementOfSeq
  <2> PICK x \in Nat : x = k + n
    OBVIOUS
  <2>3. 1 \in Int /\ x \in Int /\ \A i \in 1 .. x : s[i] \in Calls
    BY <2>1, <2>2
  <2>4. p = SubSeq(s, 1, x)
    OBVIOUS
  <2>5. /\ p \in Seq(Calls) /\ Len(p) = (IF 1 <= x THEN x - 1 + 1 ELSE 0)
        /\ \A i \in 1 .. x - 1 + 1 : p[i] = s[1 + i - 1]
    BY ONLY <2>3, <2>4, SubSeqProperties
  <2>6. (IF 1 <= x THEN x - 1 + 1 ELSE 0) = x /\ x - 1 + 1 = x /\ \A i \in 1 .. x : 1 + i - 1 = i
    BY ONLY x \in Nat
  <2>7. p \in Seq(Calls) /\ Len(p) = x /\ \A i \in 1 .. x : p[i] = s[i]
    BY ONLY <2>5, <2>6
  <2> QED BY <2>7, x = k + n, Zenon
<1>3. r \in Seq(Calls) /\ Len(r) = m - n /\ \A i \in 1 .. m - n : r[i] = d[n + i]
  <2>1. n \in 0 .. l /\ n <= m
    BY ONLY l = Len(b), m = Len(d), n \in 0 .. Len(b), n <= Len(d), Zenon
  <2>2. n \in 0 .. m
    BY ONLY l \in Nat, m \in Nat, <2>1
  <2> QED BY ONLY <2>2, m = Len(d), d \in Seq(Calls), r = SubSeq(d, n + 1, m), Suffix
<1>4. p \o r \in Seq(Calls) /\ Len(p \o r) = k + m
      /\ \A i \in 1 .. k + m : (p \o r)[i] = IF i <= k + n THEN p[i] ELSE r[i - (k + n)]
  <2>1. /\ p \o r \in Seq(Calls) /\ Len(p \o r) = Len(p) + Len(r)
        /\ \A i \in 1 .. Len(p) + Len(r) :
             (p \o r)[i] = IF i <= Len(p) THEN p[i] ELSE r[i - Len(p)]
    BY ONLY <1>2, <1>3, ConcatProperties
  <2>2. Len(p) = k + n /\ Len(p) + Len(r) = k + m
    <3>1. Len(p) = k + n /\ Len(r) = m - n
      BY <1>2, <1>3, Zenon
    <3>2. n \in Int /\ (k + n) + (m - n) = k + m
      OBVIOUS
    <3> QED BY <3>1, <3>2
  <2>3. \A i \in 1 .. k + m : (p \o r)[i] = IF i <= k + n THEN p[i] ELSE r[i - (k + n)]
    <3>1. \A i \in 1 .. k + m : (p \o r)[i] = IF i <= Len(p) THEN p[i] ELSE r[i - Len(p)]
      BY ONLY <2>1, <2>2, Zenon
    <3> QED BY ONLY <2>2, <3>1, Zenon
  <2> QED BY ONLY <2>1, <2>2, <2>3, Zenon
<1>5. a \o d \in Seq(Calls) /\ Len(a \o d) = k + m
      /\ \A i \in 1 .. k + m : (a \o d)[i] = IF i <= k THEN a[i] ELSE d[i - k]
  BY ConcatProperties
<1>6. ASSUME NEW i \in 1 .. k + m PROVE (p \o r)[i] = (a \o d)[i]
  <2>1. CASE i <= k
    <3>1. i <= k + n /\ i \in 1 .. k + n /\ i \in 1 .. k + l
      BY <2>1
    <3>2. (p \o r)[i] = s[i] /\ s[i] = a[i]
      BY <1>1, <1>2, <1>4, <2>1, <3>1
    <3> QED BY <1>5, <2>1, <3>2
  <2>2. CASE k < i /\ i <= k + n
    <3>1. i \in 1 .. k + n /\ i \in 1 .. k + l /\ ~ (i <= k) /\ i - k \in 1 .. n
      BY <2>2
    <3>2. (p \o r)[i] = s[i] /\ s[i] = b[i - k]
      BY <1>1, <1>2, <1>4, <2>2, <3>1
    <3>3. b[i - k] = d[i - k]
      BY <3>1
    <3> QED BY <1>5, <3>1, <3>2, <3>3
  <2>3. CASE k + n < i
    <3>1. i - (k + n) \in 1 .. m - n /\ ~ (i <= k) /\ ~ (i <= k + n) /\ n + (i - (k + n)) = i - k
      BY <2>3
    <3>2. (p \o r)[i] = r[i - (k + n)]
      BY <1>4, <3>1
    <3>3. r[i - (k + n)] = d[n + (i - (k + n))]
      BY <1>3, <3>1
    <3> QED BY <1>5, <3>1, <3>2, <3>3
  <2>4. i <= k \/ (k < i /\ i <= k + n) \/ k + n < i
    OBVIOUS
  <2> QED BY <2>1, <2>2, <2>3, <2>4, Zenon
<1>7. p \o r = a \o d
  BY <1>4, <1>5, <1>6, SeqEqual
<1>8. Len(s) - (l - n) = k + n
  BY <1>1
<1> QED BY <1>7, <1>8

LEMMA CommonPrefix ==
  ASSUME NEW s \in Seq(InlinedScopes), NEW t \in Seq(InlinedScopes)
  PROVE  /\ Common(s, t) \in 0 .. Len(s)
         /\ Common(s, t) <= Len(t)
         /\ \A i \in 1 .. Common(s, t) : s[i] = t[i]
<1> DEFINE S == {n \in 0 .. Len(s) : n <= Len(t) /\ \A i \in 1 .. n : s[i] = t[i]}
<1>1. 0 \in Int /\ Len(s) \in Int /\ \A n \in S : n \in 0 .. Len(s)
  OBVIOUS
<1>2. 0 \in S
  OBVIOUS
<1>3. \A n \in S : n <= Len(t) /\ \A i \in 1 .. n : s[i] = t[i]
  OBVIOUS
<1>4. Common(s, t) = Max(S)
  BY DEF Common
<1> HIDE DEF S
<1>5. \E x \in S : \A y \in S : y <= x
  <2>1. S # {}
    BY <1>2
  <2> QED BY ONLY <1>1, <2>1, GreatestMember, Zenon
<1>6. \E x \in S : \A y \in S : x >= y
  BY <1>1, <1>5
<1>7. Max(S) \in S
  BY <1>6 DEF Max
<1> QED BY <1>1, <1>3, <1>4, <1>7

(***************************************************************************)
(* Leaving a frame, and moving within one.                                 *)
(***************************************************************************)
LEMMA UnwoundMirrors ==
  ASSUME NEW t \in SourceTraces, NEW frames \in Seq(Frames), NEW frame \in Frames,
         OpenFns(t) = CallsOf(Append(frames, frame))
  PROVE  /\ Unwound(t, frame) \in SourceTraces
         /\ Kept(t, Unwound(t, frame))
         /\ OpenFns(Unwound(t, frame)) = CallsOf(frames)
<1> PICK a : a = CallsOf(frames)
  OBVIOUS
<1> PICK b : b = FrameCalls(frame)
  OBVIOUS
<1> PICK m \in Nat : m = Len(frame.inlined) + 1
  BY DEF Frames
<1>1. a \in Seq(Calls) /\ b \in Seq(Calls) /\ OpenFns(t) = a \o b
  BY CallsOfAppended, CallsOfFrame
<1>2. Len(b) = m
  <2>1. frame.inlined \in Seq(InlinedScopes)
    BY DEF Frames
  <2>2. Len(ScopeCalls(frame.inlined)) = Len(frame.inlined)
    BY <2>1, CallsOfScopes
  <2>3. Len(b) = Len(<< frame.function >>) + Len(ScopeCalls(frame.inlined))
    BY CallsOfFrame, ConcatProperties DEF FrameCalls
  <2>4. Len(<< frame.function >>) = 1
    OBVIOUS
  <2> QED BY <2>1, <2>2, <2>3, <2>4
<1>3. Len(t.open) \in Nat /\ Len(t.open) = Len(a) + m /\ Len(a) \in Nat
  <2>1. Len(a \o b) = Len(a) + Len(b)
    BY <1>1, ConcatProperties
  <2>2. Len(t.open) \in Nat /\ Len(OpenFns(t)) = Len(t.open)
    BY OpenFunctions
  <2>3. Len(a) \in Nat
    BY <1>1
  <2> QED BY <1>1, <1>2, <2>1, <2>2, <2>3
<1>4. m \in 0 .. Len(t.open) /\ Len(t.open) - m = Len(a)
  BY <1>3
<1>5. Unwound(t, frame) = Returned(t, m)
  BY DEF Unwound
<1>6. OpenFns(Returned(t, m)) = SubSeq(a \o b, 1, Len(a))
  BY <1>1, <1>4, ReturnedFunctions
<1>7. SubSeq(a \o b, 1, Len(a)) = a
  BY <1>1, PrefixOfConcat
<1>8. Returned(t, m) \in SourceTraces /\ Kept(t, Returned(t, m))
  BY <1>4, ReturnedFunctions
<1> QED BY <1>5, <1>6, <1>7, <1>8

LEMMA InlinedMirrors ==
  ASSUME NEW t \in SourceTraces, NEW frames \in Seq(Frames), NEW frame \in Frames,
         OpenFns(t) = CallsOf(Append(frames, frame)),
         NEW chain \in Seq(InlinedScopes),
         NEW n, n = Common(frame.inlined, chain),
         NEW u, u = CallAll(Returned(t, Len(frame.inlined) - n), SubSeq(chain, n + 1, Len(chain)))
  PROVE  /\ [frame EXCEPT !.inlined = chain] \in Frames
         /\ u \in SourceTraces
         /\ Kept(t, u)
         /\ OpenFns(u) = CallsOf(Append(frames, [frame EXCEPT !.inlined = chain]))
<1> PICK inlined : inlined = frame.inlined
  OBVIOUS
<1> PICK within : within = [frame EXCEPT !.inlined = chain]
  OBVIOUS
<1> PICK fn : fn = << frame.function >>
  OBVIOUS
<1>1. /\ inlined \in Seq(InlinedScopes)
      /\ within \in Frames /\ within.function = frame.function /\ within.inlined = chain
  BY DEF Frames
<1> PICK l \in Nat : l = Len(inlined)
  BY <1>1
<1> PICK m \in Nat : m = Len(chain)
  OBVIOUS
<1>2. n \in 0 .. l /\ n <= m /\ \A i \in 1 .. n : inlined[i] = chain[i]
  BY <1>1, CommonPrefix
<1> PICK a : a = CallsOf(frames) \o fn
  OBVIOUS
<1> PICK b : b = ScopeCalls(inlined)
  OBVIOUS
<1> PICK d : d = ScopeCalls(chain)
  OBVIOUS
<1>3. CallsOf(frames) \in Seq(Calls) /\ fn \in Seq(Calls) /\ b \in Seq(Calls) /\ d \in Seq(Calls)
  BY CallsOfAppended, CallsOfFrame, CallsOfScopes, <1>1
<1>4. a \in Seq(Calls) /\ OpenFns(t) = a \o b
  <2>1. OpenFns(t) = CallsOf(frames) \o (fn \o b)
    BY CallsOfAppended DEF FrameCalls
  <2>2. CallsOf(frames) \o fn \in Seq(Calls)
    BY ONLY <1>3, ConcatProperties
  <2>3. (CallsOf(frames) \o fn) \o b = CallsOf(frames) \o (fn \o b)
    BY <1>3, ConcatAssociative
  <2> QED BY <2>1, <2>2, <2>3
<1>5. CallsOf(Append(frames, within)) = a \o d
  <2>1. CallsOf(Append(frames, within)) = CallsOf(frames) \o FrameCalls(within)
    BY <1>1, CallsOfAppended
  <2>2. FrameCalls(within) = fn \o d
    BY <1>1 DEF FrameCalls
  <2>3. (CallsOf(frames) \o fn) \o d = CallsOf(frames) \o (fn \o d)
    BY <1>3, ConcatAssociative
  <2> QED BY <2>1, <2>2, <2>3
<1>6. /\ Len(b) = l /\ Len(d) = m
      /\ \A i \in 1 .. l : b[i] = inlined[i].call
      /\ \A i \in 1 .. m : d[i] = chain[i].call
  BY <1>1, CallsOfScopes
<1>7. \A i \in 1 .. n : b[i] = d[i]
  <2>1. \A i \in 1 .. n : i \in 1 .. l /\ i \in 1 .. m
    BY <1>2
  <2> QED BY <1>2, <1>6, <2>1
<1> PICK k \in Nat : k = Len(t.open)
  BY OpenFunctions
<1>8. Len(a \o b) = k /\ l - n \in 0 .. k
  <2>1. Len(a \o b) = k
    BY <1>4, OpenFunctions
  <2>2. Len(a \o b) = Len(a) + Len(b)
    BY <1>3, <1>4, ConcatProperties
  <2>3. Len(a) \in Nat
    BY <1>4
  <2>4. \A x, y, z \in Nat : x = y + z => z <= x
    OBVIOUS
  <2>5. l <= k
    BY <1>6, <2>1, <2>2, <2>3, <2>4
  <2> QED BY <1>2, <2>1, <2>5
<1> PICK left : left = Returned(t, l - n)
  OBVIOUS
<1>9. left \in SourceTraces /\ Kept(t, left) /\ OpenFns(left) = SubSeq(a \o b, 1, k - (l - n))
  BY <1>4, <1>8, ReturnedFunctions
<1> PICK entered : entered = SubSeq(chain, n + 1, m)
  OBVIOUS
<1>10. /\ entered \in Seq(InlinedScopes) /\ Len(entered) = m - n
       /\ \A i \in 1 .. m - n : entered[i] = chain[n + i]
  <2>1. n \in 0 .. Len(chain)
    BY <1>2
  <2> QED BY <2>1, Suffix
<1>11. ScopeCalls(entered) = SubSeq(d, n + 1, m)
  <2>1. /\ ScopeCalls(entered) \in Seq(Calls) /\ Len(ScopeCalls(entered)) = m - n
        /\ \A i \in 1 .. m - n : ScopeCalls(entered)[i] = entered[i].call
    BY <1>10, CallsOfScopes
  <2> PICK r : r = SubSeq(d, n + 1, m)
    OBVIOUS
  <2>2. r \in Seq(Calls) /\ Len(r) = m - n /\ \A i \in 1 .. m - n : r[i] = d[n + i]
    <3>1. n \in 0 .. Len(d) /\ Len(d) = m
      BY <1>2, <1>6
    <3> QED BY ONLY <1>3, <3>1, r = SubSeq(d, n + 1, m), Suffix
  <2>3. ASSUME NEW i \in 1 .. m - n PROVE ScopeCalls(entered)[i] = r[i]
    <3>1. n + i \in 1 .. m
      BY <1>2
    <3>2. ScopeCalls(entered)[i] = chain[n + i].call
      BY ONLY <1>10, <2>1, i \in 1 .. m - n, Zenon
    <3>3. r[i] = d[n + i]
      BY ONLY <2>2, i \in 1 .. m - n, Zenon
    <3>4. d[n + i] = chain[n + i].call
      BY <1>6, <3>1
    <3> QED BY ONLY <3>2, <3>3, <3>4, Zenon
  <2>4. ScopeCalls(entered) = r
    BY ONLY <2>1, <2>2, <2>3, SeqEqual
  <2> QED BY <2>4
<1>12. u = CallAll(left, entered)
  OBVIOUS
<1>13. u \in SourceTraces /\ Kept(left, u) /\ OpenFns(u) = OpenFns(left) \o ScopeCalls(entered)
  <2>1. left \in SourceTraces /\ entered \in Seq(InlinedScopes)
    BY <1>9, <1>10
  <2> QED BY ONLY <1>12, <2>1, CallAllFunctions
<1>14. SubSeq(a \o b, 1, Len(a \o b) - (Len(b) - n)) \o SubSeq(d, n + 1, Len(d)) = a \o d
  <2>1. n \in 0 .. Len(b) /\ n <= Len(d)
    BY <1>2, <1>6
  <2> QED BY ONLY <1>3, <1>4, <1>7, <2>1, TailExchanged
<1>15. OpenFns(u) = a \o d
  BY <1>6, <1>8, <1>9, <1>11, <1>13, <1>14
<1>16. Kept(t, u)
  BY <1>9, <1>13 DEF Kept
<1> QED BY <1>1, <1>5, <1>13, <1>15, <1>16

\* A stack is the frames below its top and the top.
LEMMA TopOfStack ==
  ASSUME NEW frames \in Seq(Frames), NEW top, top = Len(frames), frames # << >>
  PROVE  /\ frames[top] \in Frames
         /\ SubSeq(frames, 1, top - 1) \in Seq(Frames)
         /\ frames = Append(SubSeq(frames, 1, top - 1), frames[top])
         /\ \A chain : [frames EXCEPT ![top].inlined = chain]
                         = Append(SubSeq(frames, 1, top - 1), [frames[top] EXCEPT !.inlined = chain])
<1>1. top \in 1 .. top /\ top \in Nat
  BY EmptySeq
<1>2. frames[top] \in Frames
  BY <1>1, ElementOfSeq
<1> PICK below : below = SubSeq(frames, 1, top - 1)
  OBVIOUS
<1>3. below \in Seq(Frames) /\ Len(below) = top - 1 /\ \A i \in 1 .. top - 1 : below[i] = frames[i]
  <2>1. \A i \in 1 .. top - 1 : i \in 1 .. top
    OBVIOUS
  <2>2. \A i \in 1 .. top : frames[i] \in Frames
    BY ElementOfSeq
  <2>3. 1 \in Int /\ top - 1 \in Int /\ \A i \in 1 .. top - 1 : frames[i] \in Frames
    BY <1>1, <2>1, <2>2
  <2>4. /\ below \in Seq(Frames) /\ Len(below) = (IF 1 <= top - 1 THEN top - 1 - 1 + 1 ELSE 0)
        /\ \A i \in 1 .. top - 1 - 1 + 1 : below[i] = frames[1 + i - 1]
    BY <2>3, SubSeqProperties
  <2> QED BY <1>1, <2>4
<1>4. frames = Append(below, frames[top])
  <2>1. /\ Append(below, frames[top]) \in Seq(Frames) /\ Len(Append(below, frames[top])) = top
        /\ \A i \in 1 .. top - 1 : Append(below, frames[top])[i] = frames[i]
        /\ Append(below, frames[top])[top] = frames[top]
    BY <1>1, <1>2, <1>3, AppendProperties
  <2>2. \A i \in 1 .. top : i \in 1 .. top - 1 \/ i = top
    BY <1>1
  <2>3. \A i \in 1 .. top : Append(below, frames[top])[i] = frames[i]
    BY <2>1, <2>2
  <2> QED BY <2>1, <2>3, SeqEqual
<1>5. ASSUME NEW chain
      PROVE  [frames EXCEPT ![top].inlined = chain]
               = Append(below, [frames[top] EXCEPT !.inlined = chain])
  <2> PICK frame : frame = [frames[top] EXCEPT !.inlined = chain]
    OBVIOUS
  <2> PICK S : S = Frames \cup {frame}
    OBVIOUS
  <2>1. [frames EXCEPT ![top].inlined = chain] = [frames EXCEPT ![top] = frame]
    OBVIOUS
  <2>2. frames \in Seq(S) /\ below \in Seq(S) /\ frame \in S
    BY <1>3, SeqMonotonic
  <2>3. /\ [frames EXCEPT ![top] = frame] \in Seq(S)
        /\ Len([frames EXCEPT ![top] = frame]) = top
        /\ \A i \in 1 .. top : [frames EXCEPT ![top] = frame][i] = IF i = top THEN frame ELSE frames[i]
    BY <1>1, <2>2, ExceptSeq
  <2>4. /\ Append(below, frame) \in Seq(S) /\ Len(Append(below, frame)) = top
        /\ \A i \in 1 .. top - 1 : Append(below, frame)[i] = frames[i]
        /\ Append(below, frame)[top] = frame
    BY <1>1, <1>3, <2>2, AppendProperties
  <2>5. \A i \in 1 .. top : (i \in 1 .. top - 1 /\ i # top) \/ i = top
    BY <1>1
  <2>6. \A i \in 1 .. top : [frames EXCEPT ![top] = frame][i] = Append(below, frame)[i]
    BY <2>3, <2>4, <2>5
  <2>7. [frames EXCEPT ![top] = frame] = Append(below, frame)
    BY <2>3, <2>4, <2>6, SeqEqual
  <2> QED BY <2>1, <2>7
<1> QED BY <1>2, <1>3, <1>4, <1>5

LEMMA LastOfConcat ==
  ASSUME NEW s \in Seq(Calls), NEW d \in Seq(Calls), d # << >>
  PROVE  /\ s \o d \in Seq(Calls) /\ s \o d # << >>
         /\ (s \o d)[Len(s \o d)] = d[Len(d)]
<1> PICK m \in Nat : m = Len(s)
  OBVIOUS
<1> PICK n \in Nat : n = Len(d)
  OBVIOUS
<1> PICK e : e = s \o d
  OBVIOUS
<1>1. n # 0
  BY EmptySeq
<1>2. e \in Seq(Calls) /\ Len(e) = m + n /\ \A i \in 1 .. m + n : e[i] = IF i <= m THEN s[i] ELSE d[i - m]
  BY ConcatProperties
<1>3. m + n \in 1 .. m + n /\ ~ (m + n <= m) /\ m + n - m = n
  BY <1>1
<1>4. e[m + n] = d[n]
  BY <1>2, <1>3
<1>5. e # << >>
  BY <1>2, <1>3, EmptySeq
<1> QED BY <1>2, <1>4, <1>5

\* The innermost call of a stack.
LEMMA InnermostOfStack ==
  ASSUME NEW below \in Seq(Frames), NEW frame \in Frames,
         NEW c, c = CallsOf(Append(below, frame))
  PROVE  /\ c \in Seq(Calls) /\ c # << >>
         /\ c[Len(c)] = IF frame.inlined = << >> THEN frame.function
                        ELSE frame.inlined[Len(frame.inlined)].call
<1> PICK a : a = CallsOf(below)
  OBVIOUS
<1> PICK fn : fn = << frame.function >>
  OBVIOUS
<1> PICK inlined : inlined = frame.inlined
  OBVIOUS
<1> PICK b : b = ScopeCalls(inlined)
  OBVIOUS
<1>1. a \in Seq(Calls) /\ fn \in Seq(Calls) /\ b \in Seq(Calls) /\ c = a \o (fn \o b)
  BY CallsOfAppended, CallsOfFrame DEF FrameCalls
<1>2. inlined \in Seq(InlinedScopes)
  BY DEF Frames
<1>3. Len(b) = Len(inlined) /\ \A i \in 1 .. Len(inlined) : b[i] = inlined[i].call
  BY <1>2, CallsOfScopes
<1>4. fn # << >> /\ Len(fn) = 1 /\ fn[1] = frame.function
  OBVIOUS
<1>5. CASE inlined = << >>
  <2>1. b = << >>
    BY <1>1, <1>3, <1>5, EmptySeq
  <2>2. c = a \o fn
    BY <1>1, <2>1, ConcatEmptySeq
  <2> QED BY <1>1, <1>4, <1>5, <2>2, LastOfConcat
<1>6. CASE inlined # << >>
  <2>1. Len(inlined) \in 1 .. Len(inlined)
    BY <1>2, <1>6
  <2>2. b # << >>
    BY <1>1, <1>3, <2>1, EmptySeq
  <2> PICK d : d = fn \o b
    OBVIOUS
  <2>3. d \in Seq(Calls) /\ d # << >> /\ d[Len(d)] = b[Len(b)]
    BY <1>1, <2>2, LastOfConcat
  <2>4. c \in Seq(Calls) /\ c # << >> /\ c[Len(c)] = d[Len(d)]
    BY <1>1, <2>3, LastOfConcat
  <2>5. b[Len(b)] = inlined[Len(inlined)].call
    BY <1>3, <2>1
  <2> QED BY <1>6, <2>3, <2>4, <2>5
<1> QED BY <1>5, <1>6

(***************************************************************************)
(* The scopes of a frame are its function's.                               *)
(***************************************************************************)
OwnScopes(frames) ==
  \A i \in DOMAIN frames : Range(frames[i].inlined) \subseteq Range(Scopes[frames[i].function])

LEMMA OwnScopesBelow ==
  ASSUME NEW frames \in Seq(Frames), frames # << >>, OwnScopes(frames)
  PROVE  OwnScopes(SubSeq(frames, 1, Len(frames) - 1))
<1> PICK m \in Nat : m = Len(frames)
  OBVIOUS
<1> PICK below : below = SubSeq(frames, 1, m - 1)
  OBVIOUS
<1>1. below \in Seq(Frames) /\ frames = Append(below, frames[m]) /\ frames[m] \in Frames
  BY TopOfStack
<1>2. Len(frames) = Len(below) + 1 /\ \A i \in 1 .. Len(below) : frames[i] = below[i]
  BY <1>1, AppendProperties
<1>3. DOMAIN below = 1 .. Len(below) /\ Len(below) \in Nat
  BY <1>1
<1>4. \A i \in 1 .. Len(below) : i \in 1 .. Len(frames)
  BY <1>2, <1>3
<1>5. DOMAIN frames = 1 .. Len(frames)
  OBVIOUS
<1> QED BY <1>2, <1>3, <1>4, <1>5 DEF OwnScopes

LEMMA OwnScopesAppended ==
  ASSUME NEW below \in Seq(Frames), NEW frame \in Frames, OwnScopes(below),
         Range(frame.inlined) \subseteq Range(Scopes[frame.function])
  PROVE  OwnScopes(Append(below, frame))
<1> PICK frames : frames = Append(below, frame)
  OBVIOUS
<1> PICK m \in Nat : m = Len(below)
  OBVIOUS
<1>1. frames \in Seq(Frames) /\ Len(frames) = m + 1 /\ \A i \in 1 .. m : frames[i] = below[i]
  BY AppendProperties
<1>2. frames[m + 1] = frame
  BY AppendProperties
<1>3. DOMAIN frames = 1 .. m + 1 /\ DOMAIN below = 1 .. m
  BY <1>1
<1>4. \A i \in 1 .. m + 1 : i \in 1 .. m \/ i = m + 1
  OBVIOUS
<1> QED BY <1>1, <1>2, <1>3, <1>4 DEF OwnScopes

(***************************************************************************)
(* A call pushed.                                                          *)
(***************************************************************************)
LEMMA PushedMirrors ==
  ASSUME NEW t \in SourceTraces, NEW frames \in Seq(Frames), OwnScopes(frames),
         OpenFns(t) = CallsOf(frames), NEW f \in Functions,
         NEW frame, frame = [function |-> f, inlined |-> << >>]
  PROVE  /\ Append(frames, frame) \in Seq(Frames)
         /\ OwnScopes(Append(frames, frame))
         /\ Called(t, f, Nil) \in SourceTraces
         /\ Kept(t, Called(t, f, Nil))
         /\ OpenFns(Called(t, f, Nil)) = CallsOf(Append(frames, frame))
<1>1. << >> \in Seq(InlinedScopes) /\ f \in Calls
  BY DEF Calls
<1>2. frame \in Frames /\ frame.function = f /\ frame.inlined = << >>
  BY <1>1 DEF Frames
<1>3. Range(<< >>) = {}
  BY DEF Range
<1>4. ScopeCalls(<< >>) = << >>
  BY <1>1, CallsOfScopes, EmptySeq
<1>5. FrameCalls(frame) = << f >>
  <2>1. << f >> \in Seq(Calls)
    BY <1>1
  <2> QED BY <1>2, <1>4, <2>1, ConcatEmptySeq DEF FrameCalls
<1>6. CallsOf(frames) \in Seq(Calls) /\ CallsOf(Append(frames, frame)) = CallsOf(frames) \o << f >>
  BY <1>2, <1>5, CallsOfAppended
<1>7. Append(OpenFns(t), f) = OpenFns(t) \o << f >>
  BY <1>1, OpenFunctions
<1>8. OwnScopes(Append(frames, frame))
  BY <1>2, <1>3, OwnScopesAppended
<1> QED BY <1>1, <1>2, <1>6, <1>7, <1>8, CalledFunctions, AppendProperties

(***************************************************************************)
(* The inlined calls entered and left within the innermost frame.          *)
(***************************************************************************)
Innermost(t) == LET open == OpenFns(t) IN IF open = << >> THEN Nil ELSE open[Len(open)]

Moves(t, frames, pc, inlined, chain, common, entered, after) ==
  LET top == Len(frames)
  IN  /\ inlined = IF top = 0 THEN << >> ELSE frames[top].inlined
      /\ chain = IF top = 0 THEN << >> ELSE InlinedChain(frames[top].function, pc)
      /\ common = Common(inlined, chain)
      /\ entered = CallAll(Returned(t, Len(inlined) - common),
                           SubSeq(chain, common + 1, Len(chain)))
      /\ after = IF top = 0 THEN frames ELSE [frames EXCEPT ![top].inlined = chain]

LEMMA MovedWithinFrame ==
  ASSUME NEW t \in SourceTraces, NEW frames \in Seq(Frames), OwnScopes(frames),
         OpenFns(t) = CallsOf(frames), NEW pc, NEW inlined, NEW chain, NEW common, NEW entered,
         NEW after, Moves(t, frames, pc, inlined, chain, common, entered, after)
  PROVE  /\ after \in Seq(Frames) /\ OwnScopes(after)
         /\ entered \in SourceTraces /\ Kept(t, entered)
         /\ OpenFns(entered) = CallsOf(after)
         /\ inlined = chain => OpenFns(entered) = OpenFns(t)
         /\ Innermost(entered) = IF frames = << >> THEN Nil ELSE LocalsOf(frames[Len(frames)], pc)
<1> PICK top \in Nat : top = Len(frames)
  OBVIOUS
<1>1. /\ inlined = IF top = 0 THEN << >> ELSE frames[top].inlined
      /\ chain = IF top = 0 THEN << >> ELSE InlinedChain(frames[top].function, pc)
      /\ common = Common(inlined, chain)
      /\ entered = CallAll(Returned(t, Len(inlined) - common),
                           SubSeq(chain, common + 1, Len(chain)))
      /\ after = IF top = 0 THEN frames ELSE [frames EXCEPT ![top].inlined = chain]
  BY Zenon DEF Moves
<1> USE <1>1
<1>2. CASE top = 0
  <2>1. frames = << >> /\ inlined = << >> /\ chain = << >> /\ after = frames
    BY <1>2, EmptySeq
  <2>2. << >> \in Seq(InlinedScopes) /\ Len(<< >>) = 0
    OBVIOUS
  <2>3. common = 0
    <3>1. common = Common(<< >>, << >>)
      BY <2>1
    <3>2. common \in 0 .. Len(<< >>)
      BY ONLY <2>2, <3>1, CommonPrefix
    <3> QED BY <2>2, <3>2
  <2>4. SubSeq(chain, common + 1, Len(chain)) = << >>
    BY <2>1, <2>3, SubSeqEmpty
  <2>5. Len(inlined) - common = 0 /\ Len(t.open) \in Nat
    BY <2>1, <2>3, OpenFunctions
  <2> PICK left : left = Returned(t, 0)
    OBVIOUS
  <2>6. left \in SourceTraces /\ Kept(t, left) /\ OpenFns(left) = SubSeq(OpenFns(t), 1, Len(t.open))
    BY <2>5, ReturnedFunctions
  <2>7. OpenFns(left) = OpenFns(t)
    <3>1. OpenFns(t) \in Seq(Calls) /\ Len(OpenFns(t)) = Len(t.open)
      BY OpenFunctions
    <3>2. SubSeq(OpenFns(t), 1, Len(OpenFns(t))) = OpenFns(t)
      BY <3>1, SubSeqFull
    <3> QED BY <2>6, <3>1, <3>2
  <2>8. entered = CallAll(left, << >>)
    BY <2>4, <2>5
  <2>9. /\ entered \in SourceTraces /\ Kept(left, entered)
        /\ OpenFns(entered) = OpenFns(left) \o ScopeCalls(<< >>)
    BY <2>2, <2>6, <2>8, CallAllFunctions
  <2>10. ScopeCalls(<< >>) = << >>
    BY <2>2, CallsOfScopes, EmptySeq
  <2>11. OpenFns(entered) = OpenFns(t)
    <3>1. OpenFns(t) \in Seq(Calls)
      BY OpenFunctions
    <3>2. OpenFns(t) \o << >> = OpenFns(t)
      BY <3>1, ConcatEmptySeq
    <3> QED BY <2>7, <2>9, <2>10, <3>2
  <2>12. OpenFns(t) = << >>
    BY <2>1, CallsOfNone
  <2>13. Innermost(entered) = Nil
    BY <2>11, <2>12 DEF Innermost
  <2>14. Kept(t, entered)
    BY <2>6, <2>9 DEF Kept
  <2> QED BY <2>1, <2>9, <2>11, <2>13, <2>14
<1>3. CASE top # 0
  <2> PICK below : below = SubSeq(frames, 1, top - 1)
    OBVIOUS
  <2> PICK frame : frame = frames[top]
    OBVIOUS
  <2> PICK within : within = [frame EXCEPT !.inlined = chain]
    OBVIOUS
  <2>1. frames # << >>
    BY <1>3
  <2>2. /\ frame \in Frames /\ below \in Seq(Frames) /\ frames = Append(below, frame)
        /\ after = Append(below, within)
    BY <1>3, <2>1, TopOfStack
  <2>3. inlined = frame.inlined /\ chain = InlinedChain(frame.function, pc)
    BY <1>3
  <2>4. frame.function \in Functions
    BY <2>2 DEF Frames
  <2>5. chain \in Seq(Range(Scopes[frame.function]))
    BY <2>3, <2>4, ChainOfScopes
  <2>6. chain \in Seq(InlinedScopes)
    BY <2>4, <2>5, ScopesOfFunction, SeqMonotonic
  <2>7. Range(chain) \subseteq Range(Scopes[frame.function])
    <3>1. \A i \in DOMAIN chain : chain[i] \in Range(Scopes[frame.function])
      BY <2>5, ElementOfSeq
    <3> PICK own : own = Range(Scopes[frame.function])
      OBVIOUS
    <3> QED BY <3>1 DEF Range
  <2>8. /\ within \in Frames
        /\ entered \in SourceTraces /\ Kept(t, entered)
        /\ OpenFns(entered) = CallsOf(Append(below, within))
    <3>1. OpenFns(t) = CallsOf(Append(below, frame)) /\ common = Common(frame.inlined, chain)
      BY <2>2, <2>3
    <3>2. entered = CallAll(Returned(t, Len(frame.inlined) - common),
                            SubSeq(chain, common + 1, Len(chain)))
      BY <2>3
    <3>3. t \in SourceTraces /\ within = [frame EXCEPT !.inlined = chain]
      OBVIOUS
    <3>4. below \in Seq(Frames) /\ frame \in Frames
      BY <2>2
    <3> QED BY ONLY <2>6, <3>1, <3>2, <3>3, <3>4, InlinedMirrors
  <2>9. within.function = frame.function /\ within.inlined = chain
        /\ (inlined = chain => within = frame)
    BY <2>2, <2>3 DEF Frames
  <2>10. OwnScopes(below)
    BY <2>1, OwnScopesBelow
  <2>11. OwnScopes(after)
    <3>1. Range(within.inlined) \subseteq Range(Scopes[within.function])
      BY <2>7, <2>9
    <3>2. below \in Seq(Frames) /\ after = Append(below, within)
      BY <2>2
    <3> QED BY ONLY <2>8, <2>10, <3>1, <3>2, OwnScopesAppended
  <2>12. inlined = chain => OpenFns(entered) = OpenFns(t)
    BY <2>2, <2>8, <2>9
  <2> PICK c : c = OpenFns(entered)
    OBVIOUS
  <2>13. /\ c # << >>
         /\ c[Len(c)] = IF chain = << >> THEN frame.function ELSE chain[Len(chain)].call
    <3>1. c = CallsOf(Append(below, within)) /\ below \in Seq(Frames) /\ within \in Frames
      BY <2>2, <2>8
    <3>2. /\ c # << >>
          /\ c[Len(c)] = IF within.inlined = << >> THEN within.function
                         ELSE within.inlined[Len(within.inlined)].call
      BY ONLY <3>1, InnermostOfStack
    <3> QED BY ONLY <2>9, <3>2, Zenon
  <2>14. LocalsOf(frame, pc) = IF chain = << >> THEN frame.function ELSE chain[Len(chain)].call
    BY <2>3 DEF LocalsOf
  <2>15. Innermost(entered) = LocalsOf(frame, pc)
    BY <2>13, <2>14 DEF Innermost
  <2>16. after \in Seq(Frames)
    <3>1. below \in Seq(Frames) /\ after = Append(below, within)
      BY <2>2
    <3> QED BY ONLY <2>8, <3>1, AppendProperties
  <2> QED BY <2>1, <2>2, <2>8, <2>11, <2>12, <2>15, <2>16
<1> QED BY <1>2, <1>3

\* A step's record, and the call it names.
LEMMA StepRecordIsStep ==
  ASSUME NEW t \in SourceTraces, NEW at \in Positions, NEW frames, NEW pc,
         Innermost(t) = IF frames = << >> THEN Nil ELSE LocalsOf(frames[Len(frames)], pc),
         NEW step, step = StepRecord(at, frames, t, pc)
  PROVE  /\ step \in Steps
         /\ step.file = at.file /\ step.line = at.line
         /\ step.depth = Len(OpenFns(t))
         /\ step.locals = Innermost(t)
<1>1. Innermost(t) \in Calls \cup {Nil}
  <2> PICK c : c = OpenFns(t)
    OBVIOUS
  <2>1. c \in Seq(Calls)
    BY OpenFunctions
  <2>2. CASE c = << >>
    BY <2>2 DEF Innermost
  <2>3. CASE c # << >>
    <3>1. Len(c) \in 1 .. Len(c)
      BY <2>1, <2>3
    <3>2. c[Len(c)] \in Calls
      BY <2>1, <3>1, ElementOfSeq
    <3> QED BY <2>3, <3>2 DEF Innermost
  <2> QED BY <2>2, <2>3
<1>2. Len(t.open) \in Nat /\ Len(OpenFns(t)) = Len(t.open)
  BY OpenFunctions
<1>3. at.file \in STRING /\ at.line \in Nat /\ at.column \in Nat \cup {Nil}
  BY DEF Positions
<1> PICK column \in Nat \cup {Nil} :
      column = IF << at.file, at.line, at.column >> \in Addressable THEN at.column ELSE Nil
  BY <1>3
<1>4. step = [file |-> at.file, line |-> at.line, column |-> column, depth |-> Len(t.open),
              locals |-> Innermost(t)]
  BY DEF StepRecord
<1> QED BY <1>1, <1>2, <1>3, <1>4 DEF Steps

----------------------------------------------------------------------------
(***************************************************************************)
(* The memory of a recorder.                                               *)
(***************************************************************************)
LEMMA OverwriteIsMemory ==
  ASSUME NEW m \in Memory, NEW w \in Writes
  PROVE  Overwrite(m, w) \in Memory
<1>1. PICK C \in SUBSET Cells : w \in [C -> Values]
  BY DEF Writes
<1>2. \A c \in Cells : (IF c \in DOMAIN w THEN w[c] ELSE m[c]) \in Values
  BY <1>1 DEF Memory
<1> QED BY <1>2 DEF Overwrite, Memory

LEMMA TakenIsSnapshot ==
  ASSUME TypeOK, CanRecord
  PROVE  /\ recorded \in Nat /\ recorded + 1 \in 1 .. Len(snapshots)
         /\ Taken \in SnapshotRecord
         /\ Taken.pc \in PC /\ Taken.operand \in Writes
<1>1. /\ snapshots \in Seq(SnapshotRecord) /\ recorded \in 0 .. Len(snapshots)
      /\ recorded < Len(snapshots)
  BY DEF TypeOK, ExecutionTypeOK, CanRecord
<1>2. recorded \in Nat /\ recorded + 1 \in 1 .. Len(snapshots)
  BY <1>1
<1>3. Taken \in SnapshotRecord
  BY <1>1, <1>2, ElementOfSeq DEF Taken
<1> QED BY <1>2, <1>3 DEF SnapshotRecord

LEMMA ApplyInstructionTypes ==
  ASSUME TypeOK, CanRecord, ApplyInstruction, UNCHANGED syscall_writes
  PROVE  memory' \in Memory /\ consumed' \in 0 .. Len(syscall_writes')
<1>1. /\ syscall_writes \in Seq(Writes) /\ consumed \in 0 .. Len(syscall_writes)
      /\ memory \in Memory
  BY DEF TypeOK, ExecutionTypeOK
<1>2. CASE TakenForSyscall /\ consumed < Len(syscall_writes)
  <2>1. consumed' = consumed + 1 /\ memory' = Overwrite(memory, syscall_writes[consumed + 1])
    BY <1>2 DEF ApplyInstruction
  <2>2. consumed + 1 \in 1 .. Len(syscall_writes)
    BY <1>1, <1>2
  <2>3. syscall_writes[consumed + 1] \in Writes
    BY <1>1, <2>2, ElementOfSeq
  <2>4. consumed + 1 \in 0 .. Len(syscall_writes)
    BY <2>2
  <2> QED BY <1>1, <2>1, <2>3, <2>4, OverwriteIsMemory
<1>3. CASE ~ (TakenForSyscall /\ consumed < Len(syscall_writes))
  <2>1. memory' = Overwrite(memory, Taken.operand) /\ consumed' = consumed
    BY <1>3 DEF ApplyInstruction
  <2> QED BY <1>1, <2>1, TakenIsSnapshot, OverwriteIsMemory
<1> QED BY <1>2, <1>3

----------------------------------------------------------------------------
(***************************************************************************)
(* The inductive invariant of the recording.  The open calls are the       *)
(* stack's; while there is a last position, the last step is on it and was *)
(* shown in what is still the innermost call, so a step is only left out   *)
(* where the one before would be repeated.                                 *)
(***************************************************************************)
PositionFits(last, t) ==
  last # Nil =>
    /\ t.position # Nil
    /\ t.position.file = last.file
    /\ t.position.line = last.line
    /\ t.position.depth = Len(OpenFns(t))
    /\ t.position.locals = Innermost(t)

RecorderInv ==
  /\ TypeOK
  /\ CallsBalance
  /\ recorded > 0 => executed
  /\ ~ finished =>
       /\ OpenFns(trace) = CallsOf(stack)
       /\ PositionFits(last_position, trace)
       /\ recorded = 0 => last_position = Nil
       /\ recorded > 0 /\ PositionAt[Shown.pc] # Nil => last_position = PositionAt[Shown.pc]

LEMMA RecordInKeeps ==
  ASSUME TypeOK, CanRecord,
         NEW frames \in Seq(Frames), OwnScopes(frames),
         NEW t \in SourceTraces, OpenFns(t) = CallsOf(frames), ~ t.orphan, t.drained = 0,
         NEW last \in Positions \cup {Nil}, PositionFits(last, t),
         RecordIn(frames, t, last)
  PROVE  RecorderInv'
<1> PICK pc : pc = Taken.pc
  OBVIOUS
<1> PICK top : top = Len(frames)
  OBVIOUS
<1> PICK inlined : inlined = IF top = 0 THEN << >> ELSE frames[top].inlined
  OBVIOUS
<1> PICK chain : chain = IF top = 0 THEN << >> ELSE InlinedChain(frames[top].function, pc)
  OBVIOUS
<1> PICK common : common = Common(inlined, chain)
  OBVIOUS
<1> PICK entered : entered = CallAll(Returned(t, Len(inlined) - common),
                                     SubSeq(chain, common + 1, Len(chain)))
  OBVIOUS
<1> PICK after : after = IF top = 0 THEN frames ELSE [frames EXCEPT ![top].inlined = chain]
  OBVIOUS
<1> PICK shown : shown = IF inlined = chain THEN last ELSE Nil
  OBVIOUS
<1> PICK at : at = PositionAt[pc]
  OBVIOUS
<1> PICK fresh \in BOOLEAN : fresh = (at # Nil /\ shown # at)
  OBVIOUS
<1> PICK step : step = StepRecord(at, frames, entered, pc)
  OBVIOUS
<1>1. /\ stack' = after
      /\ last_position' = IF fresh THEN at ELSE shown
      /\ trace' = IF fresh THEN Stepped(entered, step) ELSE entered
      /\ ApplyInstruction
      /\ recorded' = recorded + 1
      /\ snapshots' = snapshots /\ syscall_writes' = syscall_writes
      /\ executed' = executed /\ finished' = finished
  BY DEF RecordIn
<1>2. /\ after \in Seq(Frames) /\ OwnScopes(after)
      /\ entered \in SourceTraces /\ Kept(t, entered)
      /\ OpenFns(entered) = CallsOf(after)
      /\ inlined = chain => OpenFns(entered) = OpenFns(t)
      /\ Innermost(entered) = IF frames = << >> THEN Nil ELSE LocalsOf(frames[Len(frames)], pc)
  <2>1. Moves(t, frames, pc, inlined, chain, common, entered, after)
    BY Zenon DEF Moves
  <2> QED BY ONLY <2>1, t \in SourceTraces, frames \in Seq(Frames), OwnScopes(frames),
                  OpenFns(t) = CallsOf(frames), MovedWithinFrame
<1>3. /\ recorded \in Nat /\ recorded + 1 \in 1 .. Len(snapshots) /\ pc \in PC
      /\ executed /\ ~ finished
  BY TakenIsSnapshot DEF CanRecord
<1>4. at \in Positions \cup {Nil} /\ shown \in Positions \cup {Nil}
  BY <1>3, DebugType
<1>5. ASSUME fresh
      PROVE  /\ step \in Steps
             /\ step.file = at.file /\ step.line = at.line
             /\ step.depth = Len(OpenFns(entered))
             /\ step.locals = Innermost(entered)
  <2>1. at \in Positions
    BY <1>4, <1>5
  <2> QED BY ONLY <1>2, <2>1, step = StepRecord(at, frames, entered, pc), StepRecordIsStep
<1>6. ASSUME fresh
      PROVE  /\ trace' \in SourceTraces /\ trace'.open = entered.open
             /\ trace'.orphan = entered.orphan /\ trace'.drained = entered.drained
             /\ trace'.position = step
  <2>1. trace' = [entered EXCEPT !.position = step]
    BY <1>1, <1>6 DEF Stepped
  <2>2. entered \in SourceTraces /\ step \in Steps
    BY <1>2, <1>5, <1>6
  <2> QED BY ONLY <2>1, <2>2 DEF SourceTraces, Traces
<1>7. /\ trace' \in SourceTraces /\ trace'.open = entered.open
      /\ ~ trace'.orphan /\ trace'.drained = 0
  <2>1. ~ entered.orphan /\ entered.drained = 0
    BY <1>2 DEF Kept
  <2>2. CASE fresh
    BY ONLY <1>6, <2>1, <2>2
  <2>3. CASE ~ fresh
    <3>1. trace' = entered
      BY ONLY <1>1, <2>3, Zenon
    <3> QED BY ONLY <1>2, <2>1, <3>1, Zenon
  <2> QED BY <2>2, <2>3
<1>8. OpenFns(trace') = OpenFns(entered) /\ Innermost(trace') = Innermost(entered)
  <2>1. OpenFns(trace') = OpenFns(entered)
    BY <1>7 DEF OpenFns
  <2> QED BY <2>1 DEF Innermost
<1>9. PositionFits(last_position', trace')
  <2>1. CASE fresh
    <3>1. step # Nil
      BY <1>5, <2>1, DebugType
    <3>2. last_position' = at /\ trace'.position = step
      BY <1>1, <1>6, <2>1
    <3>3. /\ step.file = at.file /\ step.line = at.line
          /\ step.depth = Len(OpenFns(trace')) /\ step.locals = Innermost(trace')
      BY <1>5, <1>8, <2>1
    <3> QED BY <3>1, <3>2, <3>3 DEF PositionFits
  <2>2. CASE ~ fresh
    <3>1. last_position' = shown /\ trace' = entered
      BY <1>1, <2>2
    <3>2. ASSUME shown # Nil PROVE PositionFits(shown, entered)
      <4>1. shown = last /\ inlined = chain
        BY <3>2
      <4>2. OpenFns(entered) = OpenFns(t) /\ entered.position = t.position
        BY <1>2, <4>1 DEF Kept
      <4>3. Innermost(entered) = Innermost(t)
        BY <4>2 DEF Innermost
      <4> QED BY <4>1, <4>2, <4>3 DEF PositionFits
    <3> QED BY <3>1, <3>2 DEF PositionFits
  <2> QED BY <2>1, <2>2
<1>10. PositionAt[pc] # Nil => last_position' = PositionAt[pc]
  BY <1>1
<1>11. Shown'.pc = pc
  BY <1>1 DEF Shown, Taken
<1>12. TypeOK'
  <2>1. ExecutionTypeOK'
    BY <1>1 DEF TypeOK, ExecutionTypeOK
  <2>2. memory' \in Memory /\ consumed' \in 0 .. Len(syscall_writes')
    BY <1>1, ApplyInstructionTypes
  <2>3. recorded' \in 0 .. Len(snapshots')
    <3>1. Len(snapshots') = Len(snapshots)
      BY ONLY <1>1, Zenon
    <3>2. \A n \in Nat : \A len : n + 1 \in 1 .. len => n + 1 \in 0 .. len
      OBVIOUS
    <3>3. recorded + 1 \in 0 .. Len(snapshots)
      BY ONLY <1>3, <3>2, Zenon
    <3> QED BY ONLY <1>1, <3>1, <3>3, Zenon
  <2>4. last_position' \in Positions \cup {Nil}
    BY <1>1, <1>4
  <2>5. /\ stack' \in Seq(Frames)
        /\ \A i \in DOMAIN stack' :
             Range(stack'[i].inlined) \subseteq Range(Scopes[stack'[i].function])
    BY <1>1, <1>2 DEF OwnScopes
  <2>6. finished' \in BOOLEAN
    BY <1>1 DEF TypeOK
  <2>7. trace' \in Traces(Calls, Nil, Steps)
    BY ONLY <1>7, Zenon DEF SourceTraces
  <2> QED BY ONLY <2>1, <2>2, <2>3, <2>4, <2>5, <2>6, <2>7, Zenon DEF TypeOK
<1>13. recorded' > 0 /\ recorded' # 0 /\ executed' /\ ~ finished'
  BY <1>1, <1>3
<1>14. CallsBalance'
  BY <1>7 DEF CallsBalance
<1>15. OpenFns(trace)' = CallsOf(stack)'
  <2>1. OpenFns(trace') = CallsOf(stack')
    BY <1>1, <1>2, <1>8
  <2> QED BY <2>1
<1> QED BY <1>9, <1>10, <1>11, <1>12, <1>13, <1>14, <1>15 DEF RecorderInv

----------------------------------------------------------------------------
(***************************************************************************)
(* The execution: how a snapshot follows from the one before it.           *)
(***************************************************************************)
IsCall(pc) == Text[pc].op \in {"call_imm", "call_reg"}

\* n is the snapshot after s; w is what the syscall at s, if any, wrote.
Follows(s, n, w) ==
  LET in == s.callers
  IN  \/ /\ IsCall(s.pc) /\ n.pc \in Text[s.pc].to
         /\ n.callers = Append(in, s.pc) /\ n.memory = s.memory
      \/ /\ IsSyscall(s.pc) /\ n.pc = s.pc + 1
         /\ n.callers = in /\ n.memory = Overwrite(s.memory, w)
      \/ /\ Text[s.pc].op = "exit" /\ in # << >> /\ n.pc = in[Len(in)] + 1
         /\ n.callers = SubSeq(in, 1, Len(in) - 1) /\ n.memory = s.memory
      \/ /\ Text[s.pc].op = "store" /\ n.pc = s.pc + 1
         /\ n.callers = in /\ n.memory = Overwrite(s.memory, s.operand)
      \/ /\ Text[s.pc].op = "other" /\ n.pc \in Text[s.pc].to
         /\ n.callers = in /\ n.memory = s.memory

\* The trace of the execution grows by s.
Grown(s) ==
  /\ ~ executed /\ executed' = executed
  /\ Len(snapshots) < MaxSnapshots
  /\ snapshots' = Append(snapshots, s)
  /\ s \in SnapshotRecord
  /\ s.operand \in Operands(s.pc)

LEMMA NoWriteIsWrites == << >> \in Writes
<1>1. {} \in SUBSET Cells
  OBVIOUS
<1>2. << >> \in [{} -> Values]
  OBVIOUS
<1> QED BY <1>1, <1>2 DEF Writes

LEMMA OperandsAreWrites == \A pc : Operands(pc) \subseteq Writes
BY NoWriteIsWrites DEF Operands

LEMMA CurrentIsSnapshot ==
  ASSUME ExecutionTypeOK
  PROVE  /\ Current \in SnapshotRecord
         /\ Current.pc \in PC /\ Current.callers \in Seq(PC)
         /\ Current.operand \in Writes /\ Current.memory \in Memory
<1>1. snapshots \in Seq(SnapshotRecord) /\ Len(snapshots) \in 1 .. Len(snapshots)
  BY DEF ExecutionTypeOK
<1>2. Current \in SnapshotRecord
  BY <1>1, ElementOfSeq DEF Current
<1> QED BY <1>2 DEF SnapshotRecord

LEMMA ContinueGrows ==
  ASSUME ExecutionTypeOK, NEW pc, NEW callers \in Seq(PC), NEW m \in Memory,
         Continue(pc, callers, m)
  PROVE  \E s : Grown(s) /\ s.pc = pc /\ s.callers = callers /\ s.memory = m
<1>1. /\ ~ executed /\ executed' = executed /\ Len(snapshots) < MaxSnapshots
      /\ pc \in PC
      /\ \E s \in SnapshotAt(pc, callers, m) : snapshots' = Append(snapshots, s)
  BY DEF Continue
<1>2. PICK s \in SnapshotAt(pc, callers, m) : snapshots' = Append(snapshots, s)
  BY <1>1
<1>3. PICK w \in Operands(pc) : s = [pc |-> pc, callers |-> callers, operand |-> w, memory |-> m]
  BY DEF SnapshotAt
<1>4. w \in Writes
  BY OperandsAreWrites
<1>5. s \in SnapshotRecord /\ s.pc = pc /\ s.callers = callers /\ s.memory = m /\ s.operand = w
  BY <1>1, <1>3, <1>4 DEF SnapshotRecord
<1> QED BY <1>1, <1>2, <1>3, <1>5 DEF Grown

\* An instruction that is not a syscall, and one that is.
PlainStep(s) ==
  Grown(s) /\ ~ IsSyscall(Current.pc) /\ syscall_writes' = syscall_writes
           /\ \A w : Follows(Current, s, w)

SyscallStep(s, w) ==
  Grown(s) /\ IsSyscall(Current.pc) /\ w \in Writes
           /\ syscall_writes' = Append(syscall_writes, w) /\ Follows(Current, s, w)

LEMMA ExecuteSteps ==
  ASSUME ExecutionTypeOK, Execute
  PROVE  \/ \E s : PlainStep(s)
         \/ \E s, w : SyscallStep(s, w)
         \/ Stop
<1> PICK cur : cur = Current
  OBVIOUS
<1>1. /\ cur.pc \in PC /\ cur.callers \in Seq(PC)
      /\ cur.operand \in Writes /\ cur.memory \in Memory
  BY CurrentIsSnapshot
<1>2. CASE ExecuteCall
  <2> PICK callers : callers = Append(cur.callers, cur.pc)
    OBVIOUS
  <2> PICK m : m = cur.memory
    OBVIOUS
  <2>1. PICK target \in Text[cur.pc].to : Continue(target, callers, m)
    BY <1>2 DEF ExecuteCall
  <2>2. callers \in Seq(PC) /\ m \in Memory
    BY <1>1
  <2>3. PICK s : Grown(s) /\ s.pc = target /\ s.callers = callers /\ s.memory = m
    BY ONLY ExecutionTypeOK, <2>1, <2>2, ContinueGrows
  <2>4. IsCall(cur.pc) /\ ~ IsSyscall(cur.pc) /\ syscall_writes' = syscall_writes
    BY <1>2 DEF ExecuteCall, IsCall, IsSyscall
  <2>5. \A w : Follows(cur, s, w)
    BY <2>3, <2>4 DEF Follows
  <2> QED BY <2>3, <2>4, <2>5 DEF PlainStep
<1>3. CASE ExecuteSyscall
  <2>1. PICK w \in Writes :
          /\ syscall_writes' = Append(syscall_writes, w)
          /\ Continue(cur.pc + 1, cur.callers, Overwrite(cur.memory, w))
    BY <1>3 DEF ExecuteSyscall
  <2>2. Overwrite(cur.memory, w) \in Memory
    BY <1>1, OverwriteIsMemory
  <2>3. PICK s : Grown(s) /\ s.pc = cur.pc + 1 /\ s.callers = cur.callers
                 /\ s.memory = Overwrite(cur.memory, w)
    BY <1>1, <2>1, <2>2, ContinueGrows
  <2>4. IsSyscall(cur.pc)
    BY <1>3 DEF ExecuteSyscall
  <2>5. Follows(cur, s, w)
    BY <2>3, <2>4 DEF Follows
  <2> QED BY <2>1, <2>3, <2>4, <2>5 DEF SyscallStep
<1>4. CASE ExecuteExit
  <2> PICK in : in = cur.callers
    OBVIOUS
  <2> PICK outer : outer = SubSeq(in, 1, Len(in) - 1)
    OBVIOUS
  <2> PICK pc : pc = in[Len(in)] + 1
    OBVIOUS
  <2> PICK m : m = cur.memory
    OBVIOUS
  <2>1. /\ Text[cur.pc].op = "exit" /\ in # << >> /\ syscall_writes' = syscall_writes
        /\ Continue(pc, outer, m)
    BY <1>4 DEF ExecuteExit
  <2>2. outer \in Seq(PC)
    <3>1. Len(in) \in Nat \ {0} /\ \A i \in 1 .. Len(in) : in[i] \in PC
      BY <1>1, <2>1, EmptySeq, ElementOfSeq
    <3>2. 1 \in Int /\ Len(in) - 1 \in Int /\ \A i \in 1 .. Len(in) - 1 : in[i] \in PC
      BY <3>1
    <3> QED BY ONLY <3>2, outer = SubSeq(in, 1, Len(in) - 1), SubSeqProperties
  <2>3. m \in Memory
    BY <1>1
  <2>4. PICK s : Grown(s) /\ s.pc = pc /\ s.callers = outer /\ s.memory = m
    BY ONLY ExecutionTypeOK, <2>1, <2>2, <2>3, ContinueGrows
  <2>5. ~ IsSyscall(cur.pc)
    BY <2>1 DEF IsSyscall
  <2>6. \A w : Follows(cur, s, w)
    BY <2>1, <2>4 DEF Follows
  <2> QED BY <2>1, <2>4, <2>5, <2>6 DEF PlainStep
<1>5. CASE ExecuteStore
  <2>1. /\ Text[cur.pc].op = "store" /\ syscall_writes' = syscall_writes
        /\ Continue(cur.pc + 1, cur.callers, Overwrite(cur.memory, cur.operand))
    BY <1>5 DEF ExecuteStore
  <2>2. Overwrite(cur.memory, cur.operand) \in Memory
    BY <1>1, OverwriteIsMemory
  <2>3. PICK s : Grown(s) /\ s.pc = cur.pc + 1 /\ s.callers = cur.callers
                 /\ s.memory = Overwrite(cur.memory, cur.operand)
    BY <1>1, <2>1, <2>2, ContinueGrows
  <2>4. ~ IsSyscall(cur.pc)
    BY <2>1 DEF IsSyscall
  <2>5. \A w : Follows(cur, s, w)
    BY <2>1, <2>3 DEF Follows
  <2> QED BY <2>1, <2>3, <2>4, <2>5 DEF PlainStep
<1>6. CASE ExecuteOther
  <2>1. Text[cur.pc].op = "other" /\ syscall_writes' = syscall_writes
    BY <1>6 DEF ExecuteOther
  <2>2. PICK target \in Text[cur.pc].to : Continue(target, cur.callers, cur.memory)
    BY <1>6 DEF ExecuteOther
  <2>3. PICK s : Grown(s) /\ s.pc = target /\ s.callers = cur.callers /\ s.memory = cur.memory
    BY <1>1, <2>2, ContinueGrows
  <2>4. ~ IsSyscall(cur.pc)
    BY <2>1 DEF IsSyscall
  <2>5. \A w : Follows(cur, s, w)
    BY <2>1, <2>3 DEF Follows
  <2> QED BY <2>1, <2>3, <2>4, <2>5 DEF PlainStep
<1> QED BY <1>2, <1>3, <1>4, <1>5, <1>6 DEF Execute

\* A step of the execution is within its bounds, and only before its end.
LEMMA ExecutionTypes ==
  ASSUME ExecutionTypeOK, Execute
  PROVE  /\ ExecutionTypeOK'
         /\ ~ executed
         /\ Len(snapshots) <= Len(snapshots') /\ Len(syscall_writes) <= Len(syscall_writes')
<1>1. /\ snapshots \in Seq(SnapshotRecord) /\ Len(snapshots) \in 1 .. MaxSnapshots
      /\ syscall_writes \in Seq(Writes) /\ executed \in BOOLEAN /\ MaxSnapshots \in Nat
  BY TextType DEF ExecutionTypeOK
<1>2. ASSUME NEW s, Grown(s)
      PROVE  /\ snapshots' \in Seq(SnapshotRecord) /\ Len(snapshots') \in 1 .. MaxSnapshots
             /\ Len(snapshots) <= Len(snapshots')
             /\ executed' \in BOOLEAN /\ ~ executed
  <2>1. snapshots' \in Seq(SnapshotRecord) /\ Len(snapshots') = Len(snapshots) + 1
    BY <1>1, <1>2, AppendProperties DEF Grown
  <2> QED BY <1>1, <1>2, <2>1 DEF Grown
<1>3. ASSUME NEW s, PlainStep(s) PROVE syscall_writes' = syscall_writes /\ Grown(s)
  BY <1>3 DEF PlainStep
<1>4. ASSUME NEW s, NEW w, SyscallStep(s, w)
      PROVE  /\ syscall_writes' \in Seq(Writes) /\ Len(syscall_writes) <= Len(syscall_writes')
             /\ Grown(s)
  <2>1. w \in Writes /\ syscall_writes' = Append(syscall_writes, w) /\ Grown(s)
    BY <1>4 DEF SyscallStep
  <2>2. syscall_writes' \in Seq(Writes) /\ Len(syscall_writes') = Len(syscall_writes) + 1
    BY <1>1, <2>1, AppendProperties
  <2> QED BY <1>1, <2>1, <2>2
<1>5. ASSUME Stop
      PROVE  /\ snapshots' = snapshots /\ executed' = TRUE /\ ~ executed
             /\ syscall_writes' \in Seq(Writes) /\ Len(syscall_writes) <= Len(syscall_writes')
  <2>1. \/ syscall_writes' = syscall_writes
        \/ syscall_writes' = Append(syscall_writes, << >>)
    BY <1>5 DEF Stop
  <2>2. Append(syscall_writes, << >>) \in Seq(Writes)
        /\ Len(Append(syscall_writes, << >>)) = Len(syscall_writes) + 1
    BY <1>1, NoWriteIsWrites, AppendProperties
  <2>3. syscall_writes' \in Seq(Writes) /\ Len(syscall_writes) <= Len(syscall_writes')
    BY <1>1, <2>1, <2>2
  <2> QED BY <1>5, <2>3 DEF Stop
<1>6. CASE \E s : PlainStep(s)
  BY <1>1, <1>2, <1>3, <1>6 DEF ExecutionTypeOK
<1>7. CASE \E s, w : SyscallStep(s, w)
  BY <1>1, <1>2, <1>4, <1>7 DEF ExecutionTypeOK
<1>8. CASE Stop
  BY <1>1, <1>5, <1>8 DEF ExecutionTypeOK
<1> QED BY <1>6, <1>7, <1>8, ExecuteSteps

----------------------------------------------------------------------------
(***************************************************************************)
(* The inductive invariant holds at the start and is kept by each action.  *)
(***************************************************************************)
LEMMA StartedIsSourceTrace ==
  /\ StartedTrace(Nil) \in SourceTraces /\ ~ StartedTrace(Nil).orphan
  /\ StartedTrace(Nil).drained = 0 /\ OpenFns(StartedTrace(Nil)) = << >>
<1>1. StartedTrace(Nil) = [open |-> << >>, orphan |-> FALSE, drained |-> 0, position |-> Nil]
  BY DEF StartedTrace
<1>2. << >> \in Seq(OpenCalls(Calls, Nil))
  OBVIOUS
<1>3. StartedTrace(Nil) \in SourceTraces
  BY <1>1, <1>2 DEF SourceTraces, Traces
<1>4. OpenFns(StartedTrace(Nil)) \in Seq(Calls) /\ Len(OpenFns(StartedTrace(Nil))) = 0
  BY <1>1, <1>3, OpenFunctions, EmptySeq
<1>5. OpenFns(StartedTrace(Nil)) = << >>
  BY <1>4, EmptySeq
<1> QED BY <1>1, <1>3, <1>5

LEMMA RecorderInvStarts == Init => RecorderInv
<1> SUFFICES ASSUME Init PROVE RecorderInv
  OBVIOUS
<1>1. Zero \in Values /\ Entry \in PC /\ MaxSnapshots \in Nat \ {0}
  BY TextType
<1>2. [c \in Cells |-> Zero] \in Memory /\ << >> \in Seq(PC)
  BY <1>1 DEF Memory
<1>3. PICK s \in SnapshotAt(Entry, << >>, [c \in Cells |-> Zero]) : snapshots = << s >>
  BY DEF Init, ExecutionInit
<1>4. s \in SnapshotRecord
  <2>1. PICK w \in Operands(Entry) :
          s = [pc |-> Entry, callers |-> << >>, operand |-> w, memory |-> [c \in Cells |-> Zero]]
    BY <1>3 DEF SnapshotAt
  <2>2. w \in Writes
    BY OperandsAreWrites
  <2> QED BY <1>1, <1>2, <2>1, <2>2 DEF SnapshotRecord
<1>5. snapshots \in Seq(SnapshotRecord) /\ Len(snapshots) = 1
  BY <1>3, <1>4
<1>6. syscall_writes = << >> /\ executed = FALSE
  BY DEF Init, ExecutionInit
<1>7. ExecutionTypeOK
  <2>1. Len(snapshots) \in 1 .. MaxSnapshots
    BY <1>1, <1>5
  <2>2. syscall_writes \in Seq(Writes) /\ executed \in BOOLEAN
    BY <1>6, EmptySeq
  <2> QED BY <1>5, <2>1, <2>2 DEF ExecutionTypeOK
<1>8. /\ recorded = 0 /\ stack = << >> /\ last_position = Nil
      /\ memory = [c \in Cells |-> Zero] /\ consumed = 0
      /\ trace = StartedTrace(Nil) /\ finished = FALSE
  BY DEF Init, RecorderInit
<1>9. stack \in Seq(Frames) /\ DOMAIN stack = {}
  BY <1>8
<1>10. trace \in Traces(Calls, Nil, Steps)
  BY <1>8, StartedIsSourceTrace DEF SourceTraces
<1>11. recorded \in 0 .. Len(snapshots) /\ consumed \in 0 .. Len(syscall_writes)
  BY <1>5, <1>6, <1>8, EmptySeq
<1>12. TypeOK
  BY <1>2, <1>7, <1>8, <1>9, <1>10, <1>11 DEF TypeOK
<1>13. CallsBalance
  BY <1>8, StartedIsSourceTrace DEF CallsBalance
<1>14. OpenFns(trace) = CallsOf(stack)
  BY <1>8, StartedIsSourceTrace, CallsOfNone
<1>15. PositionFits(last_position, trace)
  BY <1>8 DEF PositionFits
<1>16. ~ (recorded > 0)
  BY <1>8
<1> QED BY <1>8, <1>12, <1>13, <1>14, <1>15, <1>16 DEF RecorderInv

LEMMA RecorderInvExecutes ==
  ASSUME RecorderInv, Execute, UNCHANGED recorder_vars
  PROVE  RecorderInv'
<1>1. ExecutionTypeOK /\ recorded \in 0 .. Len(snapshots)
      /\ consumed \in 0 .. Len(syscall_writes)
  BY DEF RecorderInv, TypeOK
<1>2. /\ ExecutionTypeOK' /\ ~ executed
      /\ Len(snapshots) <= Len(snapshots') /\ Len(syscall_writes) <= Len(syscall_writes')
  BY <1>1, ExecutionTypes
<1>3. /\ recorded' = recorded /\ stack' = stack /\ last_position' = last_position
      /\ memory' = memory /\ consumed' = consumed /\ trace' = trace /\ finished' = finished
  BY DEF recorder_vars
<1>4. recorded' \in 0 .. Len(snapshots') /\ consumed' \in 0 .. Len(syscall_writes')
  <2>1. Len(snapshots') \in Nat /\ Len(syscall_writes') \in Nat
    BY <1>2 DEF ExecutionTypeOK
  <2>2. Len(snapshots) \in Nat /\ Len(syscall_writes) \in Nat
    BY <1>1 DEF ExecutionTypeOK
  <2> QED BY <1>1, <1>2, <1>3, <2>1, <2>2
<1>5. TypeOK'
  BY <1>2, <1>3, <1>4 DEF RecorderInv, TypeOK
<1>6. ~ (recorded > 0) /\ ~ (recorded' > 0)
  BY <1>2, <1>3 DEF RecorderInv
<1>7. CallsBalance' /\ PositionFits(last_position, trace)' = PositionFits(last_position, trace)
      /\ (OpenFns(trace) = CallsOf(stack))' = (OpenFns(trace) = CallsOf(stack))
  BY <1>3 DEF RecorderInv, CallsBalance
<1> QED BY <1>3, <1>5, <1>6, <1>7 DEF RecorderInv

LEMMA RecorderInvRecords ==
  ASSUME RecorderInv, RecordFirst \/ RecordCall \/ RecordReturn \/ RecordNoTransition
  PROVE  RecorderInv'
<1>1. TypeOK /\ CanRecord /\ ~ finished
  BY DEF RecorderInv, RecordFirst, RecordCall, RecordReturn, RecordNoTransition, CanRecord
<1>2. /\ stack \in Seq(Frames) /\ OwnScopes(stack)
      /\ trace \in SourceTraces /\ ~ trace.orphan /\ trace.drained = 0
      /\ OpenFns(trace) = CallsOf(stack)
      /\ last_position \in Positions \cup {Nil} /\ PositionFits(last_position, trace)
  BY <1>1 DEF RecorderInv, TypeOK, OwnScopes, SourceTraces, CallsBalance
<1>3. \A t : PositionFits(Nil, t)
  BY DEF PositionFits
<1>4. ASSUME NEW f, f = FunctionAt[Taken.pc], f # Nil
      PROVE  /\ Pushed(f) \in Seq(Frames) /\ OwnScopes(Pushed(f))
             /\ Called(trace, f, Nil) \in SourceTraces
             /\ ~ Called(trace, f, Nil).orphan /\ Called(trace, f, Nil).drained = 0
             /\ OpenFns(Called(trace, f, Nil)) = CallsOf(Pushed(f))
  <2>1. f \in Functions
    BY <1>1, <1>4, TakenIsSnapshot DEF Functions
  <2> PICK frame : frame = [function |-> f, inlined |-> << >>]
    OBVIOUS
  <2> PICK t : t = Called(trace, f, Nil)
    OBVIOUS
  <2>2. /\ Append(stack, frame) \in Seq(Frames) /\ OwnScopes(Append(stack, frame))
        /\ t \in SourceTraces /\ Kept(trace, t)
        /\ OpenFns(t) = CallsOf(Append(stack, frame))
    BY <1>2, <2>1, PushedMirrors
  <2>3. Pushed(f) = Append(stack, frame)
    BY DEF Pushed
  <2> QED BY <1>2, <2>2, <2>3 DEF Kept
<1>5. ASSUME RecordIn(stack, trace, last_position) PROVE RecorderInv'
  BY <1>1, <1>2, <1>5, RecordInKeeps
<1>6. ASSUME NEW f, f = FunctionAt[Taken.pc], f # Nil,
             NEW last \in {Nil, last_position}, last = Nil \/ recorded = 0,
             RecordIn(Pushed(f), Called(trace, f, Nil), last)
      PROVE  RecorderInv'
  <2>1. last = Nil
    BY <1>1, <1>6 DEF RecorderInv
  <2>2. PositionFits(last, Called(trace, f, Nil))
    BY <1>3, <2>1
  <2>3. last \in Positions \cup {Nil}
    BY <2>1
  <2> QED BY <1>1, <1>4, <1>6, <2>2, <2>3, RecordInKeeps
<1>7. CASE RecordFirst
  BY <1>5, <1>6, <1>7 DEF RecordFirst
<1>8. CASE RecordCall
  BY <1>6, <1>8 DEF RecordCall
<1>9. CASE RecordReturn
  <2> PICK top : top = Len(stack)
    OBVIOUS
  <2> PICK below : below = SubSeq(stack, 1, top - 1)
    OBVIOUS
  <2> PICK t : t = Unwound(trace, stack[top])
    OBVIOUS
  <2>1. stack # << >> /\ RecordIn(below, t, Nil)
    BY <1>9 DEF RecordReturn
  <2>2. stack[top] \in Frames /\ below \in Seq(Frames) /\ stack = Append(below, stack[top])
    BY <1>2, <2>1, TopOfStack
  <2>3. OwnScopes(below)
    BY <1>2, <2>1, OwnScopesBelow
  <2>4. t \in SourceTraces /\ Kept(trace, t) /\ OpenFns(t) = CallsOf(below)
    <3>1. PICK frame : frame = stack[top]
      OBVIOUS
    <3>2. OpenFns(trace) = CallsOf(Append(below, frame)) /\ frame \in Frames
      BY ONLY <1>2, <2>2, <3>1, Zenon
    <3>3. /\ Unwound(trace, frame) \in SourceTraces
          /\ Kept(trace, Unwound(trace, frame))
          /\ OpenFns(Unwound(trace, frame)) = CallsOf(below)
      BY ONLY <1>2, <2>2, <3>2, UnwoundMirrors, Zenon
    <3>4. t = Unwound(trace, frame)
      BY <3>1
    <3> QED BY ONLY <3>3, <3>4, Zenon
  <2>5. ~ t.orphan /\ t.drained = 0
    BY <1>2, <2>4 DEF Kept
  <2>6. PositionFits(Nil, t) /\ Nil \in Positions \cup {Nil}
    BY <1>3
  <2> QED BY ONLY <1>1, <2>1, <2>2, <2>3, <2>4, <2>5, <2>6, RecordInKeeps
<1>10. CASE RecordNoTransition
  BY <1>5, <1>10 DEF RecordNoTransition
<1> QED BY <1>7, <1>8, <1>9, <1>10

LEMMA PrefixGrows ==
  ASSUME NEW frames \in Seq(Frames), NEW n \in 1 .. Len(frames)
  PROVE  /\ frames[n] \in Frames
         /\ SubSeq(frames, 1, n - 1) \in Seq(Frames)
         /\ SubSeq(frames, 1, n) = Append(SubSeq(frames, 1, n - 1), frames[n])
<1> PICK more : more = SubSeq(frames, 1, n)
  OBVIOUS
<1>1. \A i \in 1 .. n : frames[i] \in Frames
  <2>1. \A i \in 1 .. n : i \in 1 .. Len(frames)
    OBVIOUS
  <2> QED BY <2>1, ElementOfSeq
<1>2. more \in Seq(Frames) /\ Len(more) = n /\ \A i \in 1 .. n : more[i] = frames[i]
  <2>1. 1 \in Int /\ n \in Int
    OBVIOUS
  <2>2. /\ more \in Seq(Frames) /\ Len(more) = (IF 1 <= n THEN n - 1 + 1 ELSE 0)
        /\ \A i \in 1 .. n - 1 + 1 : more[i] = frames[1 + i - 1]
    BY <1>1, <2>1, SubSeqProperties
  <2> QED BY <2>2
<1>3. more # << >> /\ more[n] = frames[n]
  BY <1>2
<1>4. /\ SubSeq(more, 1, n - 1) \in Seq(Frames)
      /\ more = Append(SubSeq(more, 1, n - 1), more[n])
  BY <1>2, <1>3, TopOfStack
<1>5. SubSeq(more, 1, n - 1) = SubSeq(frames, 1, n - 1)
  <2>1. \A i \in 1 .. n - 1 : more[i] = frames[i] /\ more[i] \in Frames /\ frames[i] \in Frames
    BY <1>1, <1>2
  <2> PICK k \in Nat : k = n - 1
    OBVIOUS
  <2> PICK a : a = SubSeq(more, 1, k)
    OBVIOUS
  <2> PICK b : b = SubSeq(frames, 1, k)
    OBVIOUS
  <2>2. 1 \in Int /\ k \in Int
    OBVIOUS
  <2>3. a \in Seq(Frames) /\ Len(a) = (IF 1 <= k THEN k - 1 + 1 ELSE 0)
        /\ \A i \in 1 .. k - 1 + 1 : a[i] = more[1 + i - 1]
    BY <2>1, <2>2, SubSeqProperties
  <2>4. b \in Seq(Frames) /\ Len(b) = (IF 1 <= k THEN k - 1 + 1 ELSE 0)
        /\ \A i \in 1 .. k - 1 + 1 : b[i] = frames[1 + i - 1]
    BY <2>1, <2>2, SubSeqProperties
  <2>5. Len(a) = Len(b) /\ \A i \in 1 .. Len(a) : a[i] = b[i]
    BY <2>1, <2>3, <2>4
  <2>6. a = b
    BY ONLY <2>3, <2>4, <2>5, SeqEqual
  <2> QED BY <2>6
<1> QED BY <1>1, <1>3, <1>4, <1>5

(***************************************************************************)
(* The end of the recording unwinds the stack frame by frame.              *)
(***************************************************************************)
LEMMA UnwoundIsTrace ==
  ASSUME NEW t \in SourceTraces, NEW frame \in Frames
  PROVE  Unwound(t, frame) \in SourceTraces
<1> PICK m \in Nat : m = Len(frame.inlined) + 1
  BY DEF Frames
<1> QED BY ReturnedOpen DEF Unwound, SourceTraces

LEMMA FinishUnwinds ==
  ASSUME RecorderInv, Finish
  PROVE  \E u \in SourceTraces : /\ trace' = Closed(u)
                                 /\ u.open = << >> /\ ~ u.orphan
<1> PICK start : start = trace
  OBVIOUS
<1> PICK frames : frames = stack
  OBVIOUS
<1>1. /\ start \in SourceTraces /\ frames \in Seq(Frames) /\ ~ start.orphan
      /\ OpenFns(start) = CallsOf(frames)
  BY DEF RecorderInv, TypeOK, CallsBalance, SourceTraces, Finish
<1> PICK n \in Nat : n = Len(frames)
  BY <1>1
<1> PICK S : S = SourceTraces
  OBVIOUS
<1> DEFINE Pop(i, t) == Unwound(t, frames[n - i + 1])
           Pops(h) == h = [i \in 0 .. n |-> IF i = 0 THEN start
                                            ELSE Unwound(h[i - 1], frames[n - i + 1])]
           pop == [p \in (1 .. n) \X S |-> Pop(p[1], p[2])]
<1>2. \A i \in 1 .. n, t \in S : Pop(i, t) \in S
  <2>1. \A i \in 1 .. n : n - i + 1 \in 1 .. Len(frames)
    OBVIOUS
  <2>2. \A i \in 1 .. n : frames[n - i + 1] \in Frames
    BY <1>1, <2>1, ElementOfSeq
  <2> QED BY <2>2, UnwoundIsTrace
<1>3. pop \in [(1 .. n) \X S -> S] /\ \A i \in 1 .. n, t \in S : pop[<< i, t >>] = Pop(i, t)
  <2> HIDE DEF Pop
  <2> QED BY <1>2
<1>4. \E h : Pops(h)
  <2>1. PICK h \in [0 .. n -> S] : h[0] = start /\ \A i \in 1 .. n : h[i] = pop[<< i, h[i - 1] >>]
    <3> HIDE DEF pop
    <3>1. PICK h \in [0 .. n -> S] : Iterates(h, n, start, pop)
      BY <1>1, <1>3, Recursion
    <3> QED BY <3>1 DEF Iterates
  <2>2. \A i \in 1 .. n : i - 1 \in 0 .. n
    OBVIOUS
  <2>3. \A i \in 1 .. n : h[i] = Pop(i, h[i - 1])
    <3> HIDE DEF pop, Pop
    <3> TAKE i \in 1 .. n
    <3>1. h[i - 1] \in S
      BY ONLY <2>1, <2>2, i \in 1 .. n, Zenon
    <3>2. h[i] = pop[<< i, h[i - 1] >>]
      BY ONLY <2>1, i \in 1 .. n, Zenon
    <3>3. pop[<< i, h[i - 1] >>] = Pop(i, h[i - 1])
      BY ONLY <1>3, <3>1, i \in 1 .. n, Zenon
    <3> QED BY ONLY <3>2, <3>3, Zenon
  <2>4. \A i \in 0 .. n : i = 0 \/ i \in 1 .. n
    OBVIOUS
  <2>5. Pops(h)
    BY <2>1, <2>3, <2>4
  <2> HIDE DEF Pops
  <2> QED BY <2>5
<1> DEFINE g == CHOOSE h : Pops(h)
<1>5. Pops(g)
  <2> HIDE DEF Pops
  <2> QED BY <1>4
<1>6. trace' = Closed(g[n])
  BY DEF Finish
<1>7. \A i \in 0 .. n : g[i] = IF i = 0 THEN start ELSE Pop(i, g[i - 1])
  <2> HIDE DEF g
  <2> QED BY <1>5
<1> HIDE DEF g
<1> DEFINE Left == {i \in 0 .. n : /\ g[i] \in SourceTraces /\ ~ g[i].orphan
                                   /\ OpenFns(g[i]) = CallsOf(SubSeq(frames, 1, n - i))}
<1>8. 0 \in Left
  <2>1. g[0] = start
    <3> HIDE DEF Pop
    <3> QED BY <1>7
  <2>2. SubSeq(frames, 1, n) = frames
    BY <1>1, SubSeqFull
  <2>3. n - 0 = n /\ 0 \in 0 .. n
    OBVIOUS
  <2>4. OpenFns(g[0]) = CallsOf(SubSeq(frames, 1, n - 0))
    BY <1>1, <2>1, <2>2, <2>3
  <2>5. g[0] \in SourceTraces /\ ~ g[0].orphan
    BY <1>1, <2>1
  <2> QED BY <2>3, <2>4, <2>5
<1>9. ASSUME NEW i \in 1 .. n, i - 1 \in Left PROVE i \in Left
  <2>0. n - i + 1 \in 1 .. n
    BY ONLY n \in Nat, i \in 1 .. n
  <2> PICK k \in 1 .. n : k = n - i + 1
    BY ONLY <2>0, Zenon
  <2> PICK t : t = g[i - 1]
    OBVIOUS
  <2> PICK u : u = g[i]
    OBVIOUS
  <2>1. u = Unwound(t, frames[k])
    <3>1. i \in 0 .. n /\ i # 0
      OBVIOUS
    <3> QED BY <1>7, <3>1
  <2>2. n - (i - 1) = k /\ n - i = k - 1
    OBVIOUS
  <2>3. t \in SourceTraces /\ ~ t.orphan /\ OpenFns(t) = CallsOf(SubSeq(frames, 1, k))
    BY <1>9, <2>2
  <2>4. /\ frames[k] \in Frames /\ SubSeq(frames, 1, k - 1) \in Seq(Frames)
        /\ SubSeq(frames, 1, k) = Append(SubSeq(frames, 1, k - 1), frames[k])
    BY <1>1, PrefixGrows
  <2>5. /\ u \in SourceTraces /\ Kept(t, u)
        /\ OpenFns(u) = CallsOf(SubSeq(frames, 1, k - 1))
    <3>1. OpenFns(t) = CallsOf(Append(SubSeq(frames, 1, k - 1), frames[k]))
      BY <2>3, <2>4
    <3> PICK below : below = SubSeq(frames, 1, k - 1)
      OBVIOUS
    <3> PICK frame : frame = frames[k]
      OBVIOUS
    <3>2. /\ t \in SourceTraces /\ below \in Seq(Frames) /\ frame \in Frames
          /\ u = Unwound(t, frame) /\ OpenFns(t) = CallsOf(Append(below, frame))
      BY <2>1, <2>3, <2>4, <3>1
    <3>3. u \in SourceTraces /\ Kept(t, u) /\ OpenFns(u) = CallsOf(below)
      BY ONLY <3>2, UnwoundMirrors
    <3> QED BY <3>3
  <2>6. ~ u.orphan
    BY <2>3, <2>5 DEF Kept
  <2> QED BY <2>2, <2>5, <2>6
<1>10. n \in Left
  <2> HIDE DEF Left
  <2>1. \A i \in 0 .. n : i \in Left
    BY <1>8, <1>9, Induction
  <2> QED BY <2>1
<1> PICK u : u = g[n]
  OBVIOUS
<1>11. u \in SourceTraces /\ ~ u.orphan /\ OpenFns(u) = CallsOf(SubSeq(frames, 1, 0))
  BY <1>10
<1>12. SubSeq(frames, 1, 0) = << >>
  BY SubSeqEmpty
<1>13. OpenFns(u) = << >>
  BY <1>11, <1>12, CallsOfNone
<1>14. u.open = << >>
  <2>1. Len(u.open) = 0 /\ u.open \in Seq(OpenCalls(Calls, Nil))
    BY <1>11, <1>13, OpenFunctions, EmptySeq
  <2> QED BY <2>1, EmptySeq
<1> QED BY <1>6, <1>11, <1>14

LEMMA RecorderInvFinishes ==
  ASSUME RecorderInv, Finish
  PROVE  RecorderInv'
<1>1. PICK u \in SourceTraces : trace' = Closed(u) /\ u.open = << >> /\ ~ u.orphan
  BY FinishUnwinds
<1>2. trace' \in Traces(Calls, Nil, Steps) /\ trace'.drained = Len(u.open) /\ ~ trace'.orphan
  BY <1>1, ClosedTrace DEF SourceTraces
<1>3. CallsBalance'
  BY <1>1, <1>2, EmptySeq DEF CallsBalance
<1>4. /\ finished' /\ stack' = << >> /\ executed' /\ executed
      /\ snapshots' = snapshots /\ syscall_writes' = syscall_writes /\ executed' = executed
      /\ recorded' = recorded /\ last_position' = last_position /\ memory' = memory
      /\ consumed' = consumed /\ finished' \in BOOLEAN
  BY DEF Finish
<1>5. stack' \in Seq(Frames) /\ DOMAIN stack' = {}
  BY <1>4
<1>6. TypeOK'
  BY <1>2, <1>4, <1>5 DEF RecorderInv, TypeOK, ExecutionTypeOK
<1> QED BY <1>3, <1>4, <1>6 DEF RecorderInv

LEMMA RecorderInvKept == RecorderInv /\ [Next]_vars => RecorderInv'
<1> SUFFICES ASSUME RecorderInv, [Next]_vars PROVE RecorderInv'
  OBVIOUS
<1>1. CASE Execute /\ UNCHANGED recorder_vars
  BY <1>1, RecorderInvExecutes
<1>2. CASE RecordFirst \/ RecordCall \/ RecordReturn \/ RecordNoTransition
  BY <1>2, RecorderInvRecords
<1>3. CASE Finish
  BY <1>3, RecorderInvFinishes
<1>4. CASE UNCHANGED vars
  <2>1. /\ recorded' = recorded /\ stack' = stack /\ last_position' = last_position
        /\ memory' = memory /\ consumed' = consumed /\ trace' = trace /\ finished' = finished
        /\ snapshots' = snapshots /\ syscall_writes' = syscall_writes /\ executed' = executed
    BY <1>4 DEF vars, recorder_vars
  <2>2. TypeOK' /\ CallsBalance'
    BY <2>1 DEF RecorderInv, TypeOK, ExecutionTypeOK, CallsBalance
  <2>3. PositionFits(last_position, trace)' = PositionFits(last_position, trace)
        /\ (OpenFns(trace) = CallsOf(stack))' = (OpenFns(trace) = CallsOf(stack))
        /\ Shown' = Shown
    BY <2>1 DEF Shown
  <2> QED BY <2>1, <2>2, <2>3 DEF RecorderInv
<1> QED BY <1>1, <1>2, <1>3, <1>4 DEF Next

(***************************************************************************)
(* The recorder's state is in its types: the count of consumed journal     *)
(* entries never passes the journal's end, and a frame's inlined calls     *)
(* are scopes of its function.                                             *)
(***************************************************************************)
THEOREM SourceRecorderTypeOK == Spec => []TypeOK
<1>1. RecorderInv => TypeOK
  BY DEF RecorderInv
<1> QED BY <1>1, RecorderInvStarts, RecorderInvKept, PTL DEF Spec

(***************************************************************************)
(* The calls open in the trace are the frames, each followed by its        *)
(* inlined calls, whatever DWARF leaves undescribed.                       *)
(***************************************************************************)
THEOREM OpenCallsAreTheStack == Spec => []TraceMirrorsStack
<1>1. RecorderInv => TraceMirrorsStack
  BY DEF RecorderInv, TraceMirrorsStack
<1> QED BY <1>1, RecorderInvStarts, RecorderInvKept, PTL DEF Spec

(***************************************************************************)
(* Every call of a source-level recording is returned from, and no return  *)
(* is without its call.                                                    *)
(***************************************************************************)
THEOREM SourceCallsBalance == Spec => []CallsBalance
<1>1. RecorderInv => CallsBalance
  BY DEF RecorderInv
<1> QED BY <1>1, RecorderInvStarts, RecorderInvKept, PTL DEF Spec

(***************************************************************************)
(* The last step is on the position of the snapshot just taken, and was    *)
(* shown in what is now the innermost call, with its variables.            *)
(***************************************************************************)
THEOREM StepsFollowCalls == Spec => []StepIsOfInnermostCall
<1>1. RecorderInv => StepIsOfInnermostCall
  <2> SUFFICES ASSUME RecorderInv, Recording, PositionAt[Shown.pc] # Nil
               PROVE  /\ trace.position # Nil
                      /\ trace.position.file = PositionAt[Shown.pc].file
                      /\ trace.position.line = PositionAt[Shown.pc].line
                      /\ trace.position.depth = Len(OpenFns(trace))
                      /\ trace.position.locals = Innermost(trace)
    BY DEF StepIsOfInnermostCall, Innermost
  <2>1. last_position = PositionAt[Shown.pc] /\ PositionFits(last_position, trace)
    BY DEF RecorderInv, Recording
  <2> QED BY <2>1 DEF PositionFits
<1> QED BY <1>1, RecorderInvStarts, RecorderInvKept, PTL DEF Spec

----------------------------------------------------------------------------
(***************************************************************************)
(* Counting the syscalls among the first snapshots.                        *)
(***************************************************************************)
SyscallsAmong(s, n) == Cardinality({i \in 1 .. n : IsSyscall(s[i].pc)})

LEMMA SyscallsCounted ==
  ASSUME NEW s, NEW n \in Nat
  PROVE  /\ IsFiniteSet({i \in 1 .. n : IsSyscall(s[i].pc)})
         /\ SyscallsAmong(s, n) \in Nat
         /\ SyscallsAmong(s, 0) = 0
<1>1. IsFiniteSet(1 .. n)
  BY FS_Interval
<1>2. {i \in 1 .. n : IsSyscall(s[i].pc)} \in SUBSET (1 .. n)
  OBVIOUS
<1>3. IsFiniteSet({i \in 1 .. n : IsSyscall(s[i].pc)})
  BY <1>1, <1>2, FS_Subset, Zenon
<1>4. {i \in 1 .. 0 : IsSyscall(s[i].pc)} = {}
  OBVIOUS
<1> QED BY <1>3, <1>4, FS_CardinalityType, FS_EmptySet DEF SyscallsAmong

LEMMA OneMoreCounted ==
  ASSUME NEW s, NEW n \in Nat
  PROVE  SyscallsAmong(s, n + 1) = IF IsSyscall(s[n + 1].pc) THEN SyscallsAmong(s, n) + 1
                                                             ELSE SyscallsAmong(s, n)
<1> DEFINE C(k) == {i \in 1 .. k : IsSyscall(s[i].pc)}
<1>1. IsFiniteSet(C(n)) /\ n + 1 \notin C(n)
  <2>1. IsFiniteSet(C(n))
    BY SyscallsCounted, Zenon
  <2>2. n + 1 \notin C(n)
    OBVIOUS
  <2> QED BY <2>1, <2>2
<1>2. C(n + 1) = IF IsSyscall(s[n + 1].pc) THEN C(n) \cup {n + 1} ELSE C(n)
  OBVIOUS
<1>3. Cardinality(C(n) \cup {n + 1}) = Cardinality(C(n)) + 1
  <2> HIDE DEF C
  <2> QED BY <1>1, FS_AddElement
<1>4. \A k : SyscallsAmong(s, k) = Cardinality(C(k))
  BY DEF SyscallsAmong
<1> HIDE DEF C
<1> QED BY <1>2, <1>3, <1>4, Zenon

LEMMA CountOfPrefix ==
  ASSUME NEW s, NEW t, NEW n \in Nat, \A i \in 1 .. n : s[i] = t[i]
  PROVE  SyscallsAmong(s, n) = SyscallsAmong(t, n)
<1>1. {i \in 1 .. n : IsSyscall(s[i].pc)} = {i \in 1 .. n : IsSyscall(t[i].pc)}
  BY Zenon
<1> QED BY <1>1, Zenon DEF SyscallsAmong

LEMMA CountGrows ==
  ASSUME NEW s, NEW n \in Nat, NEW m \in 0 .. n
  PROVE  SyscallsAmong(s, m) <= SyscallsAmong(s, n)
<1>1. IsFiniteSet({i \in 1 .. n : IsSyscall(s[i].pc)})
  BY SyscallsCounted
<1>2. {i \in 1 .. m : IsSyscall(s[i].pc)} \subseteq {i \in 1 .. n : IsSyscall(s[i].pc)}
  <2>1. \A i \in 1 .. m : i \in 1 .. n
    OBVIOUS
  <2> QED BY <2>1, Zenon
<1> QED BY <1>1, <1>2, FS_Subset, Zenon DEF SyscallsAmong

----------------------------------------------------------------------------
(***************************************************************************)
(* The history of the execution: each snapshot follows from the one before *)
(* it, a syscall's with the journal entry whose number is the syscall's.   *)
(***************************************************************************)
ExecutionInv ==
  /\ ExecutionTypeOK
  /\ snapshots[1].callers = << >> /\ snapshots[1].memory = [c \in Cells |-> Zero]
  /\ \A i \in 1 .. Len(snapshots) : snapshots[i].operand \in Operands(snapshots[i].pc)
  /\ \A i \in 1 .. Len(snapshots) - 1 :
       Follows(snapshots[i], snapshots[i + 1], syscall_writes[SyscallsAmong(snapshots, i)])
  /\ SyscallsAmong(snapshots, Len(snapshots) - 1) <= Len(syscall_writes)
  /\ ~ executed => SyscallsAmong(snapshots, Len(snapshots) - 1) = Len(syscall_writes)

LEMMA ExecutionInvStarts == Init => ExecutionInv
<1> SUFFICES ASSUME Init PROVE ExecutionInv
  OBVIOUS
<1>1. PICK s \in SnapshotAt(Entry, << >>, [c \in Cells |-> Zero]) : snapshots = << s >>
  BY DEF Init, ExecutionInit
<1>2. PICK w \in Operands(Entry) :
        s = [pc |-> Entry, callers |-> << >>, operand |-> w, memory |-> [c \in Cells |-> Zero]]
  BY <1>1 DEF SnapshotAt
<1>3. snapshots[1] = s /\ Len(snapshots) = 1
  BY <1>1
<1>4. ExecutionTypeOK /\ syscall_writes = << >>
  BY RecorderInvStarts DEF RecorderInv, TypeOK, Init, ExecutionInit
<1>5. SyscallsAmong(snapshots, 0) = 0 /\ Len(syscall_writes) = 0 /\ Len(snapshots) - 1 = 0
  <2>1. 0 \in Nat
    OBVIOUS
  <2>2. SyscallsAmong(snapshots, 0) = 0
    BY <2>1, SyscallsCounted, Zenon
  <2>3. Len(syscall_writes) = 0
    BY <1>4
  <2> QED BY <1>3, <2>2, <2>3
<1>6. \A i \in 1 .. Len(snapshots) : i = 1
  BY <1>3
<1>7. \A i \in 1 .. Len(snapshots) : snapshots[i].operand \in Operands(snapshots[i].pc)
  BY <1>2, <1>3, <1>6
<1>8. \A i \in 1 .. Len(snapshots) - 1 : FALSE
  <2>1. \A i \in 1 .. 0 : FALSE
    OBVIOUS
  <2> QED BY <1>5, <2>1
<1> QED BY <1>2, <1>3, <1>4, <1>5, <1>7, <1>8 DEF ExecutionInv

\* A trace that has grown by one snapshot.
LEMMA GrownKeeps ==
  ASSUME ExecutionInv, NEW s, Grown(s),
         NEW n \in Nat, n = Len(snapshots)
  PROVE  /\ n \in Nat \ {0} /\ Len(snapshots') = n + 1
         /\ \A i \in 1 .. n : snapshots'[i] = snapshots[i]
         /\ snapshots'[n + 1] = s
         /\ \A i \in 0 .. n : SyscallsAmong(snapshots', i) = SyscallsAmong(snapshots, i)
         /\ Current = snapshots[n]
<1>1. snapshots \in Seq(SnapshotRecord) /\ n \in Nat \ {0}
  BY DEF ExecutionInv, ExecutionTypeOK
<1>2. snapshots' = Append(snapshots, s) /\ s \in SnapshotRecord
  BY DEF Grown
<1>3. /\ Len(snapshots') = n + 1
      /\ \A i \in 1 .. n : snapshots'[i] = snapshots[i]
      /\ snapshots'[n + 1] = s
  BY <1>1, <1>2, AppendProperties
<1>4. ASSUME NEW i \in 0 .. n PROVE SyscallsAmong(snapshots', i) = SyscallsAmong(snapshots, i)
  <2>1. i \in Nat /\ \A k \in 1 .. i : snapshots'[k] = snapshots[k]
    BY <1>3
  <2> QED BY <2>1, CountOfPrefix
<1> QED BY <1>1, <1>3, <1>4 DEF Current

\* What the journal gains leaves the entries of earlier syscalls alone.
LEMMA EarlierEntries ==
  ASSUME NEW s, NEW n \in Nat \ {0}, NEW i \in 1 .. n - 1,
         NEW k \in Nat, k = SyscallsAmong(s, n - 1),
         NEW old, NEW new, \A j \in 1 .. k : new[j] = old[j],
         Follows(s[i], s[i + 1], old[SyscallsAmong(s, i)])
  PROVE  Follows(s[i], s[i + 1], new[SyscallsAmong(s, i)])
<1> PICK c : c = SyscallsAmong(s, i)
  OBVIOUS
<1>1. c \in 0 .. k
  <2> PICK m \in Nat : m = n - 1
    OBVIOUS
  <2>1. i \in 0 .. m /\ i \in Nat
    OBVIOUS
  <2>2. k = SyscallsAmong(s, m)
    OBVIOUS
  <2>3. SyscallsAmong(s, i) <= SyscallsAmong(s, m)
    BY ONLY m \in Nat, <2>1, CountGrows
  <2>4. SyscallsAmong(s, i) \in Nat
    BY ONLY <2>1, SyscallsCounted
  <2>5. c \in Nat /\ c <= k /\ k \in Nat
    BY <2>2, <2>3, <2>4
  <2> QED BY ONLY <2>5
<1>2. CASE c \in 1 .. k
  BY <1>2
<1>3. CASE c = 0
  <2>1. ~ IsSyscall(s[i].pc)
    <3> PICK m \in Nat : m = i - 1
      OBVIOUS
    <3>1. m + 1 = i
      OBVIOUS
    <3>2. SyscallsAmong(s, m) \in Nat
      BY SyscallsCounted
    <3>3. c = IF IsSyscall(s[i].pc) THEN SyscallsAmong(s, m) + 1 ELSE SyscallsAmong(s, m)
      BY <3>1, OneMoreCounted
    <3> QED BY <1>3, <3>2, <3>3
  <2> QED BY <2>1 DEF Follows
<1>4. c \in 1 .. k \/ c = 0
  BY <1>1
<1> QED BY <1>2, <1>3, <1>4

LEMMA ExecutionInvGrows ==
  ASSUME ExecutionInv, NEW s, Grown(s), ExecutionTypeOK',
         NEW w, Follows(Current, s, w),
         \/ ~ IsSyscall(Current.pc) /\ syscall_writes' = syscall_writes
         \/ IsSyscall(Current.pc) /\ w \in Writes /\ syscall_writes' = Append(syscall_writes, w),
         ~ IsSyscall(Current.pc) => \A v : Follows(Current, s, v)
  PROVE  ExecutionInv'
<1> PICK n \in Nat : n = Len(snapshots)
  BY DEF ExecutionInv, ExecutionTypeOK
<1> PICK before : before = snapshots
  OBVIOUS
<1> PICK after : after = snapshots'
  OBVIOUS
<1> PICK cur : cur = Current
  OBVIOUS
<1> PICK k : k = SyscallsAmong(before, n - 1)
  OBVIOUS
<1>1. /\ n \in Nat \ {0} /\ Len(after) = n + 1
      /\ \A i \in 1 .. n : after[i] = before[i]
      /\ after[n + 1] = s
      /\ \A i \in 0 .. n : SyscallsAmong(after, i) = SyscallsAmong(before, i)
      /\ cur = before[n]
  BY GrownKeeps
<1>2. /\ syscall_writes \in Seq(Writes) /\ Len(syscall_writes) = k /\ k \in Nat
      /\ ~ executed
  <2>1. n - 1 \in Nat /\ ~ executed
    BY <1>1 DEF Grown
  <2> QED BY <2>1, SyscallsCounted DEF ExecutionInv, ExecutionTypeOK
<1>3. SyscallsAmong(before, n) = IF IsSyscall(cur.pc) THEN k + 1 ELSE k
  <2> PICK m \in Nat : m = n - 1
    BY <1>1
  <2>1. m + 1 = n
    OBVIOUS
  <2> QED BY <1>1, <2>1, OneMoreCounted
<1>4. Len(syscall_writes') = SyscallsAmong(before, n)
      /\ \A i \in 1 .. k : syscall_writes'[i] = syscall_writes[i]
  <2>1. CASE IsSyscall(cur.pc)
    BY <1>2, <1>3, <2>1, AppendProperties
  <2>2. CASE ~ IsSyscall(cur.pc)
    BY <1>2, <1>3, <2>2
  <2> QED BY <2>1, <2>2
<1>5. Follows(cur, s, syscall_writes'[SyscallsAmong(before, n)])
  <2>1. CASE IsSyscall(cur.pc)
    <3>1. syscall_writes'[k + 1] = w
      BY <1>2, <2>1, AppendProperties
    <3> QED BY <1>3, <2>1, <3>1
  <2>2. CASE ~ IsSyscall(cur.pc)
    BY <2>2
  <2> QED BY <2>1, <2>2
<1>6. ASSUME NEW i \in 1 .. n - 1
      PROVE  Follows(before[i], before[i + 1], syscall_writes'[SyscallsAmong(before, i)])
  <2>1. Follows(before[i], before[i + 1], syscall_writes[SyscallsAmong(before, i)])
    BY DEF ExecutionInv
  <2>2. k \in Nat /\ n \in Nat \ {0} /\ k = SyscallsAmong(before, n - 1)
    BY <1>1, <1>2
  <2> QED BY ONLY <1>4, <2>1, <2>2, i \in 1 .. n - 1, EarlierEntries
<1>7. ASSUME NEW i \in 1 .. n
      PROVE  Follows(after[i], after[i + 1], syscall_writes'[SyscallsAmong(after, i)])
  <2>1. SyscallsAmong(after, i) = SyscallsAmong(before, i) /\ after[i] = before[i]
    BY <1>1
  <2>2. CASE i = n
    BY <1>1, <1>5, <2>1, <2>2
  <2>3. CASE i # n
    <3>1. i \in 1 .. n - 1 /\ i + 1 \in 1 .. n
      BY <2>3
    <3> QED BY <1>1, <1>6, <2>1, <3>1
  <2> QED BY <2>2, <2>3
<1>8. \A i \in 1 .. n + 1 : after[i].operand \in Operands(after[i].pc)
  <2>1. \A i \in 1 .. n : before[i].operand \in Operands(before[i].pc)
    BY DEF ExecutionInv
  <2>2. s.operand \in Operands(s.pc)
    BY DEF Grown
  <2>3. \A i \in 1 .. n + 1 : i \in 1 .. n \/ i = n + 1
    OBVIOUS
  <2> QED BY <1>1, <2>1, <2>2, <2>3
<1>9. after[1] = before[1]
  BY <1>1
<1>10. Len(after) - 1 = n /\ SyscallsAmong(after, n) = Len(syscall_writes')
  BY <1>1, <1>4
<1>11. Len(syscall_writes') \in Nat
  BY DEF ExecutionTypeOK
<1>12. snapshots'[1].callers = << >> /\ snapshots'[1].memory = [c \in Cells |-> Zero]
  BY <1>9 DEF ExecutionInv
<1> QED BY <1>1, <1>7, <1>8, <1>10, <1>11, <1>12 DEF ExecutionInv

LEMMA ExecutionInvStops ==
  ASSUME ExecutionInv, Stop, ExecutionTypeOK'
  PROVE  ExecutionInv'
<1> PICK n \in Nat \ {0} : n = Len(snapshots)
  BY DEF ExecutionInv, ExecutionTypeOK
<1> PICK s : s = snapshots
  OBVIOUS
<1> PICK k : k = SyscallsAmong(s, n - 1)
  OBVIOUS
<1>1. /\ snapshots' = s /\ executed' = TRUE /\ ~ executed
      /\ \/ syscall_writes' = syscall_writes
         \/ syscall_writes' = Append(syscall_writes, << >>)
  BY DEF Stop
<1>2. /\ syscall_writes \in Seq(Writes) /\ Len(syscall_writes) = k /\ k \in Nat
  BY <1>1 DEF ExecutionInv, ExecutionTypeOK
<1>3. /\ \A j \in 1 .. k : syscall_writes'[j] = syscall_writes[j]
      /\ k <= Len(syscall_writes')
  <2>1. CASE syscall_writes' = syscall_writes
    BY <1>2, <2>1
  <2>2. CASE syscall_writes' = Append(syscall_writes, << >>)
    BY <1>2, <2>2, NoWriteIsWrites, AppendProperties
  <2> QED BY <1>1, <2>1, <2>2
<1>4. ASSUME NEW i \in 1 .. n - 1
      PROVE  Follows(s[i], s[i + 1], syscall_writes'[SyscallsAmong(s, i)])
  <2>1. Follows(s[i], s[i + 1], syscall_writes[SyscallsAmong(s, i)])
    BY DEF ExecutionInv
  <2> QED BY ONLY <1>2, <1>3, <2>1, n \in Nat \ {0}, i \in 1 .. n - 1,
                  k = SyscallsAmong(s, n - 1), EarlierEntries
<1> QED BY <1>1, <1>3, <1>4 DEF ExecutionInv

LEMMA ExecutionInvKept == ExecutionInv /\ [Next]_vars => ExecutionInv'
<1> SUFFICES ASSUME ExecutionInv, [Next]_vars PROVE ExecutionInv'
  OBVIOUS
<1>1. ASSUME Execute PROVE ExecutionInv'
  <2>1. ExecutionTypeOK
    BY DEF ExecutionInv
  <2>2. ExecutionTypeOK'
    BY <1>1, <2>1, ExecutionTypes
  <2>3. ASSUME NEW s, PlainStep(s) PROVE ExecutionInv'
    <3>1. /\ Grown(s) /\ Follows(Current, s, << >>)
          /\ ~ IsSyscall(Current.pc) /\ syscall_writes' = syscall_writes
          /\ \A v : Follows(Current, s, v)
      BY <2>3 DEF PlainStep
    <3> QED BY <2>2, <3>1, ExecutionInvGrows
  <2>4. ASSUME NEW s, NEW w, SyscallStep(s, w) PROVE ExecutionInv'
    <3>1. /\ Grown(s) /\ Follows(Current, s, w) /\ w \in Writes
          /\ IsSyscall(Current.pc) /\ syscall_writes' = Append(syscall_writes, w)
      BY <2>4 DEF SyscallStep
    <3> QED BY <2>2, <3>1, ExecutionInvGrows
  <2>5. ASSUME Stop PROVE ExecutionInv'
    BY <2>2, <2>5, ExecutionInvStops
  <2> QED BY <1>1, <2>1, <2>3, <2>4, <2>5, ExecuteSteps
<1>2. ASSUME UNCHANGED << snapshots, syscall_writes, executed >> PROVE ExecutionInv'
  BY <1>2 DEF ExecutionInv, ExecutionTypeOK
<1>3. CASE RecordFirst
  BY <1>2, <1>3 DEF RecordFirst, RecordIn
<1>4. CASE RecordCall
  BY <1>2, <1>4 DEF RecordCall, RecordIn
<1>5. CASE RecordReturn
  BY <1>2, <1>5 DEF RecordReturn, RecordIn
<1>6. CASE RecordNoTransition
  BY <1>2, <1>6 DEF RecordNoTransition, RecordIn
<1>7. CASE Finish
  BY <1>2, <1>7 DEF Finish
<1>8. CASE UNCHANGED vars
  BY <1>2, <1>8 DEF vars
<1> QED BY <1>1, <1>3, <1>4, <1>5, <1>6, <1>7, <1>8 DEF Next

----------------------------------------------------------------------------
(***************************************************************************)
(* The memory.  Where no call can fall into the next instruction, what the *)
(* recorder takes for a syscall is one, and the next journal entry is its. *)
(***************************************************************************)
CallsLeave == \A pc \in PC : IsCall(pc) => pc + 1 \notin Text[pc].to

MemoryInv ==
  recorded < Len(snapshots) => /\ memory = Taken.memory
                               /\ consumed = SyscallsAmong(snapshots, recorded)

LEMMA MemoryInvStarts == Init => MemoryInv
<1> SUFFICES ASSUME Init PROVE MemoryInv
  OBVIOUS
<1>1. recorded = 0 /\ consumed = 0 /\ memory = [c \in Cells |-> Zero]
  BY DEF Init, RecorderInit
<1>2. snapshots[1].memory = [c \in Cells |-> Zero]
  BY ExecutionInvStarts DEF ExecutionInv
<1>3. 0 \in Nat
  OBVIOUS
<1>4. SyscallsAmong(snapshots, 0) = 0
  BY <1>3, SyscallsCounted, Zenon
<1> QED BY <1>1, <1>2, <1>4 DEF MemoryInv, Taken

\* How the memory changes from one snapshot to the next.
LEMMA MemoryFollows ==
  ASSUME CallsLeave, NEW s, NEW n, NEW w,
         s.pc \in PC, s.operand \in Operands(s.pc), s.memory \in Memory, Follows(s, n, w)
  PROVE  /\ IsSyscall(s.pc) <=> Text[s.pc].op = "call_imm" /\ n.pc = s.pc + 1
         /\ n.memory = Overwrite(s.memory, IF IsSyscall(s.pc) THEN w ELSE s.operand)
<1>1. ASSUME IsCall(s.pc), n.pc \in Text[s.pc].to
      PROVE  n.pc # s.pc + 1 /\ ~ IsSyscall(s.pc)
  BY <1>1 DEF CallsLeave, IsSyscall
<1>2. ASSUME Text[s.pc].op # "store" PROVE Overwrite(s.memory, s.operand) = s.memory
  <2>1. s.operand = << >>
    BY <1>2 DEF Operands
  <2>2. DOMAIN s.operand = {}
    BY <2>1
  <2> QED BY <2>2 DEF Overwrite, Memory
<1>3. Text[s.pc].op # "call_imm" => ~ IsSyscall(s.pc)
  BY DEF IsSyscall
<1>4. CASE /\ IsCall(s.pc) /\ n.pc \in Text[s.pc].to /\ n.memory = s.memory
  BY <1>1, <1>2, <1>4 DEF IsCall
<1>5. CASE IsSyscall(s.pc) /\ n.pc = s.pc + 1 /\ n.memory = Overwrite(s.memory, w)
  BY <1>5 DEF IsSyscall
<1>6. CASE Text[s.pc].op = "exit" /\ n.memory = s.memory
  BY <1>2, <1>3, <1>6
<1>7. CASE Text[s.pc].op = "store" /\ n.memory = Overwrite(s.memory, s.operand)
  BY <1>3, <1>7
<1>8. CASE Text[s.pc].op = "other" /\ n.memory = s.memory
  BY <1>2, <1>3, <1>8
<1> QED BY <1>4, <1>5, <1>6, <1>7, <1>8 DEF Follows

LEMMA MemoryInvRecords ==
  ASSUME CallsLeave, TypeOK, ExecutionInv, MemoryInv, CanRecord,
         ApplyInstruction, recorded' = recorded + 1,
         snapshots' = snapshots, syscall_writes' = syscall_writes
  PROVE  MemoryInv'
<1> SUFFICES ASSUME recorded + 1 < Len(snapshots)
             PROVE  /\ memory' = snapshots[recorded + 2].memory
                    /\ consumed' = SyscallsAmong(snapshots, recorded + 1)
  <2>1. recorded + 1 + 1 = recorded + 2
    BY DEF TypeOK, ExecutionTypeOK
  <2> QED BY <2>1 DEF MemoryInv, Taken
<1> PICK r \in Nat : r = recorded
  BY TakenIsSnapshot
<1> PICK len \in Nat : len = Len(snapshots)
  BY DEF TypeOK, ExecutionTypeOK
<1> PICK all : all = snapshots
  OBVIOUS
<1> PICK s : s = all[r + 1]
  OBVIOUS
<1> PICK n : n = all[r + 2]
  OBVIOUS
<1> PICK w : w = syscall_writes[SyscallsAmong(all, r + 1)]
  OBVIOUS
<1>1. s = Taken /\ s \in SnapshotRecord /\ s.pc \in PC /\ s.memory \in Memory
  BY TakenIsSnapshot DEF Taken, SnapshotRecord
<1>2. memory = s.memory /\ consumed = SyscallsAmong(all, r)
  BY <1>1 DEF MemoryInv, CanRecord
<1>3. r + 1 \in 1 .. len - 1 /\ r + 1 \in 1 .. len /\ r + 1 + 1 = r + 2
  OBVIOUS
<1>4. Follows(s, n, w) /\ s.operand \in Operands(s.pc)
  BY <1>3 DEF ExecutionInv
<1>5. /\ IsSyscall(s.pc) <=> Text[s.pc].op = "call_imm" /\ n.pc = s.pc + 1
      /\ n.memory = Overwrite(s.memory, IF IsSyscall(s.pc) THEN w ELSE s.operand)
  BY ONLY CallsLeave, <1>1, <1>4, MemoryFollows
<1>6. TakenForSyscall <=> IsSyscall(s.pc)
  <2>1. ~ (recorded + 2 > Len(snapshots))
    BY <1>3
  <2>2. snapshots[recorded + 2] = n
    OBVIOUS
  <2> QED BY <1>1, <1>5, <2>1, <2>2 DEF TakenForSyscall
<1>7. SyscallsAmong(all, r + 1) = IF IsSyscall(s.pc) THEN consumed + 1 ELSE consumed
  BY <1>2, OneMoreCounted
<1>8. IsSyscall(s.pc) => consumed < Len(syscall_writes)
  <2> PICK m \in Nat : m = len - 1
    BY <1>3
  <2>1. r + 1 \in 0 .. m /\ r + 1 \in Nat
    BY <1>3
  <2>2. SyscallsAmong(all, r + 1) <= SyscallsAmong(all, m)
    BY ONLY m \in Nat, <2>1, CountGrows
  <2>3. SyscallsAmong(all, m) <= Len(syscall_writes)
    BY DEF ExecutionInv
  <2>4. /\ SyscallsAmong(all, r + 1) \in Nat /\ SyscallsAmong(all, m) \in Nat
        /\ consumed \in Nat /\ Len(syscall_writes) \in Nat
    <3>1. SyscallsAmong(all, r + 1) \in Nat /\ SyscallsAmong(all, m) \in Nat
      BY ONLY m \in Nat, <2>1, SyscallsCounted
    <3> QED BY <3>1 DEF TypeOK, ExecutionTypeOK
  <2> QED BY <1>7, <2>2, <2>3, <2>4
<1>9. CASE IsSyscall(s.pc)
  <2>1. consumed' = consumed + 1 /\ memory' = Overwrite(memory, syscall_writes[consumed + 1])
    BY <1>6, <1>8, <1>9 DEF ApplyInstruction
  <2>2. w = syscall_writes[consumed + 1]
    BY <1>7, <1>9
  <2> QED BY <1>2, <1>5, <1>7, <1>9, <2>1, <2>2
<1>10. CASE ~ IsSyscall(s.pc)
  <2>1. consumed' = consumed /\ memory' = Overwrite(memory, s.operand)
    BY <1>1, <1>6, <1>10 DEF ApplyInstruction
  <2> QED BY <1>2, <1>5, <1>7, <1>10, <2>1
<1> QED BY <1>9, <1>10

LEMMA MemoryInvKept ==
  ASSUME CallsLeave
  PROVE  RecorderInv /\ ExecutionInv /\ MemoryInv /\ [Next]_vars => MemoryInv'
<1> SUFFICES ASSUME RecorderInv, ExecutionInv, MemoryInv, [Next]_vars PROVE MemoryInv'
  OBVIOUS
<1>1. TypeOK
  BY DEF RecorderInv
<1>2. ASSUME Execute, UNCHANGED recorder_vars PROVE MemoryInv'
  <2>1. ExecutionTypeOK /\ ExecutionTypeOK' /\ ~ executed
    BY <1>2, ExecutionTypes DEF ExecutionInv
  <2>2. recorded = 0 /\ recorded' = 0 /\ memory' = memory /\ consumed' = consumed
    BY <1>1, <1>2, <2>1 DEF recorder_vars, RecorderInv, TypeOK
  <2>3. snapshots'[1] = snapshots[1]
    <3>1. ASSUME NEW s, Grown(s) PROVE snapshots'[1] = snapshots[1]
      <4>1. /\ snapshots \in Seq(SnapshotRecord) /\ Len(snapshots) \in Nat \ {0}
            /\ snapshots' = Append(snapshots, s) /\ s \in SnapshotRecord
        BY <2>1, <3>1 DEF Grown, ExecutionTypeOK
      <4> QED BY <4>1, AppendProperties
    <3>2. CASE Stop
      BY <3>2 DEF Stop
    <3> QED BY <1>2, <2>1, <3>1, <3>2, ExecuteSteps DEF PlainStep, SyscallStep
  <2>4. memory = snapshots[1].memory /\ consumed = SyscallsAmong(snapshots, 0)
    <3>1. recorded < Len(snapshots) /\ recorded + 1 = 1
      BY <2>1, <2>2 DEF ExecutionTypeOK
    <3> QED BY <2>2, <3>1 DEF MemoryInv, Taken
  <2>5. 0 \in Nat
    OBVIOUS
  <2>6. SyscallsAmong(snapshots, 0) = 0 /\ SyscallsAmong(snapshots', 0) = 0
    BY <2>5, SyscallsCounted, Zenon
  <2> QED BY <2>2, <2>3, <2>4, <2>6 DEF MemoryInv, Taken
<1>3. ASSUME CanRecord, ApplyInstruction, recorded' = recorded + 1,
             snapshots' = snapshots, syscall_writes' = syscall_writes
      PROVE  MemoryInv'
  BY <1>1, <1>3, MemoryInvRecords
<1>4. ASSUME UNCHANGED << snapshots, recorded, memory, consumed >> PROVE MemoryInv'
  BY <1>4 DEF MemoryInv, Taken
<1>5. CASE RecordFirst
  BY <1>3, <1>5 DEF RecordFirst, RecordIn
<1>6. CASE RecordCall
  BY <1>3, <1>6 DEF RecordCall, RecordIn
<1>7. CASE RecordReturn
  BY <1>3, <1>7 DEF RecordReturn, RecordIn
<1>8. CASE RecordNoTransition
  BY <1>3, <1>8 DEF RecordNoTransition, RecordIn
<1>9. CASE Finish
  BY <1>4, <1>9 DEF Finish
<1>10. CASE UNCHANGED vars
  BY <1>4, <1>10 DEF vars, recorder_vars
<1> QED BY <1>2, <1>5, <1>6, <1>7, <1>8, <1>9, <1>10 DEF Next

(***************************************************************************)
(* Before each instruction is recorded the shadow memory is the guest's,   *)
(* in a program none of whose calls has the next instruction as a target:  *)
(* only there does "execution went on at the next instruction" tell a      *)
(* syscall from a call.                                                    *)
(***************************************************************************)
THEOREM MemoryIsReplayed ==
  ASSUME CallsLeave
  PROVE  Spec => []MemoryReplayed
<1>1. RecorderInv /\ ExecutionInv /\ MemoryInv => MemoryReplayed
  BY DEF MemoryInv, MemoryReplayed
<1>2. Init => RecorderInv /\ ExecutionInv /\ MemoryInv
  BY RecorderInvStarts, ExecutionInvStarts, MemoryInvStarts
<1>3. RecorderInv /\ ExecutionInv /\ MemoryInv /\ [Next]_vars
        => (RecorderInv /\ ExecutionInv /\ MemoryInv)'
  BY RecorderInvKept, ExecutionInvKept, MemoryInvKept
<1> QED BY <1>1, <1>2, <1>3, PTL DEF Spec

----------------------------------------------------------------------------
(***************************************************************************)
(* The stack.  DWARF describes an execution throughout when each pc it has *)
(* been at is in a function, an instruction that neither calls nor returns *)
(* leads to the same function, and a return leads to its call's.           *)
(***************************************************************************)
DescribedThroughout ==
  /\ \A i \in 1 .. Len(snapshots) : FunctionAt[snapshots[i].pc] # Nil
  /\ \A i \in 1 .. Len(snapshots) - 1 :
       LET s == snapshots[i]
           n == snapshots[i + 1]
       IN  /\ n.callers = s.callers => FunctionAt[n.pc] = FunctionAt[s.pc]
           /\ Text[s.pc].op = "exit" =>
                FunctionAt[n.pc] = FunctionAt[s.callers[Len(s.callers)]]

FrameAt(pc) ==
  LET f == FunctionAt[pc] IN [function |-> f, inlined |-> InlinedChain(f, pc)]

FramesAt(sites) == [i \in DOMAIN sites |-> FrameAt(sites[i])]

StackInv ==
  /\ StackMirrorsExecution
  /\ recorded = 0 /\ ~ finished => stack = << >>

LEMMA FramesAtAppended ==
  ASSUME NEW sites \in Seq(PC), NEW pc \in PC
  PROVE  /\ FramesAt(Append(sites, pc)) = Append(FramesAt(sites), FrameAt(pc))
         /\ Len(FramesAt(sites)) = Len(sites)
         /\ \E S : FramesAt(sites) \in Seq(S)
<1> PICK n \in Nat : n = Len(sites)
  OBVIOUS
<1> PICK more : more = Append(sites, pc)
  OBVIOUS
<1> PICK frames : frames = FramesAt(sites)
  OBVIOUS
<1>1. /\ Len(more) = n + 1 /\ DOMAIN more = 1 .. n + 1
      /\ \A i \in 1 .. n : more[i] = sites[i]
      /\ more[n + 1] = pc
  BY AppendProperties
<1>2. DOMAIN sites = 1 .. n
  OBVIOUS
<1>3. frames = [i \in 1 .. n |-> FrameAt(sites[i])]
  BY <1>2 DEF FramesAt
<1> PICK S : S = {FrameAt(sites[i]) : i \in 1 .. n} \cup {FrameAt(pc)}
  OBVIOUS
<1>4. frames \in Seq(S) /\ Len(frames) = n /\ FrameAt(pc) \in S
  <2> HIDE DEF FrameAt
  <2>1. frames \in [1 .. n -> S]
    BY <1>3
  <2> QED BY <2>1, SeqDef, LenProperties
<1> PICK a : a = Append(frames, FrameAt(pc))
  OBVIOUS
<1>5. /\ a \in Seq(S) /\ Len(a) = n + 1
      /\ \A i \in 1 .. n : a[i] = frames[i]
      /\ a[n + 1] = FrameAt(pc)
  BY <1>4, AppendProperties
<1> PICK b : b = FramesAt(more)
  OBVIOUS
<1>6. b = [i \in 1 .. n + 1 |-> FrameAt(more[i])]
  BY <1>1 DEF FramesAt
<1>7. \A i \in 1 .. n + 1 : i \in 1 .. n \/ i = n + 1
  OBVIOUS
<1>8. \A i \in 1 .. n + 1 : a[i] = FrameAt(more[i])
  <2> HIDE DEF FrameAt
  <2> QED BY <1>1, <1>3, <1>5, <1>7
<1>9. a = [i \in 1 .. n + 1 |-> a[i]]
  BY <1>5, LenProperties
<1>10. a = b
  BY <1>6, <1>8, <1>9, Zenon
<1> QED BY <1>4, <1>10

\* Without its last member, a sequence that was appended to is what it was.
LEMMA FrontOfAppended ==
  ASSUME NEW S, NEW s \in Seq(S), NEW x \in S
  PROVE  SubSeq(Append(s, x), 1, Len(Append(s, x)) - 1) = s
<1> PICK n \in Nat : n = Len(s)
  OBVIOUS
<1> PICK more : more = Append(s, x)
  OBVIOUS
<1> PICK front : front = SubSeq(more, 1, n)
  OBVIOUS
<1>1. more \in Seq(S) /\ Len(more) = n + 1 /\ \A i \in 1 .. n : more[i] = s[i]
  BY AppendProperties
<1>2. 1 \in Int /\ n \in Int /\ \A i \in 1 .. n : more[i] \in S
  BY <1>1, ElementOfSeq
<1>3. front \in Seq(S) /\ Len(front) = (IF 1 <= n THEN n - 1 + 1 ELSE 0)
      /\ \A i \in 1 .. n - 1 + 1 : front[i] = more[1 + i - 1]
  BY <1>2, SubSeqProperties
<1>4. Len(front) = Len(s) /\ \A i \in 1 .. Len(front) : front[i] = s[i]
  BY <1>1, <1>3
<1>5. front = s
  BY ONLY s \in Seq(S), <1>3, <1>4, SeqEqual
<1>6. Len(more) - 1 = n
  BY <1>1
<1> QED BY <1>5, <1>6

\* A sequence is its front and its last member.
LEMMA FrontAndLast ==
  ASSUME NEW S, NEW s \in Seq(S), NEW n \in Nat \ {0}, n = Len(s)
  PROVE  s[n] \in S /\ s = Append(SubSeq(s, 1, n - 1), s[n])
<1> PICK m \in Nat : m = n - 1
  OBVIOUS
<1> PICK front : front = SubSeq(s, 1, m)
  OBVIOUS
<1>1. n \in 1 .. Len(s) /\ \A i \in 1 .. m : i \in 1 .. Len(s)
  OBVIOUS
<1>2. s[n] \in S /\ \A i \in 1 .. m : s[i] \in S
  BY <1>1, ElementOfSeq
<1>3. 1 \in Int /\ m \in Int
  OBVIOUS
<1>4. front \in Seq(S) /\ Len(front) = (IF 1 <= m THEN m - 1 + 1 ELSE 0)
      /\ \A i \in 1 .. m - 1 + 1 : front[i] = s[1 + i - 1]
  BY <1>2, <1>3, SubSeqProperties
<1>5. Len(front) = m /\ \A i \in 1 .. m : front[i] = s[i]
  BY <1>4
<1> PICK more : more = Append(front, s[n])
  OBVIOUS
<1>6. more \in Seq(S) /\ Len(more) = m + 1 /\ more[m + 1] = s[n]
      /\ \A i \in 1 .. m : more[i] = front[i]
  BY <1>2, <1>4, <1>5, AppendProperties
<1>7. Len(more) = Len(s) /\ \A i \in 1 .. Len(more) : more[i] = s[i]
  <2>1. \A i \in 1 .. m + 1 : i \in 1 .. m \/ i = n
    OBVIOUS
  <2>2. m + 1 = n
    OBVIOUS
  <2> QED BY <1>5, <1>6, <2>1, <2>2
<1>8. more = s
  BY ONLY s \in Seq(S), <1>6, <1>7, SeqEqual
<1> QED BY <1>2, <1>8

\* The frame on top gets the inlined calls around the pc taken.
LEMMA RecordInMirrors ==
  ASSUME TypeOK, CanRecord, NEW t, NEW last,
         NEW below \in Seq(Frames), below = FramesAt(Taken.callers),
         NEW frame \in Frames, frame.function = FunctionAt[Taken.pc],
         RecordIn(Append(below, frame), t, last)
  PROVE  StackInv'
<1> PICK pc : pc = Taken.pc
  OBVIOUS
<1> PICK frames : frames = Append(below, frame)
  OBVIOUS
<1> PICK n \in Nat : n = Len(below)
  OBVIOUS
<1> PICK chain : chain = InlinedChain(frame.function, pc)
  OBVIOUS
<1>1. /\ frames \in Seq(Frames) /\ Len(frames) = n + 1 /\ frames[n + 1] = frame
      /\ frames # << >> /\ \A i \in 1 .. n : frames[i] = below[i]
  <2>1. /\ frames \in Seq(Frames) /\ Len(frames) = n + 1 /\ frames[n + 1] = frame
        /\ \A i \in 1 .. n : frames[i] = below[i]
    BY AppendProperties
  <2> QED BY <2>1, EmptySeq
<1>2. SubSeq(frames, 1, n) = below
  <2>1. SubSeq(frames, 1, Len(frames) - 1) = below
    BY FrontOfAppended
  <2>2. Len(frames) - 1 = n
    BY <1>1
  <2> QED BY <2>1, <2>2
<1>3. [frames EXCEPT ![n + 1].inlined = chain] = Append(below, [frame EXCEPT !.inlined = chain])
  <2> PICK top : top = n + 1
    OBVIOUS
  <2>1. top = Len(frames) /\ top - 1 = n
    BY <1>1
  <2>2. \A c : [frames EXCEPT ![top].inlined = c]
                 = Append(SubSeq(frames, 1, top - 1), [frames[top] EXCEPT !.inlined = c])
    BY ONLY <1>1, <2>1, TopOfStack
  <2>3. frames[top] = frame /\ SubSeq(frames, 1, top - 1) = below /\ n + 1 = top
    BY <1>1, <1>2, <2>1
  <2> QED BY <2>2, <2>3, Zenon
<1>4. [frame EXCEPT !.inlined = chain] = FrameAt(pc)
  BY DEF FrameAt, Frames
<1>5. stack' = Append(below, FrameAt(pc))
  <2>1. stack' = IF Len(frames) = 0 THEN frames
                 ELSE [frames EXCEPT ![Len(frames)].inlined =
                         InlinedChain(frames[Len(frames)].function, pc)]
    BY Zenon DEF RecordIn
  <2>2. Len(frames) # 0 /\ InlinedChain(frames[Len(frames)].function, pc) = chain
    BY <1>1
  <2> QED BY <1>1, <1>3, <1>4, <2>1, <2>2
<1>6. Taken.callers \in Seq(PC) /\ pc \in PC /\ recorded \in Nat
  BY TakenIsSnapshot DEF SnapshotRecord
<1>7. stack' = FramesAt(Append(Taken.callers, pc))
  BY <1>5, <1>6, FramesAtAppended
<1>8. recorded' = recorded + 1 /\ snapshots' = snapshots
  BY DEF RecordIn
<1>9. CallSites' = Append(Taken.callers, pc)
  BY <1>6, <1>8 DEF CallSites, Shown, Taken
<1>10. stack' = FramesAt(CallSites')
  BY <1>7, <1>9
<1>11. recorded' # 0
  BY <1>6, <1>8
<1> QED BY <1>10, <1>11 DEF StackInv, StackMirrorsExecution, FramesAt, FrameAt

LEMMA StackInvRecords ==
  ASSUME CallsLeave, TypeOK, ExecutionInv, StackInv, DescribedThroughout,
         RecordFirst \/ RecordCall \/ RecordReturn \/ RecordNoTransition
  PROVE  StackInv'
<1> PICK r \in Nat : r = recorded
  BY DEF TypeOK, ExecutionTypeOK
<1> PICK now : now = Taken
  OBVIOUS
<1> PICK prev : prev = snapshots[recorded]
  OBVIOUS
<1> PICK f : f = FunctionAt[now.pc]
  OBVIOUS
<1>1. CanRecord /\ ~ finished
  BY DEF RecordFirst, RecordCall, RecordReturn, RecordNoTransition, CanRecord
<1>2. /\ stack \in Seq(Frames) /\ now.callers \in Seq(PC) /\ now.pc \in PC
      /\ r + 1 \in 1 .. Len(snapshots) /\ now = snapshots[r + 1]
  BY <1>1, TakenIsSnapshot DEF TypeOK, SnapshotRecord, Taken
<1>3. f # Nil /\ f \in Functions
  BY <1>2 DEF DescribedThroughout, Functions
<1> PICK pushed : pushed = [function |-> f, inlined |-> << >>]
  OBVIOUS
<1>4. pushed \in Frames /\ pushed.function = f /\ Pushed(f) = Append(stack, pushed)
  BY <1>3 DEF Frames, Pushed
<1>5. CASE recorded = 0
  <2>1. stack = << >> /\ now.callers = << >>
    BY <1>1, <1>2, <1>5 DEF StackInv, ExecutionInv
  <2>2. FramesAt(now.callers) = << >>
    BY <2>1 DEF FramesAt
  <2>3. RecordIn(Append(stack, pushed), Called(trace, f, Nil), last_position)
    BY <1>3, <1>4, <1>5 DEF RecordFirst, RecordCall, RecordReturn, RecordNoTransition
  <2>4. stack = FramesAt(Taken.callers) /\ pushed.function = FunctionAt[Taken.pc]
    BY <1>4, <2>1, <2>2
  <2> QED BY ONLY TypeOK, <1>1, <1>2, <1>4, <2>3, <2>4, RecordInMirrors
<1>6. CASE recorded > 0
  <2>1. r \in 1 .. Len(snapshots) - 1 /\ r \in 1 .. Len(snapshots) /\ prev = snapshots[r]
    BY <1>2, <1>6
  <2>2. prev.pc \in PC /\ prev.callers \in Seq(PC)
    <3>1. prev \in SnapshotRecord
      BY <2>1, ElementOfSeq DEF TypeOK, ExecutionTypeOK
    <3> QED BY <3>1 DEF SnapshotRecord
  <2>3. Follows(prev, now, syscall_writes[SyscallsAmong(snapshots, r)])
    BY <1>2, <2>1 DEF ExecutionInv
  <2>4. /\ now.callers = prev.callers => f = FunctionAt[prev.pc]
        /\ Text[prev.pc].op = "exit" => f = FunctionAt[prev.callers[Len(prev.callers)]]
    BY <1>2, <2>1 DEF DescribedThroughout
  <2>5. stack = FramesAt(Append(prev.callers, prev.pc))
    BY <1>1, <1>6 DEF StackInv, StackMirrorsExecution, Recording, CallSites, Shown,
                      FramesAt, FrameAt
  <2> PICK below : below = FramesAt(prev.callers)
    OBVIOUS
  <2> PICK frame : frame = FrameAt(prev.pc)
    OBVIOUS
  <2>6. stack = Append(below, frame) /\ stack # << >> /\ frame.function = FunctionAt[prev.pc]
    <3>1. stack = Append(below, frame)
      BY <2>2, <2>5, FramesAtAppended
    <3>2. stack # << >>
      <4>1. Append(prev.callers, prev.pc) \in Seq(PC)
            /\ Len(Append(prev.callers, prev.pc)) = Len(prev.callers) + 1
        BY <2>2, AppendProperties
      <4>2. Len(prev.callers) + 1 \in DOMAIN Append(prev.callers, prev.pc)
        <5> PICK more \in Seq(PC) : more = Append(prev.callers, prev.pc)
          BY <4>1
        <5> PICK n \in Nat : n = Len(prev.callers)
          BY <2>2
        <5>1. DOMAIN more = 1 .. n + 1 /\ n + 1 \in 1 .. n + 1
          BY <4>1
        <5> QED BY <5>1
      <4> QED BY <2>5, <4>2 DEF FramesAt
    <3> QED BY <3>1, <3>2 DEF FrameAt
  <2>7. below \in Seq(Frames) /\ frame \in Frames
    <3>1. \E S : below \in Seq(S)
      BY <2>2, FramesAtAppended
    <3> QED BY <1>2, <2>6, <3>1
  <2>8. ASSUME NEW g \in Frames, g.function = f, now.callers = prev.callers,
               RecordIn(Append(below, g), trace, last_position)
        PROVE  StackInv'
    BY ONLY TypeOK, <1>1, <2>7, <2>8, below = FramesAt(prev.callers), now = Taken,
            f = FunctionAt[now.pc], RecordInMirrors
  <2>9. CASE IsCall(prev.pc) /\ now.pc # prev.pc + 1 /\ now.callers = Append(prev.callers, prev.pc)
    <3>1. Transferred
      BY <2>9 DEF Transferred, PrevOp, IsCall
    <3>2. PrevOp # "exit"
      BY <2>9 DEF PrevOp, IsCall
    <3>3. RecordIn(Append(stack, pushed), Called(trace, f, Nil), Nil)
      BY <1>3, <1>4, <1>6, <3>1, <3>2 DEF RecordFirst, RecordCall, RecordReturn, RecordNoTransition
    <3>4. stack = FramesAt(Taken.callers) /\ pushed.function = FunctionAt[Taken.pc]
      BY <1>4, <2>5, <2>9
    <3> QED BY ONLY TypeOK, <1>1, <1>2, <1>4, <3>3, <3>4, RecordInMirrors
  <2>10. CASE /\ ~ (IsCall(prev.pc) /\ now.pc # prev.pc + 1) /\ Text[prev.pc].op # "exit"
              /\ now.callers = prev.callers
    <3>1. ~ Transferred /\ PrevOp # "exit"
      BY <2>10 DEF Transferred, PrevOp, IsCall
    <3>2. RecordIn(stack, trace, last_position)
      BY <1>6, <3>1 DEF RecordFirst, RecordCall, RecordReturn, RecordNoTransition
    <3>3. frame.function = f
      BY <2>4, <2>6, <2>10
    <3> QED BY <2>6, <2>7, <2>8, <2>10, <3>2, <3>3
  <2>11. CASE /\ Text[prev.pc].op = "exit" /\ prev.callers # << >>
              /\ now.callers = SubSeq(prev.callers, 1, Len(prev.callers) - 1)
    <3>1. PrevOp = "exit" /\ ~ Transferred
      BY <2>11 DEF PrevOp, Transferred
    <3>2. RecordIn(SubSeq(stack, 1, Len(stack) - 1), Unwound(trace, stack[Len(stack)]), Nil)
      BY <1>6, <2>6, <3>1 DEF RecordFirst, RecordCall, RecordReturn, RecordNoTransition
    <3> PICK n \in Nat \ {0} : n = Len(prev.callers)
      BY <2>2, <2>11, EmptySeq
    <3> PICK caller : caller = prev.callers[n]
      OBVIOUS
    <3>3. prev.callers = Append(now.callers, caller) /\ caller \in PC
      BY <2>2, <2>11, FrontAndLast
    <3>4. SubSeq(stack, 1, Len(stack) - 1) = below
      BY <2>6, <2>7, FrontOfAppended
    <3>5. below = Append(FramesAt(now.callers), FrameAt(caller))
      BY <1>2, <3>3, FramesAtAppended
    <3>6. FramesAt(now.callers) \in Seq(Frames) /\ FrameAt(caller) \in Frames
      <4>1. \E S : FramesAt(now.callers) \in Seq(S)
        BY <1>2, <3>3, FramesAtAppended
      <4> QED BY <2>7, <3>5, <4>1
    <3>7. FrameAt(caller).function = f
      BY <2>4, <2>11 DEF FrameAt
    <3> PICK outer : outer = FramesAt(now.callers)
      OBVIOUS
    <3> PICK home : home = FrameAt(caller)
      OBVIOUS
    <3>8. outer \in Seq(Frames) /\ home \in Frames
          /\ outer = FramesAt(Taken.callers) /\ home.function = FunctionAt[Taken.pc]
      BY <3>6, <3>7
    <3>9. RecordIn(Append(outer, home), Unwound(trace, stack[Len(stack)]), Nil)
      BY <3>2, <3>4, <3>5
    <3> QED BY ONLY TypeOK, <1>1, <3>8, <3>9, RecordInMirrors
  <2>12. \/ /\ IsCall(prev.pc) /\ now.pc # prev.pc + 1
            /\ now.callers = Append(prev.callers, prev.pc)
         \/ /\ ~ (IsCall(prev.pc) /\ now.pc # prev.pc + 1) /\ Text[prev.pc].op # "exit"
            /\ now.callers = prev.callers
         \/ /\ Text[prev.pc].op = "exit" /\ prev.callers # << >>
            /\ now.callers = SubSeq(prev.callers, 1, Len(prev.callers) - 1)
    BY <2>2, <2>3 DEF Follows, CallsLeave, IsCall, IsSyscall
  <2> QED BY <2>9, <2>10, <2>11, <2>12
<1> QED BY <1>5, <1>6

LEMMA StackInvKept ==
  ASSUME CallsLeave
  PROVE  RecorderInv /\ ExecutionInv /\ StackInv /\ DescribedThroughout /\ [Next]_vars
           => StackInv'
<1> SUFFICES ASSUME RecorderInv, ExecutionInv, StackInv, DescribedThroughout, [Next]_vars
             PROVE  StackInv'
  OBVIOUS
<1>1. TypeOK
  BY DEF RecorderInv
<1>2. CASE Execute /\ UNCHANGED recorder_vars
  <2>1. ~ executed
    BY <1>1, <1>2, ExecutionTypes DEF TypeOK
  <2>2. recorded' = recorded /\ ~ (recorded > 0) /\ stack' = stack /\ finished' = finished
    BY <1>2, <2>1 DEF recorder_vars, RecorderInv
  <2> QED BY <2>2 DEF StackInv, StackMirrorsExecution, Recording
<1>3. CASE RecordFirst \/ RecordCall \/ RecordReturn \/ RecordNoTransition
  BY <1>1, <1>3, StackInvRecords
<1>4. CASE Finish
  BY <1>4 DEF Finish, StackInv, StackMirrorsExecution, Recording
<1>5. CASE UNCHANGED vars
  BY <1>5 DEF vars, recorder_vars, StackInv, StackMirrorsExecution, Recording, CallSites, Shown
<1> QED BY <1>2, <1>3, <1>4, <1>5 DEF Next

(***************************************************************************)
(* In an execution DWARF describes throughout, of a program none of whose  *)
(* calls has the next instruction as a target, the recorder's frames are   *)
(* the calls the interpreter is in, and each has the inlined calls around  *)
(* the pc it stands at.                                                    *)
(***************************************************************************)
THEOREM FramesAreTheExecutions ==
  ASSUME CallsLeave
  PROVE  Spec /\ []DescribedThroughout => []StackMirrorsExecution
<1>1. StackInv => StackMirrorsExecution
  BY DEF StackInv
<1>2. Init => RecorderInv /\ ExecutionInv /\ StackInv
  <2>1. Init => StackInv
    BY DEF Init, RecorderInit, StackInv, StackMirrorsExecution, Recording
  <2> QED BY <2>1, RecorderInvStarts, ExecutionInvStarts
<1>3. RecorderInv /\ ExecutionInv /\ StackInv /\ DescribedThroughout /\ [Next]_vars
        => (RecorderInv /\ ExecutionInv /\ StackInv)'
  BY RecorderInvKept, ExecutionInvKept, StackInvKept
<1> QED BY <1>1, <1>2, <1>3, PTL DEF Spec
=============================================================================
