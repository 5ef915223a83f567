---------------------------- MODULE CameraProofs ----------------------------
(***************************************************************************)
(* Theorems about Camera, for every set of cameras, every list of frames   *)
(* and of settings they may have, every target and number of pipes.        *)
(***************************************************************************)
EXTENDS Camera, LoopLemmas

USE CameraAssumption DEF CameraAssumption

\* The endpoints of the settings up to k: none, or m the largest packet size.
NoEndpoint(c, k) == \A j \in 1 .. k : c.settings[j] = 0
Largest(c, k, m) == (\E j \in 1 .. k : c.settings[j] = m) /\ \A j \in 1 .. k : c.settings[j] <= m

\* What the driver holds while it parses: no pipe, or the one in use.
NoPipe(n) == [open |-> FALSE, size |-> n, used |-> 0, given |-> TRUE]
OnePipe(n) == [open |-> TRUE, size |-> n, used |-> 1, given |-> TRUE]
Pipe == {NoPipe(n) : n \in Nat} \cup {OnePipe(n) : n \in Nat}

\* A descriptor's lists, as the provers need them.
LEMMA Lists ==
  ASSUME NEW c \in Descriptor
  PROVE  /\ c # NoCamera
         /\ c.frames \in Seq(Frame) /\ Len(c.frames) \in Nat
         /\ DOMAIN c.frames = 1 .. Len(c.frames)
         /\ \A i \in 1 .. Len(c.frames) : c.frames[i] \in Frame
         /\ c.settings \in Seq(Nat) /\ Len(c.settings) \in Nat
         /\ DOMAIN c.settings = 1 .. Len(c.settings)
         /\ \A i \in 1 .. Len(c.settings) : c.settings[i] \in Nat
<1>1. c.frames \in Seq(Frame) /\ c.settings \in Seq(Nat) /\ c.length # 0
  BY DEF Descriptor
<1>2. c # NoCamera
  BY <1>1 DEF NoCamera
<1>3. QED
  BY <1>1, <1>2

\* An endpoint: one that is passed over changes nothing; without a pipe the driver
\* takes one, with one it exchanges it for a larger one, and the host always has
\* one to give.
LEMMA EndpointStep ==
  ASSUME NEW n \in Nat, NEW size \in Nat
  PROVE  /\ Endpoint(NoPipe(n), size) = IF size = 0 THEN NoPipe(n) ELSE OnePipe(size)
         /\ Endpoint(OnePipe(n), size) = OnePipe(IF size <= n THEN n ELSE size)
<1>1. Endpoint(NoPipe(n), size) = IF size = 0 THEN NoPipe(n) ELSE OnePipe(size)
  BY DEF Endpoint, PassedOver, NoPipe, OnePipe
<1>2. Endpoint(OnePipe(n), size) = OnePipe(IF size <= n THEN n ELSE size)
  <2>1. CASE size <= n
    BY <2>1 DEF Endpoint, PassedOver, OnePipe
  <2>2. CASE ~ (size <= n)
    <3>1. OnePipe(n).used - 1 = 0 /\ 0 # Pipes /\ 0 + 1 = 1 /\ size # 0
      BY <2>2 DEF OnePipe
    <3> QED
      BY <2>2, <3>1 DEF Endpoint, PassedOver, OnePipe
  <2> QED
    BY <2>1, <2>2
<1>3. QED
  BY <1>1, <1>2

\* uvc_parse_streaming_endpoint() over all settings: there is one pipe if there is
\* an endpoint to take, and it is that of the largest packets.
LEMMA Exchanged ==
  ASSUME NEW c \in Descriptor, NEW n \in Nat
  PROVE  IF NoEndpoint(c, Len(c.settings)) THEN Exchange(NoPipe(n), c) = NoPipe(n)
         ELSE \E m \in Nat : /\ Exchange(NoPipe(n), c) = OnePipe(m)
                             /\ Largest(c, Len(c.settings), m)
<1> DEFINE F == [x \in Pipe \X Nat |-> Endpoint(x[1], x[2])]
           s == c.settings
<1>1. /\ s \in Seq(Nat) /\ Len(s) \in Nat /\ DOMAIN s = 1 .. Len(s)
      /\ \A i \in 1 .. Len(s) : s[i] \in Nat
  BY Lists
<1>2. NoPipe(n) \in Pipe
  BY DEF Pipe
<1>3. F \in [Pipe \X Nat -> Pipe]
  <2>1. ASSUME NEW p \in Pipe, NEW size \in Nat PROVE Endpoint(p, size) \in Pipe
    <3>1. PICK m \in Nat : p = NoPipe(m) \/ p = OnePipe(m)
      BY DEF Pipe
    <3>2. \E k \in Nat : Endpoint(p, size) = NoPipe(k) \/ Endpoint(p, size) = OnePipe(k)
      BY <3>1, EndpointStep
    <3> QED
      BY <3>2 DEF Pipe
  <2> QED
    BY <2>1
<1>4. PICK g \in [0 .. Len(s) -> Pipe] : Carries(F, NoPipe(n), s, g)
  <2> HIDE DEF F, s
  <2> QED
    BY <1>1, <1>2, <1>3, LoopExists
<1>5. \A i \in 1 .. Len(s) : F[<<g[i - 1], s[i]>>] = Endpoint(g[i - 1], s[i])
  <2> SUFFICES ASSUME NEW i \in 1 .. Len(s) PROVE F[<<g[i - 1], s[i]>>] = Endpoint(g[i - 1], s[i])
    OBVIOUS
  <2>1. i - 1 \in 0 .. Len(s)
    BY <1>1
  <2>2. g[i - 1] \in Pipe /\ s[i] \in Nat
    BY <1>1, <1>4, <2>1
  <2> HIDE DEF s
  <2> QED
    BY <2>2
<1> DEFINE h == CHOOSE h : h = [i \in 0 .. Len(s) |-> IF i = 0 THEN NoPipe(n) ELSE Endpoint(h[i - 1], s[i])]
<1>6. g = [i \in 0 .. Len(s) |-> IF i = 0 THEN NoPipe(n) ELSE Endpoint(g[i - 1], s[i])]
  <2> DEFINE e == [i \in 0 .. Len(s) |-> IF i = 0 THEN NoPipe(n) ELSE Endpoint(g[i - 1], s[i])]
  <2>1. ASSUME NEW i \in 0 .. Len(s) PROVE g[i] = e[i]
    <3>1. g[i] = IF i = 0 THEN NoPipe(n) ELSE F[<<g[i - 1], s[i]>>]
      <4> HIDE DEF F, s
      <4> QED
        BY <1>4 DEF Carries
    <3>2. i # 0 => i \in 1 .. Len(s)
      BY <1>1
    <3>3. e[i] = IF i = 0 THEN NoPipe(n) ELSE Endpoint(g[i - 1], s[i])
      OBVIOUS
    <3> HIDE DEF F, s, e
    <3> QED
      BY <1>5, <3>1, <3>2, <3>3
  <2>2. DOMAIN g = 0 .. Len(s) /\ DOMAIN e = 0 .. Len(s) /\ g = [i \in DOMAIN g |-> g[i]] /\ e = [i \in DOMAIN e |-> e[i]]
    BY <1>4
  <2> HIDE DEF s, e
  <2>3. g = e
    BY <2>1, <2>2
  <2> QED
    BY <2>3 DEF e
<1>7. h = [i \in 0 .. Len(s) |-> IF i = 0 THEN NoPipe(n) ELSE Endpoint(h[i - 1], s[i])]
  <2> HIDE DEF s
  <2> QED
    BY <1>6, Zenon
<1>8. Exchange(NoPipe(n), c) = h[Len(s)]
  BY DEF Exchange
<1>9. h[0] = NoPipe(n) /\ \A i \in 1 .. Len(s) : h[i] = Endpoint(h[i - 1], s[i])
  <2> HIDE DEF h, s
  <2>1. \A i \in 0 .. Len(s) : h[i] = IF i = 0 THEN NoPipe(n) ELSE Endpoint(h[i - 1], s[i])
    BY <1>7
  <2>2. 0 \in 0 .. Len(s) /\ \A i \in 1 .. Len(s) : i \in 0 .. Len(s) /\ i # 0
    BY <1>1
  <2> QED
    BY <2>1, <2>2
<1> DEFINE P(i) == IF NoEndpoint(c, i) THEN h[i] = NoPipe(n)
                   ELSE \E m \in Nat : h[i] = OnePipe(m) /\ Largest(c, i, m)
           I == {i \in 0 .. Len(s) : P(i)}
<1> HIDE DEF h
<1>10. \A i \in 0 .. Len(s) - 1 : P(i) => P(i + 1)
  <2> SUFFICES ASSUME NEW i \in 0 .. Len(s) - 1, P(i) PROVE P(i + 1)
    OBVIOUS
  <2>1. i + 1 \in 1 .. Len(s) /\ (i + 1) - 1 = i /\ i \in Nat
    BY <1>1
  <2>2. h[i + 1] = Endpoint(h[i], s[i + 1]) /\ s[i + 1] \in Nat
    <3> HIDE DEF s
    <3>1. h[i + 1] = Endpoint(h[(i + 1) - 1], s[i + 1])
      BY <1>9, <2>1
    <3> QED
      BY <1>1, <2>1, <3>1
  <2>3. /\ \A j : j \in 1 .. i + 1 <=> j \in 1 .. i \/ j = i + 1
        /\ \A j \in 1 .. i + 1 : s[j] \in Nat
    BY <1>1, <2>1
  <2>4. NoEndpoint(c, i + 1) <=> NoEndpoint(c, i) /\ s[i + 1] = 0
    BY <2>3 DEF NoEndpoint
  <2>5. CASE NoEndpoint(c, i)
    <3>1. h[i + 1] = IF s[i + 1] = 0 THEN NoPipe(n) ELSE OnePipe(s[i + 1])
      BY <2>2, <2>5, EndpointStep
    <3>2. s[i + 1] # 0 => Largest(c, i + 1, s[i + 1])
      BY <2>2, <2>3, <2>5 DEF NoEndpoint, Largest
    <3> QED
      BY <2>2, <2>4, <2>5, <3>1, <3>2
  <2>6. CASE ~NoEndpoint(c, i)
    <3>1. PICK m \in Nat : h[i] = OnePipe(m) /\ Largest(c, i, m)
      BY <2>6
    <3>2. h[i + 1] = OnePipe(IF s[i + 1] <= m THEN m ELSE s[i + 1])
      BY <2>2, <3>1, EndpointStep
    <3>3. Largest(c, i + 1, IF s[i + 1] <= m THEN m ELSE s[i + 1])
      BY <2>2, <2>3, <3>1 DEF Largest
    <3>4. (IF s[i + 1] <= m THEN m ELSE s[i + 1]) \in Nat
      BY <2>2
    <3> QED
      BY <2>4, <2>6, <3>2, <3>3, <3>4
  <2> QED
    BY <2>5, <2>6
<1>11. I = 0 .. Len(s)
  <2>1. 0 \in I /\ I \subseteq 0 .. Len(s)
    <3>1. NoEndpoint(c, 0)
      BY DEF NoEndpoint
    <3> QED
      BY <1>1, <1>9, <3>1
  <2>2. \A i \in 0 .. Len(s) - 1 : i \in I => i + 1 \in I
    <3> HIDE DEF P, s
    <3> QED
      BY <1>1, <1>10
  <2> HIDE DEF I, s
  <2> QED
    BY <1>1, <2>1, <2>2, IndexInduction
<1>12. P(Len(s))
  <2> HIDE DEF P, s
  <2> QED
    BY <1>1, <1>11
<1> QED
  BY <1>1, <1>8, <1>12

-----------------------------------------------------------------------------
\* The selection.
Stream == [format : Formats \cup {NoFormat}, formatIdx : Nat, idx : Nat, maxRate : 0 .. Target]

\* The frames parsed up to index i that count, and the one nearest to the target.
Parsed(c, format, i) == {k \in Within(c, format) : k <= i}
Pool(c, i) ==
  LET mjpeg == Parsed(c, "UVC_VS_FORMAT_MJPEG", i)
  IN IF mjpeg # {} THEN mjpeg ELSE Parsed(c, "UVC_VS_FORMAT_UNCOMPRESSED", i)
IsNearest(c, K, k) ==
  k \in K /\ \A j \in K : \/ c.frames[j].maxRate < c.frames[k].maxRate
                          \/ c.frames[j].maxRate = c.frames[k].maxRate /\ k <= j
NearestSoFar(c, i, s) ==
  IF Pool(c, i) = {} THEN s = Unselected
  ELSE \E k \in Pool(c, i) : IsNearest(c, Pool(c, i), k) /\ s = c.frames[k]

\* Comparing a frame with the selection gives a selection.
LEMMA ConsiderType ==
  ASSUME NEW s \in Stream, NEW f \in Frame
  PROVE  Consider(s, f) \in Stream
<1>1. CASE f.maxRate <= Target
  BY <1>1 DEF Consider, Stream, Frame
<1>2. CASE ~ (f.maxRate <= Target)
  BY <1>2 DEF Consider
<1> QED
  BY <1>1, <1>2

\* Select() is a loop over the frames: its values, one per frame.
LEMMA SelectLoop ==
  ASSUME NEW c \in Descriptor, NEW x \in Stream
  PROVE  \E h \in [0 .. Len(c.frames) -> Stream] :
            /\ h[0] = x
            /\ \A i \in 1 .. Len(c.frames) : h[i] = Consider(h[i - 1], c.frames[i])
            /\ Select(x, c) = h[Len(c.frames)]
<1> DEFINE F == [y \in Stream \X Frame |-> Consider(y[1], y[2])]
           s == c.frames
<1>1. s \in Seq(Frame) /\ Len(s) \in Nat /\ \A i \in 1 .. Len(s) : s[i] \in Frame
  BY Lists
<1>2. F \in [Stream \X Frame -> Stream]
  BY ConsiderType
<1>3. PICK g \in [0 .. Len(s) -> Stream] : Carries(F, x, s, g)
  <2> HIDE DEF F, s
  <2> QED
    BY <1>1, <1>2, LoopExists
<1>4. \A i \in 1 .. Len(s) : F[<<g[i - 1], s[i]>>] = Consider(g[i - 1], s[i])
  <2> SUFFICES ASSUME NEW i \in 1 .. Len(s) PROVE F[<<g[i - 1], s[i]>>] = Consider(g[i - 1], s[i])
    OBVIOUS
  <2>1. i - 1 \in 0 .. Len(s)
    BY <1>1
  <2>2. g[i - 1] \in Stream /\ s[i] \in Frame
    BY <1>1, <1>3, <2>1
  <2> HIDE DEF s
  <2> QED
    BY <2>2
<1> DEFINE e(g_1) == [i \in 0 .. Len(s) |-> IF i = 0 THEN x ELSE Consider(g_1[i - 1], s[i])]
           h == CHOOSE h : h = e(h)
<1>5. g = e(g)
  <2>1. ASSUME NEW i \in 0 .. Len(s) PROVE g[i] = e(g)[i]
    <3>1. g[i] = IF i = 0 THEN x ELSE F[<<g[i - 1], s[i]>>]
      <4> HIDE DEF F, s
      <4> QED
        BY <1>3 DEF Carries
    <3>2. i # 0 => i \in 1 .. Len(s)
      BY <1>1
    <3>3. e(g)[i] = IF i = 0 THEN x ELSE Consider(g[i - 1], s[i])
      OBVIOUS
    <3> HIDE DEF F, s, e
    <3> QED
      BY <1>4, <3>1, <3>2, <3>3
  <2>2. /\ DOMAIN g = 0 .. Len(s) /\ g = [i \in DOMAIN g |-> g[i]]
        /\ DOMAIN e(g) = 0 .. Len(s) /\ e(g) = [i \in DOMAIN e(g) |-> e(g)[i]]
    BY <1>3
  <2> HIDE DEF s, e
  <2> QED
    BY <2>1, <2>2
<1>6. h = e(h)
  <2> HIDE DEF s, e
  <2> QED
    BY <1>5, Zenon
<1>7. Select(x, c) = h[Len(s)]
  BY DEF Select
<1>8. /\ DOMAIN h = 0 .. Len(s) /\ h = [i \in DOMAIN h |-> h[i]]
      /\ h[0] = x /\ \A i \in 1 .. Len(s) : h[i] = Consider(h[i - 1], s[i])
  <2> HIDE DEF h, s
  <2>1. /\ DOMAIN h = 0 .. Len(s) /\ h = [i \in DOMAIN h |-> h[i]]
        /\ \A i \in 0 .. Len(s) : h[i] = IF i = 0 THEN x ELSE Consider(h[i - 1], s[i])
    BY <1>6
  <2>2. 0 \in 0 .. Len(s) /\ \A i \in 1 .. Len(s) : i \in 0 .. Len(s) /\ i # 0
    BY <1>1
  <2> QED
    BY <2>1, <2>2
<1> DEFINE I == {i \in 0 .. Len(s) : h[i] \in Stream}
<1> HIDE DEF h
<1>9. I = 0 .. Len(s)
  <2>1. 0 \in I /\ I \subseteq 0 .. Len(s)
    BY <1>1, <1>8
  <2>2. ASSUME NEW i \in 0 .. Len(s) - 1, h[i] \in Stream PROVE i + 1 \in I
    <3>1. i + 1 \in 1 .. Len(s) /\ (i + 1) - 1 = i
      BY <1>1
    <3>2. h[i + 1] = Consider(h[i], s[i + 1])
      <4> HIDE DEF s
      <4>1. h[i + 1] = Consider(h[(i + 1) - 1], s[i + 1])
        BY <1>8, <3>1
      <4> QED
        BY <3>1, <4>1
    <3> QED
      BY <1>1, <2>2, <3>1, <3>2, ConsiderType
  <2>3. \A i \in 0 .. Len(s) - 1 : i \in I => i + 1 \in I
    BY <2>2
  <2> HIDE DEF I, s
  <2> QED
    BY <1>1, <2>1, <2>3, IndexInduction
<1>10. h \in [0 .. Len(s) -> Stream]
  <2> HIDE DEF s
  <2> QED
    BY <1>8, <1>9
<1> QED
  BY <1>7, <1>8, <1>10

\* Only one frame is the nearest: that of the reference selection.
LEMMA NearestUnique ==
  ASSUME NEW c \in Descriptor, NEW K, K \subseteq 1 .. Len(c.frames), NEW k \in K, IsNearest(c, K, k)
  PROVE  Nearest(c, K) = k
<1> DEFINE rate(j) == c.frames[j].maxRate
           Best(n) == \A j \in K : rate(j) < rate(n) \/ (rate(j) = rate(n) /\ n <= j)
<1>1. \A j \in K : j \in Nat /\ rate(j) \in Nat
  <2> SUFFICES ASSUME NEW j \in K PROVE j \in Nat /\ rate(j) \in Nat
    OBVIOUS
  <2>1. j \in 1 .. Len(c.frames) /\ j \in Nat /\ c.frames[j] \in Frame
    BY Lists
  <2> QED
    BY <2>1 DEF Frame
<1>2. Nearest(c, K) = CHOOSE n \in K : Best(n)
  BY DEF Nearest
<1>3. Best(k)
  BY DEF IsNearest
<1>4. \A n \in K : Best(n) => n = k
  <2> SUFFICES ASSUME NEW n \in K, Best(n) PROVE n = k
    OBVIOUS
  <2>1. rate(k) < rate(n) \/ (rate(k) = rate(n) /\ n <= k)
    OBVIOUS
  <2>2. rate(n) < rate(k) \/ (rate(n) = rate(k) /\ k <= n)
    BY <1>3
  <2>3. n \in Nat /\ k \in Nat /\ rate(k) \in Nat /\ rate(n) \in Nat
    BY <1>1
  <2> HIDE DEF rate, Best
  <2> QED
    BY <2>1, <2>2, <2>3
<1> HIDE DEF Best
<1> QED
  BY <1>2, <1>3, <1>4, Zenon

\* A frame more: the selection stays the nearest so far, for a camera that lists
\* its compressed frames first.
LEMMA ConsiderNext ==
  ASSUME NEW c \in Descriptor, CompressedFirst(c), NEW i \in 0 .. Len(c.frames) - 1,
         NEW s \in Stream, NearestSoFar(c, i, s)
  PROVE  NearestSoFar(c, i + 1, Consider(s, c.frames[i + 1]))
<1> DEFINE f == c.frames[i + 1]
           M(n) == Parsed(c, "UVC_VS_FORMAT_MJPEG", n)
           R(n) == Parsed(c, "UVC_VS_FORMAT_UNCOMPRESSED", n)
<1>1. /\ i \in Nat /\ i + 1 \in 1 .. Len(c.frames) /\ f \in Frame
      /\ DOMAIN c.frames = 1 .. Len(c.frames) /\ Len(c.frames) \in Nat
      /\ \A j \in 1 .. Len(c.frames) : c.frames[j] \in Frame
  BY Lists
<1>2. /\ M(i + 1) = IF f.format = "UVC_VS_FORMAT_MJPEG" /\ f.maxRate <= Target
                    THEN M(i) \cup {i + 1} ELSE M(i)
      /\ R(i + 1) = IF f.format = "UVC_VS_FORMAT_UNCOMPRESSED" /\ f.maxRate <= Target
                    THEN R(i) \cup {i + 1} ELSE R(i)
  BY <1>1 DEF Parsed, Within
<1>3. /\ \A k \in M(i) : /\ k \in 1 .. i /\ k \in 1 .. Len(c.frames) /\ c.frames[k] \in Frame
                         /\ c.frames[k].format = "UVC_VS_FORMAT_MJPEG"
      /\ \A k \in R(i) : /\ k \in 1 .. i /\ k \in 1 .. Len(c.frames) /\ c.frames[k] \in Frame
                         /\ c.frames[k].format = "UVC_VS_FORMAT_UNCOMPRESSED"
  BY <1>1 DEF Parsed, Within
<1>4. f.format = "UVC_VS_FORMAT_MJPEG" => R(i) = {}
  BY <1>1, <1>3 DEF CompressedFirst
<1>5. \A n \in {i, i + 1} : Pool(c, n) = IF M(n) # {} THEN M(n) ELSE R(n)
  BY DEF Pool
<1> HIDE DEF M, R
<1>6. f.format \in Formats /\ f.maxRate \in Nat \ {0}
  BY <1>1 DEF Frame
<1>7. CASE ~ (f.maxRate <= Target)
  <2>1. Consider(s, f) = s
    BY <1>7 DEF Consider
  <2>2. Pool(c, i + 1) = Pool(c, i)
    BY <1>2, <1>5, <1>7
  <2> QED
    BY <2>1, <2>2 DEF NearestSoFar
<1>8. CASE f.maxRate <= Target /\ f.format = "UVC_VS_FORMAT_UNCOMPRESSED" /\ M(i) # {}
  <2>1. Pool(c, i + 1) = Pool(c, i) /\ Pool(c, i) = M(i)
    BY <1>2, <1>5, <1>8
  <2>2. s.format = "UVC_VS_FORMAT_MJPEG"
    BY <1>3, <1>8, <2>1 DEF NearestSoFar
  <2>3. Consider(s, f) = s
    BY <1>8, <2>2 DEF Consider, Replaceable, NoFormat
  <2> QED
    BY <2>1, <2>3 DEF NearestSoFar
<1>9. CASE f.maxRate <= Target /\ ~ (f.format = "UVC_VS_FORMAT_UNCOMPRESSED" /\ M(i) # {})
  <2>1. Pool(c, i + 1) = Pool(c, i) \cup {i + 1}
    BY <1>2, <1>4, <1>5, <1>6, <1>9 DEF Formats
  <2>2. s.format \in Replaceable(f.format)
    <3>1. CASE Pool(c, i) = {}
      BY <3>1 DEF NearestSoFar, Replaceable, Unselected
    <3>2. CASE Pool(c, i) # {}
      <4>1. PICK k \in Pool(c, i) : s = c.frames[k]
        BY <3>2 DEF NearestSoFar
      <4>2. c.frames[k].format = f.format
        BY <1>3, <1>4, <1>5, <1>6, <1>9 DEF Formats
      <4> QED
        BY <1>6, <4>1, <4>2 DEF Replaceable, Formats
    <3> QED
      BY <3>1, <3>2
  <2>3. Consider(s, f) = IF f.maxRate > s.maxRate THEN f ELSE s
    BY <1>9, <2>2 DEF Consider
  <2>4. \A k \in Pool(c, i) : k \in Nat /\ k < i + 1 /\ c.frames[k].maxRate \in Nat
    BY <1>1, <1>3, <1>5 DEF Frame
  <2>5. CASE Pool(c, i) = {}
    <3>1. Consider(s, f) = f
      BY <1>6, <2>3, <2>5 DEF NearestSoFar, Unselected
    <3>2. IsNearest(c, {i + 1}, i + 1)
      BY <1>1 DEF IsNearest
    <3> QED
      BY <2>1, <2>5, <3>1, <3>2 DEF NearestSoFar
  <2>6. CASE Pool(c, i) # {}
    <3>1. PICK k \in Pool(c, i) : IsNearest(c, Pool(c, i), k) /\ s = c.frames[k]
      BY <2>6 DEF NearestSoFar
    <3>2. CASE f.maxRate > s.maxRate
      <4>1. IsNearest(c, Pool(c, i + 1), i + 1)
        <5>1. ASSUME NEW j \in Pool(c, i) PROVE c.frames[j].maxRate < f.maxRate
          BY <1>6, <2>4, <3>1, <3>2 DEF IsNearest
        <5> QED
          BY <1>1, <2>1, <5>1 DEF IsNearest
      <4> QED
        BY <2>1, <2>3, <3>2, <4>1 DEF NearestSoFar
    <3>3. CASE ~ (f.maxRate > s.maxRate)
      <4>1. IsNearest(c, Pool(c, i + 1), k)
        <5>1. f.maxRate < c.frames[k].maxRate \/ (f.maxRate = c.frames[k].maxRate /\ k <= i + 1)
          BY <1>6, <2>4, <3>1, <3>3
        <5> QED
          BY <2>1, <3>1, <5>1 DEF IsNearest
      <4> QED
        BY <2>1, <2>3, <3>1, <3>3, <4>1 DEF NearestSoFar
    <3> QED
      BY <3>2, <3>3
  <2> QED
    BY <2>5, <2>6
<1> QED
  BY <1>7, <1>8, <1>9

\* The reference is the nearest of all frames.
LEMMA ReferenceIsNearest ==
  ASSUME NEW c \in Descriptor, Supported(c), NEW s \in Stream, NearestSoFar(c, Len(c.frames), s)
  PROVE  /\ s = Reference(c)
         /\ \E k \in Pool(c, Len(c.frames)) :
               IsNearest(c, Pool(c, Len(c.frames)), k) /\ s = c.frames[k]
<1> DEFINE n == Len(c.frames)
           K == Pool(c, n)
<1>1. n \in Nat /\ DOMAIN c.frames = 1 .. n /\ \A j \in 1 .. n : c.frames[j] \in Frame
  BY Lists
<1>2. \A format : Parsed(c, format, n) = Within(c, format) /\ Within(c, format) \subseteq 1 .. n
  BY <1>1 DEF Parsed, Within
<1>3. K = IF Within(c, "UVC_VS_FORMAT_MJPEG") # {} THEN Within(c, "UVC_VS_FORMAT_MJPEG")
          ELSE Within(c, "UVC_VS_FORMAT_UNCOMPRESSED")
  BY <1>2 DEF Pool
<1>4. K # {} /\ K \subseteq 1 .. n
  <2>1. PICK j \in 1 .. n : c.frames[j].maxRate <= Target
    BY <1>1 DEF Supported
  <2>2. c.frames[j].format \in Formats
    BY <1>1, <2>1 DEF Frame
  <2>3. j \in Within(c, "UVC_VS_FORMAT_MJPEG") \/ j \in Within(c, "UVC_VS_FORMAT_UNCOMPRESSED")
    BY <1>1, <2>1, <2>2 DEF Within, Formats
  <2> HIDE DEF K
  <2> QED
    BY <1>2, <1>3, <2>3
<1>5. Reference(c) = c.frames[Nearest(c, K)]
  BY <1>3 DEF Reference
<1> HIDE DEF K
<1>6. PICK k \in K : IsNearest(c, K, k) /\ s = c.frames[k]
  BY <1>4 DEF NearestSoFar, K
<1>7. Nearest(c, K) = k
  BY <1>4, <1>6, NearestUnique
<1> QED
  BY <1>5, <1>6, <1>7 DEF K

\* uvc_open() of a camera with nothing selected before comes to the reference.
LEMMA SelectFinds ==
  ASSUME NEW c \in Descriptor, CompressedFirst(c), Supported(c)
  PROVE  /\ Select(Unselected, c) = Reference(c) /\ Reference(c) \in Stream
         /\ \E k \in Pool(c, Len(c.frames)) :
               IsNearest(c, Pool(c, Len(c.frames)), k) /\ Reference(c) = c.frames[k]
<1> DEFINE n == Len(c.frames)
<1>1. n \in Nat
  BY Lists
<1>2. Unselected \in Stream
  BY DEF Unselected, Stream
<1>3. PICK h \in [0 .. n -> Stream] :
         /\ h[0] = Unselected
         /\ \A i \in 1 .. n : h[i] = Consider(h[i - 1], c.frames[i])
         /\ Select(Unselected, c) = h[n]
  BY <1>2, SelectLoop
<1> DEFINE I == {i \in 0 .. n : NearestSoFar(c, i, h[i])}
<1>4. 0 \in I /\ I \subseteq 0 .. n
  <2>1. Pool(c, 0) = {}
    BY Lists DEF Pool, Parsed, Within
  <2> QED
    BY <1>1, <1>3, <2>1 DEF NearestSoFar
<1>5. \A i \in 0 .. n - 1 : i \in I => i + 1 \in I
  <2> SUFFICES ASSUME NEW i \in 0 .. n - 1, i \in I PROVE i + 1 \in I
    OBVIOUS
  <2>1. /\ i + 1 \in 1 .. n /\ i + 1 \in 0 .. n /\ (i + 1) - 1 = i
        /\ h[i] \in Stream /\ NearestSoFar(c, i, h[i])
    BY <1>1, <1>3
  <2>2. h[i + 1] = Consider(h[i], c.frames[i + 1])
    <3> HIDE DEF n
    <3>1. h[i + 1] = Consider(h[(i + 1) - 1], c.frames[i + 1])
      BY <1>3, <2>1
    <3> QED
      BY <2>1, <3>1
  <2> QED
    BY <2>1, <2>2, ConsiderNext
<1>6. I = 0 .. n
  <2> HIDE DEF I, n
  <2> QED
    BY <1>1, <1>4, <1>5, IndexInduction
<1>7. NearestSoFar(c, n, h[n]) /\ h[n] \in Stream
  BY <1>1, <1>3, <1>6
<1> QED
  BY <1>3, <1>7, ReferenceIsNearest

\* The selection kept over uvc_close() is left alone when the same camera's frames
\* are compared with it again.
LEMMA SelectKeeps ==
  ASSUME NEW c \in Descriptor, CompressedFirst(c), Supported(c)
  PROVE  Select(Reference(c), c) = Reference(c)
<1> DEFINE n == Len(c.frames)
           r == Reference(c)
           K == Pool(c, n)
<1>1. /\ n \in Nat /\ DOMAIN c.frames = 1 .. n
      /\ \A j \in 1 .. n : c.frames[j] \in Frame
  BY Lists
<1>2. r \in Stream /\ \E k \in K : IsNearest(c, K, k) /\ r = c.frames[k]
  BY SelectFinds
<1>3. \A format : Parsed(c, format, n) = Within(c, format)
  BY <1>1 DEF Parsed, Within
<1>4. ASSUME NEW i \in 1 .. n PROVE Consider(r, c.frames[i]) = r
  <2> DEFINE f == c.frames[i]
  <2>1. SUFFICES ASSUME f.maxRate > r.maxRate, f.maxRate <= Target,
                        r.format \in Replaceable(f.format)
                 PROVE  FALSE
    BY DEF Consider
  <2>2. PICK k \in K : IsNearest(c, K, k) /\ r = c.frames[k]
    BY <1>2
  <2>3. k \in 1 .. n /\ k \in Within(c, r.format) /\ f \in Frame /\ r \in Frame
    BY <1>1, <1>3, <2>2 DEF Pool, Within
  <2>4. f.format = r.format
    <3>1. CASE r.format = "UVC_VS_FORMAT_MJPEG"
      BY <2>1, <2>3, <3>1 DEF Replaceable, NoFormat, Frame, Formats
    <3>2. CASE r.format = "UVC_VS_FORMAT_UNCOMPRESSED"
      <4>1. Within(c, "UVC_VS_FORMAT_MJPEG") = {}
        <5>1. r.format # "UVC_VS_FORMAT_MJPEG"
          BY <3>2
        <5>2. r.format = "UVC_VS_FORMAT_MJPEG" \/ Within(c, "UVC_VS_FORMAT_MJPEG") = {}
          <6>1. Within(c, "UVC_VS_FORMAT_MJPEG") # {} => k \in Within(c, "UVC_VS_FORMAT_MJPEG")
            BY <1>3, <2>2 DEF Pool
          <6>2. k \in Within(c, "UVC_VS_FORMAT_MJPEG") => r.format = "UVC_VS_FORMAT_MJPEG"
            BY <2>2 DEF Within
          <6> QED
            BY <6>1, <6>2
        <5> QED
          BY <5>1, <5>2
      <4>2. f.format # "UVC_VS_FORMAT_MJPEG"
        BY <1>1, <2>1, <4>1 DEF Within
      <4> QED
        BY <2>3, <3>2, <4>2 DEF Frame, Formats
    <3> QED
      BY <2>3, <3>1, <3>2 DEF Frame, Formats
  <2>5. i \in K
    <3>1. i \in Within(c, r.format)
      BY <1>1, <2>1, <2>4 DEF Within
    <3>2. K = Within(c, r.format)
      BY <1>1, <1>3, <2>2 DEF Pool, Within
    <3> QED
      BY <3>1, <3>2
  <2>6. f.maxRate <= r.maxRate /\ f.maxRate \in Nat /\ r.maxRate \in Nat
    BY <2>2, <2>3, <2>5 DEF IsNearest, Frame
  <2> QED
    BY <2>1, <2>6
<1> HIDE DEF r, K
<1>5. PICK h \in [0 .. n -> Stream] :
         /\ h[0] = r
         /\ \A i \in 1 .. n : h[i] = Consider(h[i - 1], c.frames[i])
         /\ Select(r, c) = h[n]
  BY <1>2, SelectLoop
<1> DEFINE I == {i \in 0 .. n : h[i] = r}
<1>6. 0 \in I /\ I \subseteq 0 .. n
  BY <1>1, <1>5
<1>7. \A i \in 0 .. n - 1 : i \in I => i + 1 \in I
  <2> SUFFICES ASSUME NEW i \in 0 .. n - 1, i \in I PROVE i + 1 \in I
    OBVIOUS
  <2>1. i + 1 \in 1 .. n /\ i + 1 \in 0 .. n /\ (i + 1) - 1 = i /\ h[i] = r
    BY <1>1
  <2>2. h[i + 1] = Consider(h[i], c.frames[i + 1])
    <3> HIDE DEF n
    <3>1. h[i + 1] = Consider(h[(i + 1) - 1], c.frames[i + 1])
      BY <1>5, <2>1
    <3> QED
      BY <2>1, <3>1
  <2> QED
    BY <1>4, <2>1, <2>2
<1>8. I = 0 .. n
  <2> HIDE DEF I, n
  <2> QED
    BY <1>1, <1>6, <1>7, IndexInduction
<1>9. h[n] = r
  BY <1>1, <1>8
<1> QED
  BY <1>5, <1>9 DEF r

-----------------------------------------------------------------------------
\* The inductive invariant.
Pending == ui32IntEvents # "none"

\* Where the host stack is with the camera on the port: once every event is taken,
\* what it has read is that camera's.
HostInv ==
  /\ ui32IntEvents = "connect" => plugged # NoCamera
  /\ config # NoCamera => piDeviceState \in {"eHCDDevReset", "eHCDDevAddressed",
                                             "eHCDDevConfigured", "eHCDDevDisconnected"}
  /\ pc = "configuration" => piDeviceState = "eHCDDevAddressed" /\ config = NoCamera
  /\ ~Pending /\ plugged = NoCamera =>
       piDeviceState \in {"eHCDIdle", "eHCDDevDisconnected", "eHCDDevError"}
  /\ ~Pending /\ piDeviceState \in {"eHCDDevAddressed", "eHCDDevConfigured"} /\ config # NoCamera
       => config \in {plugged} \cup Torn
  /\ env.clean /\ config \in Torn => \/ Pending /\ pc # "usbDevice" /\ piDeviceState # "eHCDDevConfigured"
                                     \/ piDeviceState \in {"eHCDDevReset", "eHCDDevDisconnected"}

\* What the driver keeps of the camera it has open.
DriverInv ==
  /\ pipes = IF stream_pipe THEN 1 ELSE 0
  /\ stream_pipe => device # NoCamera
  /\ device # NoCamera =>
       /\ stream_iface_alt = Len(device.settings) /\ uvc_version = device.version
       /\ ~NoEndpoint(device, Len(device.settings)) =>
            stream_pipe /\ Largest(device, Len(device.settings), stream_endpt_xfer_size)

\* From uvc_open() to the stream, in one pass of main(): the camera open is the one
\* the host has configured.
OpenInv ==
  /\ pc \in NegotiationSteps => CAMERA_STATE = "CAMERA_INIT"
  /\ CAMERA_STATE = "CAMERA_INIT" =>
       /\ pc \in {"switch", "fault"} \cup NegotiationSteps
       /\ piDeviceState = "eHCDDevConfigured" /\ config # NoCamera /\ device = config
  /\ setting # 0 =>
       /\ ~Pending /\ piDeviceState = "eHCDDevConfigured" /\ CAMERA_STATE # "CAMERA_INIT"
       /\ plugged # NoCamera /\ config \in {plugged} \cup Torn /\ device = config
       /\ setting = stream_iface_alt /\ setting \in DOMAIN plugged.settings

\* How far the camera that is there has followed the negotiation.
AgreedInv ==
  /\ env.clean =>
       /\ pc \in NegotiationSteps /\ Reached =>
            Offers(plugged, plugged.iface, Selected) /\ probed = Selected
       /\ pc \in {"commit", "setInterface"} /\ Reached => stream_frame_size = Selected
       /\ pc = "setInterface" /\ Reached => committed = Selected
       /\ setting # 0 => committed = Selected /\ stream_frame_size = Selected

\* The selection, as long as it is the same camera each time.
SameInv ==
  env.clean /\ env.same /\ env.supported =>
    /\ plugged \in {NoCamera, last} /\ config \in {NoCamera, last} \cup Torn
    /\ device \in {NoCamera, last}
    /\ last = NoCamera => stream = Unselected
    /\ last # NoCamera => Supported(last)
    /\ last # NoCamera /\ CompressedFirst(last) => stream \in {Unselected, Reference(last)}
    /\ device # NoCamera /\ CompressedFirst(last) => stream = Reference(last)

\* The steps that touch the driver: all but the opening and the closing leave it alone.
LEMMA DriverKept ==
  ASSUME [Next]_vars
  PROVE  DevOpen \/ DevDisconnected \/ UNCHANGED driver
BY DEF Next, vars, Main, UsbEvents, DevReset, DevReadDevice, DevSetAddress, DevReadHeader,
       DevReadConfig, DevError, DevNothing, SwitchIdle, Negotiate, SetCur, GetCur, Commit, SetInterface, Unplug, StreamError, Plug

\* What the host reads, from a camera or cut, is a descriptor.
LEMMA Read == Cameras \cup Torn \subseteq Descriptor /\ NoCamera \notin Cameras \cup Torn
<1>1. Cameras \subseteq Descriptor /\ Torn \subseteq Descriptor
  OBVIOUS
<1> QED
  BY <1>1, Lists

\* A device is not opened: the driver has one already, or the descriptor is cut.
LEMMA OpensOrNot ==
  ASSUME TypeOK, DevOpen
  PROVE  NotOpened \/ (device = NoCamera /\ UvcOpen(config))
<1>1. UvcOpen(config) \/ NotOpened
  BY DEF DevOpen
<1>2. UvcOpen(config) /\ device # NoCamera => NotOpened
  BY Zenon DEF UvcOpen
<1> QED
  BY <1>1, <1>2

\* uvc_open() of a device, when the driver serves none yet.
LEMMA Opens ==
  ASSUME TypeOK, DriverInv, DevOpen, device = NoCamera, UvcOpen(config)
  PROVE  /\ config \in Cameras \cup Torn /\ device' = config /\ uvc_version' = config.version
         /\ stream' = Select(stream, config)
         /\ stream_iface_alt' = Len(config.settings)
         /\ stream_endpt_xfer_size' \in Nat
         /\ stream_pipe' \in BOOLEAN /\ active' \in BOOLEAN
         /\ pipes' = IF NoEndpoint(config, Len(config.settings)) THEN 0 ELSE 1
         /\ NoEndpoint(config, Len(config.settings)) => ~stream_pipe'
         /\ ~NoEndpoint(config, Len(config.settings)) =>
              stream_pipe' /\ Largest(config, Len(config.settings), stream_endpt_xfer_size')
         /\ \/ CAMERA_STATE' = "CAMERA_INIT" /\ pc' = "switch"
            \/ pc' = "fault" /\ CAMERA_STATE' = CAMERA_STATE
<1> DEFINE n == stream_endpt_xfer_size
           p == Exchange([open |-> stream_pipe, size |-> n, used |-> pipes, given |-> TRUE], config)
           k == Len(config.settings)
<1>1. config \in Cameras \cup Torn /\ config \in Descriptor /\ n \in Nat
  BY Read DEF DevOpen, TypeOK
<1>2. ~stream_pipe /\ stream_pipe \in BOOLEAN /\ pipes = 0
  BY DEF DriverInv, TypeOK
<1>3. [open |-> stream_pipe, size |-> n, used |-> pipes, given |-> TRUE] = NoPipe(n)
  BY <1>2 DEF NoPipe
<1>4. p = Exchange(NoPipe(n), config)
  BY <1>3
<1>5. /\ NoEndpoint(config, k) => p = NoPipe(n)
      /\ ~NoEndpoint(config, k) => \E m \in Nat : p = OnePipe(m) /\ Largest(config, k, m)
  BY <1>1, <1>4, Exchanged
<1>6. /\ device' = config /\ uvc_version' = config.version
      /\ stream' = Select(stream, config)
      /\ stream_pipe' = p.open /\ stream_endpt_xfer_size' = p.size /\ pipes' = p.used
      /\ stream_iface_alt' = k
      /\ \/ active' = TRUE /\ CAMERA_STATE' = "CAMERA_INIT" /\ pc' = "switch"
         \/ pc' = "fault" /\ UNCHANGED <<active, CAMERA_STATE>>
  BY Zenon DEF UvcOpen
<1> HIDE DEF p, k
<1>7. active' \in BOOLEAN
  <2>1. active \in BOOLEAN
    BY DEF TypeOK
  <2> QED
    BY <1>6, <2>1, Zenon
<1>8. CASE NoEndpoint(config, k)
  <2>1. p.open = FALSE /\ p.size \in Nat /\ p.used = 0
    BY <1>1, <1>5, <1>8 DEF NoPipe
  <2>2. stream_pipe' \in BOOLEAN
    BY <1>6, <2>1, Zenon
  <2> QED
    BY <1>1, <1>6, <1>7, <1>8, <2>1, <2>2 DEF k
<1>9. CASE ~NoEndpoint(config, k)
  <2>1. p.open = TRUE /\ p.size \in Nat /\ p.used = 1 /\ Largest(config, k, p.size)
    BY <1>5, <1>9 DEF OnePipe
  <2>2. stream_pipe' \in BOOLEAN
    BY <1>6, <2>1, Zenon
  <2> QED
    BY <1>1, <1>6, <1>7, <1>9, <2>1, <2>2 DEF k
<1> QED
  BY <1>8, <1>9

\* The event taken decides the device's state.
LEMMA EventTaken ==
  ASSUME TypeOK, UsbEvents
  PROVE  /\ ui32IntEvents = "connect" => piDeviceState' = "eHCDDevReset"
         /\ ui32IntEvents = "disconnect" => piDeviceState' = "eHCDDevDisconnected"
         /\ ui32IntEvents = "none" => piDeviceState' = piDeviceState
         /\ ui32IntEvents' = "none" /\ pc' = "usbDevice"
BY Zenon DEF UsbEvents, TypeOK

\* What the driver holds is that of the camera it opened; no pipe is lost.
LEMMA DriverStep ==
  ASSUME TypeOK, DriverInv, [Next]_vars
  PROVE  DriverInv'
<1>1. CASE UNCHANGED driver
  BY <1>1 DEF driver, selection, DriverInv
<1>2. CASE DevOpen /\ ~UNCHANGED driver
  <2>1. device = NoCamera /\ UvcOpen(config)
    BY <1>2, OpensOrNot DEF NotOpened
  <2>2. PICK n \in Nat : n = Len(config.settings)
    BY <1>2, <2>1, Opens, Read, Lists
  <2> QED
    BY <1>2, <2>1, <2>2, Opens, Read DEF DriverInv
<1>3. CASE DevDisconnected /\ ~UNCHANGED driver
  <2>1. UvcClose
    BY <1>3 DEF DevDisconnected
  <2> QED
    BY <2>1 DEF UvcClose, DriverInv, TypeOK
<1> QED
  BY <1>1, <1>2, <1>3, DriverKept

\* Every variable keeps its type.
LEMMA TypeStep ==
  ASSUME TypeOK, DriverInv, [Next]_vars
  PROVE  TypeOK'
<1> USE DEF Index
<1>1. CASE UsbEvents
  BY <1>1, EventTaken DEF TypeOK, UsbEvents, Steps, enumerated, driver, selection, port, agreed
<1>2. CASE DevReset
  BY <1>2 DEF TypeOK, DevReset, DeviceStep, Steps, driver, selection, port, agreed
<1>3. CASE DevReadDevice
  <2>1. known' \in BOOLEAN
    BY <1>3 DEF DevReadDevice
  <2>2. /\ CAMERA_STATE' \in {CAMERA_STATE, "CAMERA_UNCONNECTED"}
        /\ piDeviceState' \in {piDeviceState, "eHCDDevError"}
    BY <1>3 DEF DevReadDevice, GiveUp
  <2>3. /\ pc' = "switch"
        /\ UNCHANGED <<env, ui32IntEvents, addressed, config, active, driver,
                      stream_frame_size, port, agreed>>
    BY <1>3 DEF DevReadDevice
  <2> QED
    BY <2>1, <2>2, <2>3 DEF TypeOK, Steps, driver, selection, port, agreed
<1>4. CASE DevSetAddress
  BY <1>4 DEF TypeOK, DevSetAddress, DeviceStep, Steps, driver, selection, port, agreed
<1>14. CASE DevReadHeader
  <2>1. /\ CAMERA_STATE' \in {CAMERA_STATE, "CAMERA_UNCONNECTED"}
        /\ piDeviceState' \in {piDeviceState, "eHCDDevError"}
        /\ pc' \in {"switch", "configuration"}
    BY <1>14 DEF DevReadHeader, GiveUp
  <2>2. UNCHANGED <<env, ui32IntEvents, known, addressed, config, active, driver,
                    stream_frame_size, port, agreed>>
    BY <1>14 DEF DevReadHeader
  <2> QED
    BY <2>1, <2>2 DEF TypeOK, Steps, driver, selection, port, agreed
<1>15. CASE DevReadConfig
  <2>1. config' \in Cameras \cup Torn \cup {NoCamera}
    BY <1>15 DEF DevReadConfig, TypeOK
  <2>2. /\ CAMERA_STATE' \in {CAMERA_STATE, "CAMERA_UNCONNECTED"}
        /\ piDeviceState' \in {piDeviceState, "eHCDDevError"}
    BY <1>15 DEF DevReadConfig, GiveUp
  <2>3. /\ pc' = "switch"
        /\ UNCHANGED <<env, ui32IntEvents, known, addressed, active, driver,
                      stream_frame_size, port, agreed>>
    BY <1>15 DEF DevReadConfig
  <2> QED
    BY <2>1, <2>2, <2>3 DEF TypeOK, Steps, driver, selection, port, agreed
<1>16. CASE DevError
  BY <1>16 DEF TypeOK, DevError, Steps, enumerated, driver, selection, port, agreed
<1>5. CASE DevOpen
  <2>1. CASE NotOpened
    BY <1>5, <2>1 DEF TypeOK, DevOpen, NotOpened, Steps, enumerated, driver, selection, port, agreed
  <2>2. CASE device = NoCamera /\ UvcOpen(config)
    <3>1. config \in Cameras \cup Torn /\ config \in Descriptor /\ config.version \in Nat
      BY <1>5, <2>2, Opens, Read DEF Descriptor
    <3>2. PICK n \in Nat : n = Len(config.settings)
      BY <3>1, Lists
    <3>3. stream' \in Stream
      <4>1. PICK h \in [0 .. Len(config.frames) -> Stream] : Select(stream, config) = h[Len(config.frames)]
        BY <3>1, SelectLoop DEF TypeOK, Stream
      <4>2. stream' = Select(stream, config)
        BY <1>5, <2>2, Opens
      <4>3. Len(config.frames) \in 0 .. Len(config.frames)
        BY <3>1, Lists
      <4> QED
        BY <4>1, <4>2, <4>3
    <3>4. /\ device' \in Cameras \cup Torn \cup {NoCamera} /\ uvc_version' \in Nat
          /\ stream_iface_alt' \in Nat /\ stream_endpt_xfer_size' \in Nat /\ pipes' \in 0 .. Pipes
      BY <1>5, <2>2, <3>1, <3>2, Opens
    <3>5. /\ pc' \in Steps /\ CAMERA_STATE' \in {"CAMERA_UNCONNECTED", "CAMERA_INIT", "CAMERA_CONNECTED"}
      BY <1>5, <2>2, Opens DEF TypeOK, Steps
    <3>6. {known, addressed, active, stream_pipe}' \subseteq BOOLEAN
      <4>1. stream_pipe' \in BOOLEAN /\ active' \in BOOLEAN
        BY <1>5, <2>2, Opens
      <4>2. known' = known /\ addressed' = addressed /\ known \in BOOLEAN /\ addressed \in BOOLEAN
        BY <1>5 DEF DevOpen, enumerated, TypeOK
      <4> QED
        BY <4>1, <4>2, Zenon
    <3> QED
      BY <1>5, <3>3, <3>4, <3>5, <3>6 DEF TypeOK, DevOpen, Stream, enumerated, port, agreed
  <2> QED
    BY <1>5, <2>1, <2>2, OpensOrNot
<1>6. CASE DevDisconnected
  <2>1. CASE active
    <3>1. UvcClose
      BY <1>6, <2>1 DEF DevDisconnected
    <3>2. device' = NoCamera /\ pipes' \in 0 .. Pipes /\ UNCHANGED selection
      BY <3>1 DEF UvcClose, TypeOK, DriverInv
    <3>3. stream_pipe' \in BOOLEAN
      BY <3>1, Zenon DEF UvcClose
    <3> QED
      BY <1>6, <3>2, <3>3 DEF TypeOK, DevDisconnected, Steps, selection, port, agreed
  <2>2. CASE ~active
    <3>1. UNCHANGED driver
      BY <1>6, <2>2 DEF DevDisconnected
    <3> QED
      BY <1>6, <3>1 DEF TypeOK, DevDisconnected, Steps, driver, selection, port, agreed
  <2> QED
    BY <2>1, <2>2
<1>7. CASE DevNothing
  BY <1>7 DEF TypeOK, DevNothing, Steps, host, enumerated, driver, selection, port, agreed
<1>8. CASE SwitchIdle
  BY <1>8 DEF TypeOK, SwitchIdle, Steps, host, enumerated, driver, selection, port, agreed
<1>9. CASE Negotiate
  BY <1>9 DEF TypeOK, Negotiate, SetCur, GetCur, Commit, SetInterface, Selected, NoFrame, Steps, NegotiationSteps, host, enumerated, driver, selection, port, agreed
<1>10. CASE Unplug
  BY <1>10 DEF TypeOK, Unplug, enumerated, driver, selection
<1>11. CASE StreamError
  BY <1>11 DEF TypeOK, StreamError, Steps, host, enumerated, driver, selection, port, agreed
<1>12. CASE \E c \in Cameras : Plug(c)
  BY <1>12 DEF TypeOK, Plug, NoFrame, enumerated, driver, selection
<1>13. CASE UNCHANGED vars
  BY <1>13 DEF TypeOK, vars, host, enumerated, driver, selection, port, agreed
<1> QED
  BY <1>1, <1>2, <1>3, <1>4, <1>5, <1>6, <1>7, <1>8, <1>9, <1>10, <1>11, <1>12, <1>13,
     <1>14, <1>15, <1>16 DEF Next, Main

\* Once main() has taken every event, what it has read is the camera's on the port.
LEMMA HostStep ==
  ASSUME TypeOK, HostInv, [Next]_vars
  PROVE  HostInv'
<1> USE Read DEF HostInv, Pending, DeviceStep, NegotiationSteps
<1>1. CASE UsbEvents
  BY <1>1, EventTaken DEF UsbEvents, TypeOK, enumerated, port
<1>2. CASE DevReset
  BY <1>2 DEF DevReset, port
<1>3. CASE DevReadDevice
  <2>1. /\ pc = "usbDevice" /\ piDeviceState = "eHCDDevConnected" /\ pc' = "switch"
        /\ piDeviceState' \in {piDeviceState, "eHCDDevError"}
        /\ UNCHANGED <<env, ui32IntEvents, config, port>>
    BY <1>3 DEF DevReadDevice, GiveUp
  <2> QED
    BY <2>1 DEF port
<1>4. CASE DevSetAddress
  BY <1>4 DEF DevSetAddress, port
<1>5. CASE DevReadHeader
  <2>1. /\ pc = "usbDevice" /\ piDeviceState = "eHCDDevAddressed" /\ config = NoCamera
        /\ UNCHANGED <<env, ui32IntEvents, config, port>>
        /\ \/ piDeviceState' = piDeviceState /\ pc' \in {"switch", "configuration"}
           \/ piDeviceState' = "eHCDDevError" /\ pc' = "switch"
    BY <1>5 DEF DevReadHeader, GiveUp
  <2> QED
    BY <2>1 DEF port
<1>6. CASE DevReadConfig
  <2>1. PICK reply \in Replies :
          \/ reply = "whole" /\ config' = plugged /\ UNCHANGED <<piDeviceState, CAMERA_STATE>>
          \/ reply = "cut" /\ config' \in Torn /\ UNCHANGED <<piDeviceState, CAMERA_STATE>>
          \/ reply = "none" /\ GiveUp /\ UNCHANGED config
    BY <1>6 DEF DevReadConfig
  <2>2. /\ pc = "configuration" /\ pc' = "switch"
        /\ UNCHANGED <<env, ui32IntEvents, port>>
    BY <1>6 DEF DevReadConfig
  <2>3. /\ reply # "cut" => plugged # NoCamera /\ ui32IntEvents = "none"
        /\ env.clean /\ reply = "cut" => plugged = NoCamera \/ ui32IntEvents # "none"
    BY <2>1 DEF Replies, Reached
  <2>4. plugged \in Cameras \cup {NoCamera} /\ Cameras \cap Torn = {}
    BY DEF TypeOK
  <2> QED
    BY <2>1, <2>2, <2>3, <2>4 DEF GiveUp, port
<1>7. CASE DevOpen
  <2>1. pc' \in {"switch", "fault"}
    BY <1>7 DEF DevOpen, UvcOpen, NotOpened
  <2> QED
    BY <1>7, <2>1 DEF DevOpen, enumerated, port
<1>11. CASE DevError
  BY <1>11 DEF DevError, enumerated, port
<1>12. CASE DevDisconnected
  BY <1>12 DEF DevDisconnected, port
<1>13. CASE DevNothing \/ SwitchIdle \/ Negotiate \/ StreamError
  BY <1>13 DEF DevNothing, SwitchIdle, Negotiate, SetCur, GetCur, Commit, SetInterface, StreamError, host, enumerated, port
<1>8. CASE Unplug
  BY <1>8 DEF Unplug, enumerated
<1>9. CASE \E c \in Cameras : Plug(c)
  BY <1>9 DEF Plug, enumerated
<1>10. CASE UNCHANGED vars
  BY <1>10 DEF vars, host, enumerated, port
<1> QED
  BY <1>1, <1>2, <1>3, <1>4, <1>5, <1>6, <1>7, <1>8, <1>9, <1>10, <1>11, <1>12, <1>13 DEF Next, Main

\* From the opening to the stream the camera is the one opened.
LEMMA OpenStep ==
  ASSUME TypeOK, HostInv, DriverInv, OpenInv, [Next]_vars
  PROVE  OpenInv'
<1> USE DEF OpenInv, Pending, DeviceStep, NegotiationSteps
<1>1. CASE UsbEvents
  BY <1>1, EventTaken DEF UsbEvents, TypeOK, enumerated, driver, selection, port, agreed
<1>2. CASE DevReset \/ DevReadDevice \/ DevSetAddress \/ DevReadHeader \/ DevReadConfig \/ DevError
  <2>1. pc \in {"usbDevice", "configuration"} /\ pc' \in {"switch", "configuration"}
    BY <1>2 DEF DevReset, DevReadDevice, DevSetAddress, DevReadHeader, DevReadConfig, DevError
  <2>2. piDeviceState # "eHCDDevConfigured"
    BY <1>2 DEF DevReset, DevReadDevice, DevSetAddress, DevReadHeader, DevReadConfig, DevError, HostInv
  <2>3. CAMERA_STATE' \in {CAMERA_STATE, "CAMERA_UNCONNECTED"} /\ setting' = setting
    BY <1>2 DEF DevReset, DevReadDevice, DevSetAddress, DevReadHeader, DevReadConfig, DevError, GiveUp, agreed
  <2> QED
    BY <2>1, <2>2, <2>3
<1>3. CASE DevOpen
  <2>1. pc = "usbDevice" /\ CAMERA_STATE # "CAMERA_INIT" /\ setting = 0 /\ setting' = setting
    BY <1>3 DEF DevOpen, agreed
  <2>2. CASE NotOpened
    BY <1>3, <2>1, <2>2 DEF NotOpened
  <2>3. CASE device = NoCamera /\ UvcOpen(config)
    BY <1>3, <2>1, <2>3, Opens DEF DevOpen, enumerated
  <2> QED
    BY <1>3, <2>2, <2>3, OpensOrNot
<1>4. CASE DevDisconnected
  BY <1>4 DEF DevDisconnected, agreed
<1>5. CASE DevNothing \/ SwitchIdle \/ StreamError
  BY <1>5 DEF DevNothing, SwitchIdle, StreamError, host, enumerated, driver, selection, port, agreed
<1>6. CASE Negotiate
  <2>1. PICK ok \in Transfers : SetCur(ok) \/ GetCur(ok) \/ Commit(ok) \/ SetInterface(ok)
    BY <1>6 DEF Negotiate
  <2>2. CASE SetCur(ok) \/ GetCur(ok) \/ Commit(ok)
    BY <2>2 DEF SetCur, GetCur, Commit, host, enumerated, driver, selection, port, agreed
  <2>3. CASE SetInterface(ok)
    <3>1. ok => plugged # NoCamera /\ ui32IntEvents = "none"
      BY <2>1 DEF Transfers, Reached
    <3>2. /\ pc = "setInterface" /\ pc' = "usbEvents" /\ CAMERA_STATE' = "CAMERA_CONNECTED"
          /\ UNCHANGED <<env, host, driver, port>> /\ setting = 0
          /\ setting' \in {setting} \cup (IF ok /\ stream_iface_alt \in DOMAIN plugged.settings
                                       THEN {stream_iface_alt} ELSE {})
      BY <2>3 DEF SetInterface
    <3>3. piDeviceState = "eHCDDevConfigured" /\ config # NoCamera /\ device = config
      BY <3>2
    <3>4. ok => config \in {plugged} \cup Torn
      BY <3>1, <3>3 DEF HostInv
    <3> QED
      BY <3>1, <3>2, <3>3, <3>4 DEF host, enumerated, driver, selection, port
  <2> QED
    BY <2>1, <2>2, <2>3
<1>7. CASE Unplug
  BY <1>7 DEF Unplug, enumerated, driver, selection
<1>8. CASE \E c \in Cameras : Plug(c)
  BY <1>8 DEF Plug, enumerated, driver, selection
<1>9. CASE UNCHANGED vars
  BY <1>9 DEF vars, host, enumerated, driver, selection, port, agreed
<1> QED
  BY <1>1, <1>2, <1>3, <1>4, <1>5, <1>6, <1>7, <1>8, <1>9 DEF Next, Main

\* A camera that is there follows the negotiation; in a clean environment to the end.
LEMMA AgreedStep ==
  ASSUME TypeOK, HostInv, DriverInv, OpenInv, AgreedInv, [Next]_vars
  PROVE  AgreedInv'
<1> USE DEF AgreedInv, Reached, NegotiationSteps
<1>1. CASE UsbEvents
  BY <1>1, EventTaken DEF UsbEvents, driver, selection, port, agreed, Selected
<1>2. CASE DevReset \/ DevReadDevice \/ DevSetAddress \/ DevReadHeader \/ DevReadConfig \/ DevError
  <2>1. /\ pc' \in {"switch", "configuration"} /\ UNCHANGED <<env, driver, stream_frame_size, agreed>>
    BY <1>2 DEF DevReset, DevReadDevice, DevSetAddress, DevReadHeader, DevReadConfig, DevError
  <2> QED
    BY <2>1 DEF driver, selection, agreed, Selected
<1>3. CASE DevOpen
  <2>1. setting = 0 /\ setting' = setting
    BY <1>3 DEF DevOpen, DeviceStep, OpenInv, agreed
  <2>2. pc' \in {"switch", "fault"}
    BY <1>3 DEF DevOpen, UvcOpen, NotOpened
  <2> QED
    BY <2>1, <2>2
<1>4. CASE DevDisconnected
  <2>1. setting = 0 /\ setting' = setting /\ pc' = "switch"
    BY <1>4 DEF DevDisconnected, DeviceStep, OpenInv, agreed
  <2> QED
    BY <2>1
<1>5. CASE DevNothing \/ SwitchIdle \/ StreamError
  BY <1>5 DEF DevNothing, SwitchIdle, StreamError, host, driver, selection, port, agreed, Selected
<1>6. CASE Negotiate
  <2>1. PICK ok \in Transfers : SetCur(ok) \/ GetCur(ok) \/ Commit(ok) \/ SetInterface(ok)
    BY <1>6 DEF Negotiate
  <2>2. (ok => Reached) /\ (env.clean /\ Reached => ok)
    BY <2>1 DEF Transfers
  <2>3. Selected' = Selected /\ plugged' = plugged /\ ui32IntEvents' = ui32IntEvents /\ env' = env
    BY <2>1 DEF SetCur, GetCur, Commit, SetInterface, driver, selection, host, port, Selected
  <2>9. CAMERA_STATE = "CAMERA_INIT" /\ setting = 0
    BY <2>1 DEF SetCur, GetCur, Commit, SetInterface, OpenInv
  <2>8. env.clean /\ Reached => device = plugged
    BY <2>9 DEF HostInv, OpenInv, Pending
  <2>4. CASE SetCur(ok)
    <3>1. setting' = 0
      BY <2>4, <2>9 DEF SetCur
    <3>2. pc' = "getCur" => Offers(plugged, ProbeInterface, Selected) /\ probed' = Selected
      BY <2>4 DEF SetCur
    <3>3. pc' \in {"getCur", "fault"}
      BY <2>4 DEF SetCur
    <3>4. pc' = "getCur" => Offers(plugged, plugged.iface, Selected)
      BY <3>2 DEF Offers
    <3> QED
      BY <2>3, <3>1, <3>2, <3>3, <3>4 DEF Offers
  <2>5. CASE GetCur(ok)
    <3>1. setting' = 0 /\ probed' = probed /\ pc = "getCur" /\ pc' = "commit"
      BY <2>5, <2>9 DEF GetCur, agreed
    <3>2. env.clean /\ Reached => stream_frame_size' = probed
      BY <2>2, <2>5, <2>8 DEF GetCur
    <3> QED
      BY <2>3, <3>1, <3>2 DEF Offers
  <2>6. CASE Commit(ok)
    <3>1. /\ setting' = 0 /\ probed' = probed /\ pc = "commit" /\ pc' = "setInterface"
          /\ stream_frame_size' = stream_frame_size
      BY <2>6, <2>9 DEF Commit
    <3>2. env.clean /\ Reached => committed' = Selected
      BY <2>2, <2>6, <2>8, <3>1 DEF Commit
    <3> QED
      BY <2>3, <3>1, <3>2 DEF Offers
  <2>7. CASE SetInterface(ok)
    <3>1. /\ pc = "setInterface" /\ pc' = "usbEvents" /\ committed' = committed
          /\ stream_frame_size' = stream_frame_size
      BY <2>7 DEF SetInterface
    <3>2. setting' # 0 => ok
      BY <2>7, <2>9 DEF SetInterface
    <3> QED
      BY <2>2, <2>3, <3>1, <3>2
  <2> QED
    BY <2>1, <2>4, <2>5, <2>6, <2>7
<1>7. CASE Unplug
  BY <1>7 DEF Unplug
<1>8. CASE \E c \in Cameras : Plug(c)
  BY <1>8 DEF Plug
<1>9. CASE UNCHANGED vars
  BY <1>9 DEF vars, host, driver, selection, port, agreed, Selected
<1> QED
  BY <1>1, <1>2, <1>3, <1>4, <1>5, <1>6, <1>7, <1>8, <1>9 DEF Next, Main

\* The same camera, however often it comes back, is compared with nothing but its
\* own reference.
LEMMA SameStep ==
  ASSUME TypeOK, HostInv, DriverInv, SameInv, [Next]_vars
  PROVE  SameInv'
<1> USE DEF SameInv
<1>0. /\ config \in Cameras \cup Torn \cup {NoCamera} /\ last \in Cameras \cup {NoCamera}
      /\ plugged \in Cameras \cup {NoCamera} /\ NoCamera \notin Cameras \cup Torn
  BY Read DEF TypeOK
<1>1. CASE DevOpen /\ device = NoCamera /\ UvcOpen(config)
  <2>1. SUFFICES ASSUME env.clean, env.same, env.supported PROVE SameInv'
    BY <1>1 DEF DevOpen
  <2>2. /\ device' = config /\ stream' = Select(stream, config)
        /\ config # NoCamera /\ UNCHANGED <<env, plugged, last, config>>
    BY <1>1, Opens DEF DevOpen, enumerated, port
  <2>3. config \notin Torn
    BY <1>1, <2>1 DEF HostInv, DevOpen, DeviceStep
  <2>4. last = config /\ Supported(config) /\ config \in Descriptor
    BY <1>0, <2>1, <2>2, <2>3, Read
  <2>5. CompressedFirst(config) => stream' = Reference(config)
    BY <2>1, <2>2, <2>4, SelectFinds, SelectKeeps
  <2> QED
    BY <2>1, <2>2, <2>4, <2>5
<1>2. CASE DevOpen /\ NotOpened
  BY <1>2 DEF DevOpen, NotOpened, enumerated, driver, selection, port
<1>3. CASE DevDisconnected
  <2>1. device' \in {device, NoCamera} /\ stream' = stream /\ config' = NoCamera
        /\ UNCHANGED <<env, plugged, last>>
    BY <1>3, Zenon DEF DevDisconnected, UvcClose, driver, selection, port
  <2> QED
    BY <2>1
<1>4. CASE UsbEvents \/ DevReset \/ DevReadDevice \/ DevSetAddress \/ DevReadHeader \/ DevError
  <2>1. config' \in {config, NoCamera} /\ UNCHANGED <<env, driver, port>>
    BY <1>4 DEF UsbEvents, DevReset, DevReadDevice, DevSetAddress, DevReadHeader, DevError, enumerated
  <2> QED
    BY <2>1 DEF driver, selection, port
<1>5. CASE DevReadConfig
  <2>1. config' \in {config, plugged} \cup Torn /\ UNCHANGED <<env, driver, port>>
    BY <1>5 DEF DevReadConfig
  <2> QED
    BY <2>1 DEF driver, selection, port
<1>6. CASE DevNothing \/ SwitchIdle \/ StreamError
  BY <1>6 DEF DevNothing, SwitchIdle, StreamError, host, enumerated, driver, selection, port
<1>7. CASE Negotiate
  BY <1>7 DEF Negotiate, SetCur, GetCur, Commit, SetInterface, host, enumerated, driver, selection, port
<1>8. CASE Unplug
  BY <1>8 DEF Unplug, enumerated, driver, selection
<1>9. CASE \E c \in Cameras : Plug(c)
  <2>1. PICK c \in Cameras : Plug(c)
    BY <1>9
  <2>2. /\ plugged' = c /\ last' = c /\ UNCHANGED <<env, config, device, stream>>
        /\ (env.supported => Supported(c)) /\ (env.same => last \in {NoCamera, c})
    BY <2>1 DEF Plug, enumerated, driver, selection
  <2> QED
    BY <2>2
<1>10. CASE UNCHANGED vars
  BY <1>10 DEF vars, host, enumerated, driver, selection, port
<1> QED
  BY <1>1, <1>2, <1>3, <1>4, <1>5, <1>6, <1>7, <1>8, <1>9, <1>10, OpensOrNot DEF Next, Main

CameraInv == TypeOK /\ HostInv /\ DriverInv /\ OpenInv /\ AgreedInv /\ SameInv

\* The invariant is inductive.
THEOREM CameraInvariant == Spec => []CameraInv
<1>1. Init => CameraInv
  <2> SUFFICES ASSUME Init PROVE CameraInv
    OBVIOUS
  <2>1. TypeOK
    <3>1. {known, addressed, active, stream_pipe} \subseteq BOOLEAN
      BY Zenon DEF Init
    <3> QED
      BY <3>1 DEF Init, TypeOK, Steps, Index, NoFrame, Unselected
  <2>2. HostInv /\ OpenInv /\ AgreedInv
    BY Read DEF Init, HostInv, OpenInv, AgreedInv, Pending, NegotiationSteps
  <2>3. DriverInv
    <3>1. ~stream_pipe /\ pipes = 0 /\ device = NoCamera
      BY DEF Init
    <3> QED
      BY <3>1 DEF DriverInv
  <2>4. SameInv
    BY DEF Init, SameInv
  <2> QED
    BY <2>1, <2>2, <2>3, <2>4 DEF CameraInv
<1>2. CameraInv /\ [Next]_vars => CameraInv'
  BY TypeStep, HostStep, DriverStep, OpenStep, AgreedStep, SameStep DEF CameraInv
<1> QED
  BY <1>1, <1>2, PTL DEF Spec

\* Every variable keeps its type: the selection stays within target_bit_rate and
\* the pipes within the controller's.
THEOREM CameraTypes == Spec => []TypeOK
<1>1. CameraInv => TypeOK
  BY DEF CameraInv
<1> QED
  BY <1>1, CameraInvariant, PTL

\* No sequence of plugging, opening and closing loses a pipe.
THEOREM NoPipeLost == Spec => []PipesAccounted
<1>1. CameraInv => PipesAccounted
  BY DEF CameraInv, DriverInv, PipesAccounted
<1> QED
  BY <1>1, CameraInvariant, PTL

\* The incremental selection is the best of all frames, for every list of frames
\* with the compressed ones first, also after uvc_close() and back.
THEOREM SelectionIsReference == Spec => []SelectsReference
<1>1. CameraInv => SelectsReference
  BY DEF CameraInv, SameInv, SelectsReference
<1> QED
  BY <1>1, CameraInvariant, PTL

\* A camera that streams has a pipe of its packets' size, for every list of
\* settings the last of which has the largest endpoint the parser takes.
THEOREM PipeFitsSetting == Spec => []SettingFitsPipe
<1>1. CameraInv => SettingFitsPipe
  <2> SUFFICES ASSUME CameraInv, setting # 0, device = plugged, plugged.settings[setting] # 0,
                      \A j \in DOMAIN plugged.settings : plugged.settings[j] <= plugged.settings[setting]
               PROVE  stream_pipe /\ plugged.settings[setting] = stream_endpt_xfer_size
    BY DEF SettingFitsPipe
  <2> DEFINE k == Len(plugged.settings)
  <2>1. plugged # NoCamera /\ setting \in DOMAIN plugged.settings /\ plugged \in Descriptor
    BY Read DEF CameraInv, OpenInv, TypeOK
  <2>2. DOMAIN plugged.settings = 1 .. k /\ \A j \in 1 .. k : plugged.settings[j] \in Nat
    BY <2>1, Lists
  <2>3. ~NoEndpoint(plugged, k)
    BY <2>1, <2>2 DEF NoEndpoint
  <2>4. stream_pipe /\ Largest(plugged, k, stream_endpt_xfer_size)
    BY <2>1, <2>3 DEF CameraInv, DriverInv
  <2>5. stream_endpt_xfer_size \in Nat
    BY DEF CameraInv, TypeOK
  <2> HIDE DEF k
  <2>6. plugged.settings[setting] = stream_endpt_xfer_size
    BY <2>1, <2>2, <2>4, <2>5 DEF Largest
  <2> QED
    BY <2>4, <2>6
<1> QED
  BY <1>1, CameraInvariant, PTL

\* A camera that streams sends the frame the driver selected and counts with,
\* although the driver checks the first transfer only.
THEOREM StreamAsAgreed == Spec => []StreamsAsAgreed
<1>1. CameraInv => StreamsAsAgreed
  BY DEF CameraInv, HostInv, OpenInv, AgreedInv, StreamsAsAgreed, Pending
<1> QED
  BY <1>1, CameraInvariant, PTL
=============================================================================
