-------------------------- MODULE HttpProxyProofs --------------------------
(***************************************************************************)
(* Proofs about src/proxy_server/http_proxy.c, for any requests, any       *)
(* length of the response, any size of the buffer, and any number of       *)
(* addresses and of interrupted calls.                                     *)
(***************************************************************************)
EXTENDS HttpProxy, SequenceTheorems, TLAPS

----------------------------------------------------------------------------
(* Sequences *)

\* A function on 1..n with values that are numbers is a sequence of length n.
LEMMA CountedSeq ==
    ASSUME NEW n \in Nat, NEW f \in [1..n -> Nat]
    PROVE  f \in Seq(Nat) /\ Len(f) = n
<1>1. f \in Seq(Nat)
  BY SeqDef
<1>2. Len(f) \in Nat /\ DOMAIN f = 1..Len(f)
  BY <1>1, LenProperties
<1>3. DOMAIN f = 1..n
  OBVIOUS
<1> QED
  BY <1>1, <1>2, <1>3

\* What recv put into the buffer: k bytes, the ones after those received before.
LEMMA ChunkFacts ==
    ASSUME NEW k \in Nat, NEW n \in Nat
    PROVE  LET c == [j \in 1..k |-> n + j]
           IN c \in Seq(Nat) /\ Len(c) = k /\ \A j \in 1..Len(c) : c[j] = n + j
<1> DEFINE c == [j \in 1..k |-> n + j]
<1>1. c \in [1..k -> Nat]
  OBVIOUS
<1>2. c \in Seq(Nat) /\ Len(c) = k
  BY <1>1, CountedSeq
<1> QED
  BY <1>2

\* A prefix of a sequence of numbers.
LEMMA PrefixFacts ==
    ASSUME NEW s \in Seq(Nat), NEW k \in 0..Len(s)
    PROVE  /\ SubSeq(s, 1, k) \in Seq(Nat)
           /\ Len(SubSeq(s, 1, k)) = k
           /\ \A j \in 1..k : SubSeq(s, 1, k)[j] = s[j]
<1>1. Len(s) \in Nat /\ k \in Int /\ k \in Nat
  BY LenProperties
<1>2. \A j \in 1..k : s[j] \in Nat
  BY <1>1, ElementOfSeq
<1>3. /\ SubSeq(s, 1, k) \in Seq(Nat)
      /\ Len(SubSeq(s, 1, k)) = IF 1 <= k THEN k - 1 + 1 ELSE 0
      /\ \A j \in 1..(k - 1 + 1) : SubSeq(s, 1, k)[j] = s[1 + j - 1]
  BY <1>1, <1>2, SubSeqProperties
<1> QED
  BY <1>1, <1>3

----------------------------------------------------------------------------
(* Types and sockets *)

LEMMA ConstantTypes ==
    /\ ResponseLength \in Nat /\ BUFFER_SIZE \in Nat /\ BUFFER_SIZE > 0
    /\ MaxAddresses \in Nat /\ MaxInterrupts \in Nat
    /\ \A r \in Requests : r \in Seq(Pieces) /\ Len(r) \in Nat
BY HttpAssumption, LenProperties DEF HttpAssumption

LEMMA RequestPrefix ==
    ASSUME NEW r \in Requests, NEW k \in 1..Len(r)
    PROVE  SubSeq(r, 1, k) \in Seq(Pieces) /\ SubSeq(r, 1, k) # << >>
<1>1. r \in Seq(Pieces) /\ Len(r) \in Nat
  BY ConstantTypes
<1>2. \A j \in 1..k : r[j] \in Pieces
  BY <1>1, ElementOfSeq
<1>3. SubSeq(r, 1, k) \in Seq(Pieces) /\ Len(SubSeq(r, 1, k)) = IF 1 <= k THEN k - 1 + 1 ELSE 0
  BY <1>1, <1>2, SubSeqProperties
<1>4. Len(SubSeq(r, 1, k)) > 0
  BY <1>1, <1>3
<1> QED
  BY <1>3, <1>4, EmptySeq

LEMMA InitHandler == Init => HandlerInv
<1> SUFFICES ASSUME Init PROVE HandlerInv
  OBVIOUS
<1>1. << >> \in Seq(Nat) /\ << >> \in Seq(Pieces) /\ Len(<< >>) = 0
  BY EmptySeq
<1>2. TypeOK
  <2>1. client_open \in BOOLEAN /\ finished \in BOOLEAN /\ gone \in BOOLEAN /\ error \in BOOLEAN
    BY Zenon DEF Init
  <2>2. /\ pc \in Labels /\ request \in Requests /\ buffer \in Seq(Pieces)
        /\ chunk \in Seq(Nat) /\ delivered \in Seq(Nat)
    BY <1>1, Zenon DEF Init, Labels
  <2>3. chunk = << >> /\ addresses = 0 /\ targets_open = 0 /\ produced = 0 /\ received = 0 /\ interrupts = 0
    BY Zenon DEF Init
  <2>4. /\ addresses \in 0..MaxAddresses /\ targets_open \in Nat
        /\ produced \in 0..ResponseLength /\ received \in 0..produced
        /\ Len(chunk) <= BUFFER_SIZE /\ interrupts \in 0..MaxInterrupts
    BY <1>1, <2>3, ConstantTypes
  <2> QED
    BY <2>1, <2>2, <2>4 DEF TypeOK
<1>3. SocketsAtReturn /\ SocketsKept
  BY DEF Init, SocketsAtReturn, SocketsKept, Connected
<1>4. RelayBytes /\ RelayWhole
  <2>0. received = 0
    BY Zenon DEF Init
  <2>1. chunk = << >> /\ delivered = << >>
    BY Zenon DEF Init
  <2>2. Len(chunk) = 0 /\ Len(delivered) = 0 /\ 1..0 = {}
    BY <1>1, <2>1
  <2>3. Len(chunk) <= received /\ Len(delivered) = received - Len(chunk)
    BY <2>0, <2>2
  <2>4. \A j \in 1..Len(chunk) : FALSE
    BY <2>2
  <2>5. \A j \in 1..Len(delivered) : FALSE
    BY <2>2
  <2> QED
    BY <2>1, <2>3, <2>4, <2>5, Zenon DEF RelayBytes, RelayWhole
<1>5. RelayEnds
  BY <1>4, Zenon DEF Init, RelayEnds
<1> QED
  BY <1>2, <1>3, <1>4, <1>5 DEF HandlerInv, RelayKept

LEMMA TypeStep ==
    ASSUME HandlerInv, Next
    PROVE  TypeOK'
<1> USE ConstantTypes DEF TypeOK, Goto, Interrupt, frontVars, relayVars, sockets, outcome, peerVars, Labels
<1>0. TypeOK /\ SocketsKept
  BY DEF HandlerInv
<1>1. CASE receive_client_request
  BY <1>0, <1>1, SMT DEF receive_client_request
<1>2. CASE ReceiveFails
  BY <1>0, <1>2, SMT DEF ReceiveFails
<1>3. CASE parse_http_request
  <2>1. pc' \in Labels /\ error' \in BOOLEAN
    BY <1>0, <1>3, Zenon DEF parse_http_request
  <2>2. UNCHANGED <<sockets, relayVars, peerVars, request, buffer, addresses, interrupts>>
    BY <1>3, Zenon DEF parse_http_request
  <2> QED
    BY <1>0, <2>1, <2>2, SMT
<1>4. CASE Resolve
  <2>1. pc' \in Labels /\ error' \in BOOLEAN
    BY <1>0, <1>4, Zenon DEF Resolve
  <2>2. addresses' = addresses \/ \E n \in 1..MaxAddresses : addresses' = n
    BY <1>4, Zenon DEF Resolve
  <2>3. UNCHANGED <<sockets, relayVars, peerVars, request, buffer, interrupts>>
    BY <1>4, Zenon DEF Resolve
  <2> QED
    BY <1>0, <2>1, <2>2, <2>3, SMT
<1>5. CASE Connect
  BY <1>0, <1>5, SMT DEF Connect
<1>6. CASE ConnectFails
  BY <1>0, <1>6, SMT DEF ConnectFails
<1>7. CASE NoAddressLeft
  BY <1>0, <1>7, SMT DEF NoAddressLeft
<1>8. CASE forward_request
  <2>1. pc' \in Labels /\ error' \in BOOLEAN
    BY <1>0, <1>8, Zenon DEF forward_request
  <2>2. UNCHANGED interrupts \/ Interrupt
    BY <1>8, Zenon DEF forward_request
  <2>3. UNCHANGED <<sockets, relayVars, peerVars, frontVars>>
    BY <1>8, Zenon DEF forward_request
  <2> QED
    BY <1>0, <2>1, <2>2, <2>3, SMT
<1>9. CASE RelayReceive
  BY <1>0, <1>9, SMT DEF RelayReceive
<1>10. CASE RelayEnd
  BY <1>0, <1>10, SMT DEF RelayEnd
<1>11. CASE RelayReceiveFails
  BY <1>0, <1>11, SMT DEF RelayReceiveFails
<1>12. CASE RelaySend
  BY <1>0, <1>12, SMT DEF RelaySend
<1>13. CASE RelaySendShort
  BY <1>0, <1>13, SMT DEF RelaySendShort
<1>14. CASE RelaySendFails
  BY <1>0, <1>14, SMT DEF RelaySendFails
<1>15. CASE RelaySendKilled
  BY <1>0, <1>15, SMT DEF RelaySendKilled
<1>16. CASE CloseTarget
  <2>1. targets_open = 1
    BY <1>0, <1>16 DEF CloseTarget, SocketsKept, Connected
  <2> QED
    BY <1>0, <1>16, <2>1, SMT DEF CloseTarget
<1>17. CASE CloseClient
  <2>1. pc' \in Labels /\ client_open' \in BOOLEAN
    BY <1>0, <1>17, Zenon DEF CloseClient
  <2>2. UNCHANGED <<frontVars, relayVars, peerVars, outcome, targets_open>>
    BY <1>17, Zenon DEF CloseClient
  <2> QED
    BY <1>0, <2>1, <2>2, SMT
<1>18. CASE TargetSends
  BY <1>0, <1>18, SMT DEF TargetSends
<1>19. CASE TargetCloses
  BY <1>0, <1>19, SMT DEF TargetCloses
<1>20. CASE ClientCloses
  BY <1>0, <1>20, SMT DEF ClientCloses
<1> QED
  BY <1>1, <1>2, <1>3, <1>4, <1>5, <1>6, <1>7, <1>8, <1>9, <1>10, <1>11, <1>12, <1>13, <1>14, <1>15, <1>16, <1>17, <1>18, <1>19, <1>20 DEF Next, handle_client_request, connect_to_target_server, forward_response

\* Which sockets are open follows from where the handler is.
LEMMA SocketsStep ==
    ASSUME HandlerInv, Next
    PROVE  SocketsKept'
<1> USE DEF SocketsKept, Connected, Goto, frontVars, sockets
<1>0. TypeOK /\ SocketsKept /\ MaxAddresses \in Nat
  BY ConstantTypes DEF HandlerInv
<1>n. addresses \in Nat
  BY <1>0 DEF TypeOK
<1>1. CASE receive_client_request
  BY <1>0, <1>n, <1>1 DEF receive_client_request
<1>2. CASE ReceiveFails
  BY <1>0, <1>n, <1>2 DEF ReceiveFails
<1>3. CASE parse_http_request
  BY <1>0, <1>n, <1>3 DEF parse_http_request
<1>4. CASE Resolve
  BY <1>0, <1>n, <1>4 DEF Resolve
<1>5. CASE Connect
  BY <1>0, <1>n, <1>5 DEF Connect
<1>6. CASE ConnectFails
  BY <1>0, <1>n, <1>6 DEF ConnectFails
<1>7. CASE NoAddressLeft
  BY <1>0, <1>n, <1>7 DEF NoAddressLeft
<1>8. CASE forward_request
  BY <1>0, <1>n, <1>8 DEF forward_request
<1>9. CASE RelayReceive
  BY <1>0, <1>n, <1>9 DEF RelayReceive
<1>10. CASE RelayEnd
  BY <1>0, <1>n, <1>10 DEF RelayEnd
<1>11. CASE RelayReceiveFails
  BY <1>0, <1>n, <1>11 DEF RelayReceiveFails
<1>12. CASE RelaySend
  BY <1>0, <1>n, <1>12 DEF RelaySend
<1>13. CASE RelaySendShort
  BY <1>0, <1>n, <1>13 DEF RelaySendShort
<1>14. CASE RelaySendFails
  BY <1>0, <1>n, <1>14 DEF RelaySendFails
<1>15. CASE RelaySendKilled
  BY <1>0, <1>n, <1>15 DEF RelaySendKilled
<1>16. CASE CloseTarget
  BY <1>0, <1>n, <1>16 DEF CloseTarget
<1>17. CASE CloseClient
  BY <1>0, <1>n, <1>17 DEF CloseClient
<1>18. CASE TargetSends
  BY <1>0, <1>n, <1>18 DEF TargetSends
<1>19. CASE TargetCloses
  BY <1>0, <1>n, <1>19 DEF TargetCloses
<1>20. CASE ClientCloses
  BY <1>0, <1>n, <1>20 DEF ClientCloses
<1> QED
  BY <1>1, <1>2, <1>3, <1>4, <1>5, <1>6, <1>7, <1>8, <1>9, <1>10, <1>11, <1>12, <1>13, <1>14, <1>15, <1>16, <1>17, <1>18, <1>19, <1>20 DEF Next, handle_client_request, connect_to_target_server, forward_response

----------------------------------------------------------------------------
(* The relay *)

\* Bytes reach the client in order: appending a prefix of the buffer to what was
\* delivered, and emptying the buffer, keeps the order; and without an
\* interruption there is no gap.
LEMMA SendFacts ==
    ASSUME TypeOK, RelayBytes, NEW k \in 0..Len(chunk),
           delivered' = delivered \o SubSeq(chunk, 1, k),
           chunk' = << >>, received' = received
    PROVE  /\ Len(chunk') = 0
           /\ Len(delivered') = Len(delivered) + k
           /\ \A j \in 1..Len(delivered') : delivered'[j] \in 1..received'
           /\ \A j, m \in 1..Len(delivered') : j < m => delivered'[j] < delivered'[m]
           /\ (interrupts = 0 /\ RelayWhole) => \A j \in 1..Len(delivered') : delivered'[j] = j
<1>1. chunk \in Seq(Nat) /\ delivered \in Seq(Nat) /\ received \in Nat /\ produced \in Nat
  BY ConstantTypes DEF TypeOK
<1>2. Len(chunk) \in Nat /\ Len(delivered) \in Nat /\ k \in Nat
  BY <1>1, LenProperties
<1> DEFINE s == SubSeq(chunk, 1, k)
<1>3. s \in Seq(Nat) /\ Len(s) = k /\ \A j \in 1..k : s[j] = chunk[j]
  BY <1>1, PrefixFacts
<1>4. /\ Len(delivered') = Len(delivered) + k
      /\ \A j \in 1..(Len(delivered) + k) :
            delivered'[j] = IF j <= Len(delivered) THEN delivered[j] ELSE s[j - Len(delivered)]
  <2> HIDE DEF s
  <2>1. delivered' = delivered \o s
    BY DEF s
  <2>2. /\ Len(delivered \o s) = Len(delivered) + Len(s)
        /\ \A j \in 1..(Len(delivered) + Len(s)) :
            (delivered \o s)[j] = IF j <= Len(delivered) THEN delivered[j] ELSE s[j - Len(delivered)]
    BY <1>1, <1>3, ConcatProperties
  <2> QED
    BY <2>1, <2>2, <1>3
<1> HIDE DEF s
<1>5. /\ Len(chunk) <= received
      /\ \A j \in 1..Len(chunk) : chunk[j] = received - Len(chunk) + j
      /\ \A j \in 1..Len(delivered) : delivered[j] \in 1..(received - Len(chunk))
      /\ \A j, m \in 1..Len(delivered) : j < m => delivered[j] < delivered[m]
  BY DEF RelayBytes
<1>6. \A j \in 1..Len(delivered') :
         \/ /\ j \in 1..Len(delivered) /\ delivered'[j] = delivered[j]
         \/ /\ j - Len(delivered) \in 1..k
            /\ delivered'[j] = received - Len(chunk) + (j - Len(delivered))
  <2> SUFFICES ASSUME NEW j \in 1..Len(delivered'), ~(j <= Len(delivered))
               PROVE  /\ j - Len(delivered) \in 1..k
                      /\ delivered'[j] = received - Len(chunk) + (j - Len(delivered))
    BY <1>2, <1>4
  <2>1. j - Len(delivered) \in 1..k /\ j - Len(delivered) \in 1..Len(chunk)
    BY <1>2, <1>4
  <2>2. delivered'[j] = s[j - Len(delivered)]
    BY <1>2, <1>4
  <2>3. s[j - Len(delivered)] = chunk[j - Len(delivered)]
    BY <2>1, <1>3
  <2> QED
    BY <2>1, <2>2, <2>3, <1>5
<1>7. Len(chunk') = 0
  BY EmptySeq
<1>8. \A j \in 1..Len(delivered') : delivered'[j] \in 1..received'
  <2> TAKE j \in 1..Len(delivered')
  <2>1. CASE j \in 1..Len(delivered) /\ delivered'[j] = delivered[j]
    <3>1. delivered[j] \in 1..(received - Len(chunk))
      BY <1>5, <2>1
    <3> QED
      BY <1>1, <1>2, <1>5, <2>1, <3>1
  <2>2. CASE /\ j - Len(delivered) \in 1..k
             /\ delivered'[j] = received - Len(chunk) + (j - Len(delivered))
    <3>1. j \in Nat /\ received - Len(chunk) + (j - Len(delivered)) \in 1..received
      BY <1>1, <1>2, <1>4, <1>5, <2>2
    <3> QED
      BY <2>2, <3>1
  <2> QED
    BY <1>6, <2>1, <2>2
<1>9. \A j, m \in 1..Len(delivered') : j < m => delivered'[j] < delivered'[m]
  <2> SUFFICES ASSUME NEW j \in 1..Len(delivered'), NEW m \in 1..Len(delivered'), j < m
               PROVE  delivered'[j] < delivered'[m]
    OBVIOUS
  <2>0. j \in Nat /\ m \in Nat
    BY <1>2, <1>4
  <2>1. CASE m \in 1..Len(delivered) /\ delivered'[m] = delivered[m]
    <3>1. j \in 1..Len(delivered) /\ ~(j - Len(delivered) \in 1..k)
      BY <1>2, <2>0, <2>1
    <3>2. delivered'[j] = delivered[j] /\ delivered[j] < delivered[m]
      BY <1>5, <1>6, <2>1, <3>1
    <3> QED
      BY <2>1, <3>2
  <2>2. CASE /\ m - Len(delivered) \in 1..k
             /\ delivered'[m] = received - Len(chunk) + (m - Len(delivered))
    <3>1. CASE j \in 1..Len(delivered) /\ delivered'[j] = delivered[j]
      <4>1. delivered'[j] \in 1..(received - Len(chunk))
        BY <1>5, <3>1
      <4> DEFINE x == delivered'[j]
      <4>2. x \in Nat /\ x <= received - Len(chunk)
        BY <1>1, <1>2, <4>1
      <4> HIDE DEF x
      <4>3. x < received - Len(chunk) + (m - Len(delivered))
        BY <1>1, <1>2, <2>0, <2>2, <4>2
      <4>4. x < delivered'[m]
        BY <2>2, <4>3
      <4> QED
        BY <4>4 DEF x
    <3>2. CASE delivered'[j] = received - Len(chunk) + (j - Len(delivered))
      BY <1>1, <1>2, <2>0, <2>2, <3>2
    <3> QED
      BY <1>6, <3>1, <3>2
  <2> QED
    BY <1>6, <2>1, <2>2
<1>10. ASSUME interrupts = 0, RelayWhole PROVE \A j \in 1..Len(delivered') : delivered'[j] = j
  <2>1. Len(delivered) = received - Len(chunk) /\ \A j \in 1..Len(delivered) : delivered[j] = j
    BY <1>10 DEF RelayBytes, RelayWhole
  <2> TAKE j \in 1..Len(delivered')
  <2>2. j \in Nat
    BY <1>2, <1>4
  <2>3. CASE j \in 1..Len(delivered) /\ delivered'[j] = delivered[j]
    BY <2>1, <2>3
  <2>4. CASE delivered'[j] = received - Len(chunk) + (j - Len(delivered))
    <3>1. received - Len(chunk) + (j - Len(delivered)) = j
      BY <1>1, <1>2, <2>1, <2>2
    <3> QED
      BY <2>4, <3>1
  <2> QED
    BY <1>6, <2>3, <2>4
<1> QED
  BY <1>4, <1>7, <1>8, <1>9, <1>10

\* The steps that leave the relay's variables alone.
Elsewhere ==
    \/ receive_client_request \/ ReceiveFails \/ parse_http_request
    \/ Resolve \/ Connect \/ ConnectFails \/ NoAddressLeft \/ forward_request
    \/ RelayEnd \/ RelayReceiveFails \/ RelaySendKilled
    \/ CloseTarget \/ CloseClient \/ TargetSends \/ TargetCloses \/ ClientCloses

LEMMA NextSplit ==
    Next => Elsewhere \/ RelayReceive \/ RelaySend \/ RelaySendShort \/ RelaySendFails
BY DEF Next, Elsewhere, handle_client_request, connect_to_target_server, forward_response

LEMMA ElsewhereFacts ==
    ASSUME Elsewhere
    PROVE  /\ UNCHANGED relayVars
           /\ UNCHANGED interrupts \/ Interrupt
           /\ pc = "relay_send" => pc' \in {"relay_send", "killed"}
           /\ pc # "killed" \/ pc' = "killed"
<1> USE DEF Goto, outcome, relayVars
<1>1. CASE receive_client_request \/ ReceiveFails \/ parse_http_request
  BY <1>1, Zenon DEF receive_client_request, ReceiveFails, parse_http_request
<1>2. CASE Resolve \/ Connect \/ ConnectFails \/ NoAddressLeft
  BY <1>2, Zenon DEF Resolve, Connect, ConnectFails, NoAddressLeft
<1>3. CASE forward_request \/ RelayEnd \/ RelayReceiveFails \/ RelaySendKilled
  BY <1>3, Zenon DEF forward_request, RelayEnd, RelayReceiveFails, RelaySendKilled
<1>4. CASE CloseTarget \/ CloseClient
  BY <1>4, Zenon DEF CloseTarget, CloseClient
<1>5. CASE TargetSends \/ TargetCloses \/ ClientCloses
  BY <1>5, Zenon DEF TargetSends, TargetCloses, ClientCloses
<1> QED
  BY <1>1, <1>2, <1>3, <1>4, <1>5 DEF Elsewhere

\* A counter of interruptions that is 0 after a step was 0 before it.
LEMMA InterruptsGrow ==
    ASSUME TypeOK, UNCHANGED interrupts \/ Interrupt, interrupts' = 0
    PROVE  interrupts = 0 /\ UNCHANGED interrupts
BY ConstantTypes DEF TypeOK, Interrupt

\* The whole buffer is a prefix of itself.
LEMMA SendWhole ==
    ASSUME TypeOK, RelaySend
    PROVE  Len(chunk) \in 0..Len(chunk) /\ delivered' = delivered \o SubSeq(chunk, 1, Len(chunk))
<1>1. chunk \in Seq(Nat)
  BY DEF TypeOK
<1>2. SubSeq(chunk, 1, Len(chunk)) = chunk /\ Len(chunk) \in Nat
  BY <1>1, SubSeqFull, LenProperties
<1> QED
  BY <1>2 DEF RelaySend

LEMMA BytesStep ==
    ASSUME HandlerInv, Next
    PROVE  RelayBytes'
<1>0. TypeOK /\ RelayBytes /\ RelayEnds
  BY DEF HandlerInv, RelayKept
<1>t. /\ chunk \in Seq(Nat) /\ delivered \in Seq(Nat) /\ received \in Nat
      /\ Len(chunk) \in Nat /\ Len(delivered) \in Nat
  BY <1>0, LenProperties, ConstantTypes DEF TypeOK
<1>1. CASE Elsewhere
  <2>1. UNCHANGED relayVars /\ (UNCHANGED interrupts \/ Interrupt)
    BY <1>1, ElsewhereFacts
  <2>2. interrupts' = 0 => interrupts = 0
    BY <1>0, <2>1, InterruptsGrow
  <2>3. pc \in {"relay_send", "killed"} => pc' \in {"relay_send", "killed"}
    BY <1>1, ElsewhereFacts
  <2> QED
    BY <1>0, <2>1, <2>2, <2>3 DEF RelayBytes, relayVars
<1>2. CASE RelayReceive
  <2>1. chunk = << >> /\ Len(chunk) = 0
    BY <1>0, <1>2, EmptySeq DEF RelayBytes, RelayReceive, Goto
  <2>2. PICK k \in 1..BUFFER_SIZE :
           chunk' = [j \in 1..k |-> received + j] /\ received' = received + k
    BY <1>2 DEF RelayReceive
  <2>3. k \in Nat
    BY <2>2, ConstantTypes
  <2>4. Len(chunk') = k /\ \A j \in 1..k : chunk'[j] = received + j
    BY <1>t, <2>2, <2>3, ChunkFacts
  <2>5. UNCHANGED delivered /\ UNCHANGED interrupts /\ pc' = "relay_send"
    BY <1>2 DEF RelayReceive, outcome, Goto
  <2>6. \A j \in 1..Len(delivered) : delivered[j] \in 1..received
    BY <1>0, <1>t, <2>1 DEF RelayBytes
  <2>7. received' - Len(chunk') = received /\ Len(chunk') <= received'
    BY <1>t, <2>2, <2>3, <2>4
  <2>8. \A j \in 1..Len(chunk') : chunk'[j] = received' - Len(chunk') + j
    BY <2>4, <2>7
  <2>9. \A j \in 1..Len(delivered') : delivered'[j] \in 1..(received' - Len(chunk'))
    BY <2>5, <2>6, <2>7
  <2> QED
    BY <1>0, <2>5, <2>7, <2>8, <2>9 DEF RelayBytes
<1>3. ASSUME NEW k \in 0..Len(chunk), delivered' = delivered \o SubSeq(chunk, 1, k),
             chunk' = << >>, received' = received,
             interrupts' = 0 => interrupts = 0 /\ RelayWhole
      PROVE  RelayBytes'
  <2>1. /\ Len(chunk') = 0
        /\ \A j \in 1..Len(delivered') : delivered'[j] \in 1..received'
        /\ \A j, m \in 1..Len(delivered') : j < m => delivered'[j] < delivered'[m]
        /\ (interrupts = 0 /\ RelayWhole) => \A j \in 1..Len(delivered') : delivered'[j] = j
    BY <1>0, <1>3, SendFacts
  <2>2. received' \in Nat /\ received' - Len(chunk') = received' /\ Len(chunk') <= received'
    BY <1>t, <1>3, <2>1
  <2>3. \A j \in 1..Len(chunk') : FALSE
    BY <2>1
  <2> QED
    BY <1>3, <2>1, <2>2, <2>3, Zenon DEF RelayBytes
<1>4. CASE RelaySend
  <2>1. Len(chunk) \in 0..Len(chunk) /\ delivered' = delivered \o SubSeq(chunk, 1, Len(chunk))
    BY <1>0, <1>4, SendWhole
  <2>2. chunk' = << >> /\ UNCHANGED received /\ UNCHANGED interrupts /\ pc = "relay_send"
    BY <1>4 DEF RelaySend, outcome, Goto
  <2>3. RelayWhole
    BY <1>0, <2>2, Zenon DEF RelayEnds
  <2> QED
    BY <1>3, <2>1, <2>2, <2>3
<1>5. CASE RelaySendShort
  <2>1. PICK k \in 1..(Len(chunk) - 1) : delivered' = delivered \o SubSeq(chunk, 1, k)
    BY <1>5 DEF RelaySendShort
  <2>2. k \in 0..Len(chunk) /\ interrupts' # 0
    BY <1>0, <1>t, <1>5, ConstantTypes DEF RelaySendShort, Interrupt, TypeOK
  <2>3. chunk' = << >> /\ received' = received
    BY <1>5 DEF RelaySendShort
  <2> QED
    BY <1>3, <2>1, <2>2, <2>3
<1>6. CASE RelaySendFails
  <2>1. /\ chunk' = << >> /\ UNCHANGED <<received, delivered>>
        /\ UNCHANGED interrupts \/ Interrupt
    BY <1>6, Zenon DEF RelaySendFails
  <2>2. interrupts' = 0 => interrupts = 0
    BY <1>0, <2>1, InterruptsGrow
  <2>3. Len(chunk') = 0
    BY <2>1, EmptySeq
  <2>4. /\ \A j \in 1..Len(delivered) : delivered[j] \in 1..(received - Len(chunk))
        /\ Len(chunk) <= received
    BY <1>0 DEF RelayBytes
  <2>5. \A j \in 1..Len(delivered) : delivered[j] \in 1..received
    BY <1>t, <2>4
  <2>6. received' - Len(chunk') = received /\ Len(chunk') <= received'
    BY <1>t, <2>1, <2>3
  <2>7. \A j \in 1..Len(chunk') : FALSE
    BY <2>3
  <2>8. \A j \in 1..Len(delivered') : delivered'[j] \in 1..(received' - Len(chunk'))
    BY <2>1, <2>5, <2>6
  <2>9. /\ \A j, k \in 1..Len(delivered') : j < k => delivered'[j] < delivered'[k]
        /\ interrupts' = 0 => \A j \in 1..Len(delivered') : delivered'[j] = j
    BY <1>0, <2>1, <2>2 DEF RelayBytes
  <2> QED
    BY <2>1, <2>6, <2>7, <2>8, <2>9, Zenon DEF RelayBytes
<1> QED
  BY <1>1, <1>2, <1>4, <1>5, <1>6, NextSplit

\* A request is forwarded, or the handler has seen an error.
LEMMA ForwardFacts ==
    ASSUME HandlerInv, forward_request
    PROVE  forwarded' = NONE => error'
<1>1. request \in Requests /\ pc = "forward" /\ SocketsKept
  BY DEF HandlerInv, TypeOK, forward_request, Goto
<1>2. PICK k \in 1..Len(request) : buffer = SubSeq(request, 1, k)
  BY <1>1 DEF SocketsKept
<1>3. PICK url \in UrlRead(buffer) :
         IF IsHttp(url)
         THEN \/ forwarded' = Rewritten(buffer, url) /\ UNCHANGED <<error, interrupts>>
              \/ Interrupt /\ error' = TRUE /\ UNCHANGED forwarded
              \/ /\ Interrupt /\ UNCHANGED error
                 /\ \E j \in 1..(Len(Rewritten(buffer, url)) - 1) :
                       forwarded' = SubSeq(Rewritten(buffer, url), 1, j)
         ELSE error' = TRUE /\ UNCHANGED <<forwarded, interrupts>>
  BY Zenon DEF forward_request
<1>4. /\ Rewritten(buffer, url) # NONE
      /\ \A j \in 1..(Len(Rewritten(buffer, url)) - 1) :
            SubSeq(Rewritten(buffer, url), 1, j) # NONE
  BY <1>1, <1>2, <1>3, NoneAssumption, Zenon DEF NoneAssumption
<1> QED
  BY <1>3, <1>4, Zenon

LEMMA EndsStep ==
    ASSUME HandlerInv, Next
    PROVE  RelayEnds'
<1>0. TypeOK /\ RelayBytes /\ RelayEnds /\ SocketsKept
  BY DEF HandlerInv, RelayKept
<1>t. /\ chunk \in Seq(Nat) /\ delivered \in Seq(Nat) /\ received \in Nat
      /\ Len(chunk) \in Nat /\ Len(delivered) \in Nat
  BY <1>0, LenProperties, ConstantTypes DEF TypeOK
<1> USE DEF Goto, outcome, peerVars
<1>1. ASSUME Elsewhere, RelayWhole PROVE RelayWhole'
  <2>1. UNCHANGED relayVars /\ (UNCHANGED interrupts \/ Interrupt)
    BY <1>1, ElsewhereFacts
  <2>2. interrupts' = 0 => interrupts = 0
    BY <1>0, <2>1, InterruptsGrow
  <2> QED
    BY <1>1, <2>1, <2>2 DEF RelayWhole, relayVars
<1>2. CASE receive_client_request \/ ReceiveFails \/ parse_http_request
           \/ Resolve \/ Connect \/ ConnectFails \/ NoAddressLeft
  <2>1. /\ pc \in {"recv", "parse", "resolve", "connect"}
        /\ UNCHANGED <<produced, finished, forwarded>>
        /\ pc' \in {"parse", "resolve", "connect", "forward", "returned"}
    BY <1>2, Zenon DEF receive_client_request, ReceiveFails, parse_http_request,
                       Resolve, Connect, ConnectFails, NoAddressLeft
  <2>2. RelayWhole
    BY <1>0, <2>1, Zenon DEF RelayEnds
  <2>3. RelayWhole'
    BY <1>1, <1>2, <2>2, Zenon DEF Elsewhere
  <2> QED
    BY <1>0, <2>1, <2>3, Zenon DEF RelayEnds
<1>3. CASE forward_request
  <2>1. pc = "forward" /\ pc' = "relay_recv" /\ UNCHANGED <<produced, finished>>
    BY <1>3, Zenon DEF forward_request
  <2>2. RelayWhole'
    BY <1>0, <1>1, <1>3, <2>1, Zenon DEF RelayEnds, Elsewhere
  <2>3. forwarded' = NONE => error'
    BY <1>3, ForwardFacts
  <2>4. ~finished
    BY <1>0, <2>1, Zenon DEF RelayEnds
  <2> QED
    BY <2>1, <2>2, <2>3, <2>4, Zenon DEF RelayEnds
<1>4. CASE RelayEnd
  <2>1. /\ finished /\ received = produced /\ pc = "relay_recv" /\ pc' = "close_target"
        /\ UNCHANGED <<produced, finished, forwarded, error, received>>
    BY <1>4, Zenon DEF RelayEnd, relayVars
  <2>2. RelayWhole'
    BY <1>0, <1>1, <1>4, <2>1, Zenon DEF RelayEnds, Elsewhere
  <2> QED
    BY <1>0, <2>1, <2>2, Zenon DEF RelayEnds
<1>5. CASE RelayReceiveFails
  <2>1. /\ error' = TRUE /\ pc = "relay_recv" /\ pc' = "close_target"
        /\ UNCHANGED <<produced, finished, forwarded>>
    BY <1>5, Zenon DEF RelayReceiveFails
  <2> QED
    BY <1>0, <2>1, Zenon DEF RelayEnds
<1>6. CASE RelaySendKilled
  <2>1. /\ pc = "relay_send" /\ pc' = "killed"
        /\ UNCHANGED <<produced, finished, forwarded>>
    BY <1>6, Zenon DEF RelaySendKilled
  <2>2. RelayWhole'
    BY <1>0, <1>1, <1>6, <2>1, Zenon DEF RelayEnds, Elsewhere
  <2> QED
    BY <1>0, <2>1, <2>2, Zenon DEF RelayEnds
<1>7. CASE CloseTarget \/ CloseClient
  <2>1. /\ pc \in {"close_target", "close_client"} /\ pc' \in {"close_client", "returned"}
        /\ UNCHANGED <<produced, finished, forwarded, error, received>>
    BY <1>7, Zenon DEF CloseTarget, CloseClient, relayVars
  <2>2. RelayWhole => RelayWhole'
    BY <1>1, <1>7, Zenon DEF Elsewhere
  <2> QED
    BY <1>0, <2>1, <2>2, Zenon DEF RelayEnds
<1>8. CASE TargetSends
  <2>1. /\ pc \in {"relay_recv", "relay_send"} /\ ~finished
        /\ UNCHANGED <<pc, finished, forwarded, error>>
    BY <1>8, Zenon DEF TargetSends
  <2>2. RelayWhole'
    BY <1>0, <1>1, <1>8, <2>1, Zenon DEF RelayEnds, Elsewhere
  <2> QED
    BY <1>0, <2>1, <2>2, Zenon DEF RelayEnds
<1>9. CASE TargetCloses
  <2>1. /\ pc \in {"relay_recv", "relay_send"} /\ (produced = ResponseLength \/ forwarded = NONE)
        /\ UNCHANGED <<pc, produced, forwarded, error>>
    BY <1>9, Zenon DEF TargetCloses
  <2>2. RelayWhole'
    BY <1>0, <1>1, <1>9, <2>1, Zenon DEF RelayEnds, Elsewhere
  <2> QED
    BY <1>0, <2>1, <2>2, Zenon DEF RelayEnds
<1>10. CASE ClientCloses
  <2>1. UNCHANGED <<pc, produced, finished, forwarded, error, received>>
    BY <1>10, Zenon DEF ClientCloses, relayVars
  <2>2. RelayWhole => RelayWhole'
    BY <1>1, <1>10, Zenon DEF Elsewhere
  <2> QED
    BY <1>0, <2>1, <2>2, Zenon DEF RelayEnds
<1>11. CASE RelayReceive
  <2>1. /\ pc = "relay_recv" /\ pc' = "relay_send"
        /\ UNCHANGED <<produced, finished, forwarded, error, interrupts, delivered>>
    BY <1>11, Zenon DEF RelayReceive
  <2>2. chunk = << >> /\ RelayWhole
    BY <1>0, <2>1, Zenon DEF RelayBytes, RelayEnds
  <2>3. PICK k \in 1..BUFFER_SIZE :
           chunk' = [j \in 1..k |-> received + j] /\ received' = received + k
    BY <1>11 DEF RelayReceive
  <2>4. k \in Nat
    BY <2>3, ConstantTypes
  <2>5. Len(chunk') = k
    BY <1>t, <2>3, <2>4, ChunkFacts
  <2>6. Len(chunk) = 0
    BY <2>2, EmptySeq
  <2>7. interrupts = 0 => Len(delivered) = received - Len(chunk)
    BY <2>2 DEF RelayWhole
  <2>8. received' = received + k
    BY <2>3
  <2>9. received' - Len(chunk') = received - Len(chunk)
    BY <1>t, <2>4, <2>5, <2>6, <2>8
  <2>10. RelayWhole'
    BY <2>1, <2>7, <2>9, Zenon DEF RelayWhole
  <2> QED
    BY <1>0, <2>1, <2>10, Zenon DEF RelayEnds
<1>12. CASE RelaySend
  <2>1. /\ pc = "relay_send" /\ pc' = "relay_recv" /\ chunk' = << >>
        /\ UNCHANGED <<produced, finished, forwarded, error, interrupts, received>>
    BY <1>12, Zenon DEF RelaySend
  <2>2. Len(chunk) \in 0..Len(chunk) /\ delivered' = delivered \o SubSeq(chunk, 1, Len(chunk))
    BY <1>0, <1>12, SendWhole
  <2>3. Len(chunk') = 0 /\ Len(delivered') = Len(delivered) + Len(chunk)
    BY <1>0, <2>1, <2>2, SendFacts
  <2>4. RelayWhole
    BY <1>0, <2>1, Zenon DEF RelayEnds
  <2>5. RelayWhole'
    BY <1>t, <2>1, <2>3, <2>4 DEF RelayWhole
  <2> QED
    BY <1>0, <2>1, <2>5, Zenon DEF RelayEnds
<1>13. CASE RelaySendShort
  <2>1. /\ pc = "relay_send" /\ pc' = "relay_recv" /\ Interrupt
        /\ UNCHANGED <<produced, finished, forwarded, error>>
    BY <1>13, Zenon DEF RelaySendShort
  <2>2. interrupts' # 0
    BY <1>0, <2>1, ConstantTypes DEF Interrupt, TypeOK
  <2>3. RelayWhole'
    BY <2>2 DEF RelayWhole
  <2> QED
    BY <1>0, <2>1, <2>3, Zenon DEF RelayEnds
<1>14. CASE RelaySendFails
  <2>1. /\ error' = TRUE /\ pc = "relay_send" /\ pc' = "close_target"
        /\ UNCHANGED <<produced, finished, forwarded>>
    BY <1>14, Zenon DEF RelaySendFails
  <2> QED
    BY <1>0, <2>1, Zenon DEF RelayEnds
<1> QED
  BY <1>2, <1>3, <1>4, <1>5, <1>6, <1>7, <1>8, <1>9, <1>10, <1>11, <1>12, <1>13, <1>14,
     NextSplit DEF Elsewhere

----------------------------------------------------------------------------
(* The theorems *)

\* Nothing that the invariant is about changes in a stuttering step.
LEMMA StutterHandler ==
    ASSUME HandlerInv, UNCHANGED vars
    PROVE  HandlerInv'
<1> USE DEF vars
<1>1. TypeOK'
  BY Zenon DEF HandlerInv, TypeOK
<1>2. SocketsAtReturn' /\ SocketsKept'
  BY Zenon DEF HandlerInv, SocketsAtReturn, SocketsKept
<1>3. RelayBytes' /\ RelayEnds'
  BY Zenon DEF HandlerInv, RelayKept, RelayBytes, RelayEnds, RelayWhole
<1> QED
  BY <1>1, <1>2, <1>3 DEF HandlerInv, RelayKept

\* handle_client_request closes every socket that connect_to_target_server
\* opened and, if it connected at all, the client's; the relay's buffer always
\* holds the last bytes received, after those that were delivered.
THEOREM HandlerInvariant == Spec => []HandlerInv
<1>1. Init => HandlerInv
  BY InitHandler
<1>2. HandlerInv /\ [Next]_vars => HandlerInv'
  <2> SUFFICES ASSUME HandlerInv, Next PROVE HandlerInv'
    BY StutterHandler
  <2>1. TypeOK' /\ SocketsKept' /\ RelayBytes' /\ RelayEnds'
    BY TypeStep, SocketsStep, BytesStep, EndsStep
  <2>2. addresses' \in Nat
    BY <2>1, ConstantTypes DEF TypeOK
  <2>3. SocketsAtReturn'
    BY <2>1, <2>2 DEF SocketsAtReturn, SocketsKept, Connected
  <2> QED
    BY <2>1, <2>3 DEF HandlerInv, RelayKept
<1> QED
  BY <1>1, <1>2, PTL DEF Spec

\* forward_response gives the client bytes of the response in their order, none
\* twice and none that was not received; without an interrupted call there is no
\* gap, and a relay that ends without an error has delivered the whole response.
THEOREM ResponseIsIntact == Spec => []ResponseIntact
<1>1. HandlerInv => ResponseIntact
  <2> SUFFICES ASSUME HandlerInv PROVE ResponseIntact
    OBVIOUS
  <2>0. TypeOK /\ RelayBytes /\ RelayEnds
    BY DEF HandlerInv, RelayKept
  <2>t. /\ received \in Nat /\ delivered \in Seq(Nat)
        /\ Len(chunk) \in Nat /\ Len(delivered) \in Nat
    BY <2>0, LenProperties, ConstantTypes DEF TypeOK
  <2>1. \A j \in 1..Len(delivered) : delivered[j] \in 1..received
    <3>1. /\ \A j \in 1..Len(delivered) : delivered[j] \in 1..(received - Len(chunk))
          /\ Len(chunk) <= received
      BY <2>0 DEF RelayBytes
    <3> QED
      BY <2>t, <3>1
  <2>2. \A j \in 2..Len(delivered) : delivered[j - 1] < delivered[j]
    <3> TAKE j \in 2..Len(delivered)
    <3>1. j - 1 \in 1..Len(delivered) /\ j \in 1..Len(delivered) /\ j - 1 < j
      BY <2>t
    <3> QED
      BY <2>0, <3>1 DEF RelayBytes
  <2>3. ASSUME interrupts = 0 PROVE delivered = Bytes(Len(delivered))
    <3>1. \A j \in 1..Len(delivered) : delivered[j] = j
      BY <2>0, <2>3 DEF RelayBytes
    <3>2. delivered \in [1..Len(delivered) -> Nat]
      BY <2>t, LenProperties
    <3> QED
      BY <3>1, <3>2 DEF Bytes
  <2>4. ASSUME interrupts = 0, pc \in {"close_target", "close_client"}, ~error
        PROVE  Len(delivered) = ResponseLength
    <3>1. RelayWhole /\ received = produced /\ produced = ResponseLength
      BY <2>0, <2>4, Zenon DEF RelayEnds
    <3>2. chunk = << >>
      BY <2>0, <2>4 DEF RelayBytes
    <3>3. Len(chunk) = 0
      BY <3>2, EmptySeq
    <3> QED
      BY <2>4, <2>t, <3>1, <3>3 DEF RelayWhole
  <2> QED
    BY <2>1, <2>2, <2>3, <2>4, Zenon DEF ResponseIntact
<1> QED
  BY <1>1, HandlerInvariant, PTL

----------------------------------------------------------------------------
(* The request *)

\* What an interrupted send lets through of a text.
BeginningOf(part, text) == \E k \in 1..(Len(text) - 1) : part = SubSeq(text, 1, k)

\* What the handler keeps of the request: the target is the one of a URL that sscanf
\* may have read in the buffer, and so is what was forwarded.
RequestKept ==
    /\ pc = "recv" => target = NONE /\ forwarded = NONE
    /\ target # NONE => \E url \in UrlRead(buffer) : Parsed(url) /\ target = HostAndPort(url)
    /\ forwarded # NONE => \E url \in UrlRead(buffer) :
          \/ forwarded = Rewritten(buffer, url)
          \/ interrupts > 0 /\ BeginningOf(forwarded, Rewritten(buffer, url))

\* Only parse_http_request and forward_request write target and forwarded, and the
\* buffer is written before both.
LEMMA RequestStep ==
    ASSUME TypeOK, RequestKept, [Next]_vars
    PROVE  RequestKept'
<1>0. interrupts > 0 => interrupts' > 0
  <2>1. interrupts' = interrupts \/ Interrupt
    BY Zenon DEF Next, vars, handle_client_request, receive_client_request, ReceiveFails,
          parse_http_request, connect_to_target_server, Resolve, Connect, ConnectFails,
          NoAddressLeft, forward_request, forward_response, RelayReceive, RelayEnd,
          RelayReceiveFails, RelaySend, RelaySendShort, RelaySendFails, RelaySendKilled,
          CloseTarget, CloseClient, TargetSends, TargetCloses, ClientCloses, outcome
  <2> QED
    BY <2>1, ConstantTypes DEF Interrupt, TypeOK
<1>1. CASE receive_client_request
  <2>1. target' = NONE /\ forwarded' = NONE
    BY <1>1 DEF receive_client_request, Goto, RequestKept
  <2> QED
    BY <2>1 DEF RequestKept
<1>2. CASE parse_http_request
  <2>1. /\ pc' # "recv" /\ buffer' = buffer /\ forwarded' = forwarded
        /\ UrlRead(buffer)' = UrlRead(buffer)
    BY <1>2 DEF parse_http_request, UrlRead, Url
  <2>2. target' = target \/ \E url \in UrlRead(buffer) : Parsed(url) /\ target' = HostAndPort(url)
    BY <1>2 DEF parse_http_request
  <2> QED
    BY <1>0, <2>1, <2>2 DEF RequestKept, Rewritten, Found, BeginningOf
<1>3. CASE forward_request
  <2>1. /\ pc' # "recv" /\ buffer' = buffer /\ target' = target
        /\ UrlRead(buffer)' = UrlRead(buffer)
    BY <1>3 DEF forward_request, Goto, frontVars, UrlRead, Url
  <2>2. \/ forwarded' = forwarded
        \/ \E url \in UrlRead(buffer) :
              \/ forwarded' = Rewritten(buffer, url)
              \/ interrupts' > 0 /\ BeginningOf(forwarded', Rewritten(buffer, url))
    <3>1. Interrupt => interrupts' > 0
      BY ConstantTypes DEF Interrupt, TypeOK
    <3> QED
      BY <1>3, <3>1, Zenon DEF forward_request, BeginningOf
  <2> QED
    BY <1>0, <2>1, <2>2 DEF RequestKept, Rewritten, Found, BeginningOf
<1>4. CASE UNCHANGED <<buffer, target, forwarded>> /\ (pc' = "recv" => pc = "recv")
  BY <1>0, <1>4 DEF RequestKept, UrlRead, Url, Rewritten, Found, BeginningOf
<1>5. CASE ReceiveFails
  BY <1>5, <1>4 DEF ReceiveFails, Goto, frontVars
<1>6. CASE connect_to_target_server
  BY <1>6, <1>4 DEF connect_to_target_server, Resolve, Connect, ConnectFails, NoAddressLeft,
                    Goto, frontVars
<1>7. CASE forward_response
  BY <1>7, <1>4 DEF forward_response, RelayReceive, RelayEnd, RelayReceiveFails, RelaySend,
                    RelaySendShort, RelaySendFails, RelaySendKilled, Goto, frontVars
<1>8. CASE CloseTarget \/ CloseClient
  BY <1>8, <1>4 DEF CloseTarget, CloseClient, Goto, frontVars
<1>9. CASE TargetSends \/ TargetCloses \/ ClientCloses
  BY <1>9, <1>4 DEF TargetSends, TargetCloses, ClientCloses, frontVars
<1>10. CASE UNCHANGED vars
  BY <1>10, <1>4 DEF vars
<1> QED
  BY <1>1, <1>2, <1>3, <1>5, <1>6, <1>7, <1>8, <1>9, <1>10 DEF Next, handle_client_request

\* The URL of a well-formed request is read as it is.
LEMMA WholeRequest ==
    ASSUME NEW r \in Requests
    PROVE  UrlRead(r) = {Url(r)} /\ WellFormed(r)
<1>1. WellFormed(r)
  BY HttpAssumption DEF HttpAssumption
<1>2. Url(r) # {}
  BY <1>1 DEF WellFormed, Url
<1> QED
  BY <1>1, <1>2 DEF UrlRead

\* HostAndPort finds the host and the port of a well-formed URL.
LEMMA TargetOfUrl ==
    ASSUME NEW r \in Requests, Parsed(Url(r))
    PROVE  /\ HostAndPort(Url(r))[1] = {"ho", "st"} /\ Contains(r, "http://")
           /\ Contains(r, "st")
           /\ HostAndPort(Url(r))[2] = IF Contains(r, "port") THEN "port" ELSE Default
<1> DEFINE url == Url(r)
<1>1. \A p \in UrlPieces : p \in url <=> Contains(r, p)
  BY DEF Url
<1>2. {"http://", "ho", "st", ":", "port"} \subseteq UrlPieces
  BY DEF UrlPieces, Authority, Host
<1>3. /\ "ho" \in url <=> "st" \in url
      /\ ":" \in url <=> "port" \in url
      /\ ":" \in url => "st" \in url
  BY <1>1, <1>2, WholeRequest DEF WellFormed
<1> HIDE DEF url
<1>4. CASE ":" \in url
  <2>1. url \cap Host = {"ho", "st"}
    BY <1>3, <1>4 DEF Host
  <2>2. HostAndPort(url) = <<{"ho", "st"}, "port">>
    BY <1>3, <1>4, <2>1 DEF HostAndPort
  <2> QED
    BY <1>1, <1>2, <1>3, <1>4, <2>2 DEF Parsed, IsHttp, url
<1>5. CASE ":" \notin url
  <2>1. HostAndPort(url) = <<url \cap Authority, Default>>
    BY <1>5 DEF HostAndPort
  <2>2. url \cap Authority # {} /\ "http://" \in url
    BY <2>1 DEF Parsed, IsHttp, url
  <2>3. "st" \in url /\ url \cap Authority = {"ho", "st"}
    BY <2>2, <1>3, <1>5 DEF Authority, Host
  <2> QED
    BY <1>1, <1>2, <1>3, <1>5, <2>1, <2>2, <2>3 DEF url
<1> QED
  BY <1>4, <1>5

\* In any case HostAndPort takes its host from the URL and its port from there or the
\* default.
LEMMA TargetType ==
    ASSUME NEW url
    PROVE  HostAndPort(url)[1] \subseteq Authority /\ HostAndPort(url)[2] \in {"port", Default}
<1>1. Host \subseteq Authority
  BY DEF Authority
<1> QED
  BY <1>1 DEF HostAndPort

\* The pieces of a rewritten request: the method, and what follows it.
LEMMA JoinFirst ==
    ASSUME NEW v, NEW x, NEW y
    PROVE  <<v>> \o <<x, y>> = <<v, x, y>>
<1> DEFINE S == {v, x, y}
           s == <<v>> \o <<x, y>>
<1>1. <<v>> \in Seq(S) /\ <<x, y>> \in Seq(S) /\ Len(<<v>>) = 1 /\ Len(<<x, y>>) = 2
  OBVIOUS
<1>2. s \in Seq(S) /\ Len(s) = 3
  BY <1>1, ConcatProperties
<1>3. s[1] = v /\ s[2] = x /\ s[3] = y
  BY <1>1, ConcatProperties
<1>4. <<v, x, y>> \in Seq(S) /\ Len(<<v, x, y>>) = 3
  OBVIOUS
<1> HIDE DEF s
<1>5. \A i \in 1..3 : s[i] = <<v, x, y>>[i]
  <2>1. \A i \in 1..3 : i = 1 \/ i = 2 \/ i = 3
    OBVIOUS
  <2> QED
    BY <2>1, <1>3
<1>6. s = <<v, x, y>>
  BY <1>2, <1>4, <1>5, SeqEqual
<1> QED
  BY <1>6 DEF s

\* What comes before the headers, and the headers.
LEMMA JoinLast ==
    ASSUME NEW x, NEW y, NEW w
    PROVE  <<x, y>> \o <<w>> = <<x, y, w>>
<1> DEFINE S == {x, y, w}
           s == <<x, y>> \o <<w>>
<1>1. <<x, y>> \in Seq(S) /\ <<w>> \in Seq(S) /\ Len(<<x, y>>) = 2 /\ Len(<<w>>) = 1
  OBVIOUS
<1>2. s \in Seq(S) /\ Len(s) = 3
  BY <1>1, ConcatProperties
<1>3. s[1] = x /\ s[2] = y /\ s[3] = w
  BY <1>1, ConcatProperties
<1>4. <<x, y, w>> \in Seq(S) /\ Len(<<x, y, w>>) = 3
  OBVIOUS
<1> HIDE DEF s
<1>5. \A i \in 1..3 : s[i] = <<x, y, w>>[i]
  <2>1. \A i \in 1..3 : i = 1 \/ i = 2 \/ i = 3
    OBVIOUS
  <2> QED
    BY <2>1, <1>3
<1>6. s = <<x, y, w>>
  BY <1>2, <1>4, <1>5, SeqEqual
<1> QED
  BY <1>6 DEF s

\* The same with the method.
LEMMA JoinBoth ==
    ASSUME NEW v, NEW x, NEW y, NEW w
    PROVE  <<v, x, y>> \o <<w>> = <<v, x, y, w>>
<1> DEFINE S == {v, x, y, w}
           s == <<v, x, y>> \o <<w>>
<1>1. <<v, x, y>> \in Seq(S) /\ <<w>> \in Seq(S) /\ Len(<<v, x, y>>) = 3 /\ Len(<<w>>) = 1
  OBVIOUS
<1>2. s \in Seq(S) /\ Len(s) = 4
  BY <1>1, ConcatProperties
<1>3. s[1] = v /\ s[2] = x /\ s[3] = y /\ s[4] = w
  BY <1>1, ConcatProperties
<1>4. <<v, x, y, w>> \in Seq(S) /\ Len(<<v, x, y, w>>) = 4
  OBVIOUS
<1> HIDE DEF s
<1>5. \A i \in 1..4 : s[i] = <<v, x, y, w>>[i]
  <2>1. \A i \in 1..4 : i = 1 \/ i = 2 \/ i = 3 \/ i = 4
    OBVIOUS
  <2> QED
    BY <2>1, <1>3
<1>6. s = <<v, x, y, w>>
  BY <1>2, <1>4, <1>5, SeqEqual
<1> QED
  BY <1>6 DEF s

\* A short sequence contains what it lists.
LEMMA ContainsListed ==
    ASSUME NEW a, NEW b, NEW c, NEW d, NEW p
    PROVE  /\ Contains(<<a, b>>, p) => p \in {a, b}
           /\ Contains(<<a, b, c>>, p) => p \in {a, b, c}
           /\ Contains(<<a, b, c, d>>, p) => p \in {a, b, c, d}
BY DEF Contains

\* The pieces that forward_request may send, and texts of them.
Sendable == {"method", "/path", "/", "protocol", "garbage", "headers"}

\* A tuple of elements of a set is a sequence over the set.
LEMMA ListedSeq ==
    ASSUME NEW S, NEW a \in S, NEW b \in S, NEW c \in S, NEW d \in S
    PROVE  <<a, b>> \in Seq(S) /\ <<a, b, c>> \in Seq(S) /\ <<a, b, c, d>> \in Seq(S)
OBVIOUS

\* What forward_request sends.
LEMMA RewrittenFacts ==
    ASSUME NEW text, NEW url
    PROVE  /\ \A p \in {"method", "headers"} :
                 Contains(Rewritten(text, url), p) => Contains(text, p)
           /\ (\A p \in {"method", "protocol", "headers"} : Contains(text, p)) =>
                 Rewritten(text, url) = <<"method", IF "/path" \in url THEN "/path" ELSE "/",
                                          "protocol", "headers">>
           /\ Rewritten(text, url) \in Seq(Sendable)
<1> DEFINE a == IF "/path" \in url THEN "/path" ELSE "/"
           b == IF Contains(text, "protocol") THEN "protocol" ELSE "garbage"
           M == Contains(text, "method")
           H == Contains(text, "headers")
<1>1. a \notin {"method", "headers"} /\ b \notin {"method", "headers"}
  OBVIOUS
<1>a. a \in Sendable /\ b \in Sendable /\ "method" \in Sendable /\ "headers" \in Sendable
  BY DEF Sendable
<1>2. Rewritten(text, url) = (IF M THEN <<"method">> ELSE << >>) \o <<a, b>>
                             \o (IF H THEN <<"headers">> ELSE << >>)
  BY DEF Rewritten, Found
<1>3. \A x, y, v, w :
         /\ << >> \o <<x, y>> \o << >> = <<x, y>>
         /\ <<v>> \o <<x, y>> \o << >> = <<v, x, y>>
         /\ << >> \o <<x, y>> \o <<w>> = <<x, y, w>>
         /\ <<v>> \o <<x, y>> \o <<w>> = <<v, x, y, w>>
  <2> TAKE x, y, v, w
  <2>1. << >> \o <<x, y>> = <<x, y>> /\ <<x, y>> \o << >> = <<x, y>>
    OBVIOUS
  <2>2. <<v, x, y>> \o << >> = <<v, x, y>>
    OBVIOUS
  <2>3. <<v>> \o <<x, y>> = <<v, x, y>>
    BY JoinFirst
  <2>4. <<x, y>> \o <<w>> = <<x, y, w>>
    BY JoinLast
  <2>5. <<v, x, y>> \o <<w>> = <<v, x, y, w>>
    BY JoinBoth
  <2> QED
    BY <2>1, <2>2, <2>3, <2>4, <2>5, Zenon
<1> HIDE DEF a, b, M, H
<1>4. CASE M /\ H
  <2>1. Rewritten(text, url) = <<"method", a, b, "headers">>
    BY <1>2, <1>3, <1>4
  <2>2. /\ a = IF "/path" \in url THEN "/path" ELSE "/"
        /\ Contains(text, "protocol") => b = "protocol"
    BY DEF a, b
  <2>3. Rewritten(text, url) \in Seq(Sendable)
    BY <1>a, <2>1, ListedSeq, Zenon
  <2> QED
    BY <1>4, <2>1, <2>2, <2>3, Zenon DEF M, H
<1>5. CASE M /\ ~H
  <2>1. Rewritten(text, url) = <<"method", a, b>>
    BY <1>2, <1>3, <1>5
  <2>2. ~Contains(Rewritten(text, url), "headers")
    <3>1. Contains(<<"method", a, b>>, "headers") => "headers" \in {"method", a, b}
      BY ContainsListed
    <3> QED
      BY <1>1, <2>1, <3>1
  <2>3. Rewritten(text, url) \in Seq(Sendable)
    BY <1>a, <2>1, ListedSeq, Zenon
  <2> QED
    BY <1>5, <2>2, <2>3 DEF M, H
<1>6. CASE ~M /\ H
  <2>1. Rewritten(text, url) = <<a, b, "headers">>
    BY <1>2, <1>3, <1>6
  <2>2. ~Contains(Rewritten(text, url), "method")
    <3>1. Contains(<<a, b, "headers">>, "method") => "method" \in {a, b, "headers"}
      BY ContainsListed
    <3> QED
      BY <1>1, <2>1, <3>1
  <2>3. Rewritten(text, url) \in Seq(Sendable)
    BY <1>a, <2>1, ListedSeq, Zenon
  <2> QED
    BY <1>6, <2>2, <2>3 DEF M, H
<1>7. CASE ~M /\ ~H
  <2>1. Rewritten(text, url) = <<a, b>>
    BY <1>2, <1>3, <1>7
  <2>2. ~Contains(Rewritten(text, url), "method") /\ ~Contains(Rewritten(text, url), "headers")
    <3>1. \A p \in {"method", "headers"} : Contains(<<a, b>>, p) => p \in {a, b}
      BY ContainsListed
    <3> QED
      BY <1>1, <2>1, <3>1
  <2>3. Rewritten(text, url) \in Seq(Sendable)
    BY <1>a, <2>1, ListedSeq, Zenon
  <2> QED
    BY <1>7, <2>2, <2>3 DEF M, H
<1> QED
  BY <1>4, <1>5, <1>6, <1>7

\* A beginning of a text has no piece that the text has not.
LEMMA BeginningFacts ==
    ASSUME NEW text \in Seq(Sendable), NEW part, BeginningOf(part, text)
    PROVE  \A p : Contains(part, p) => Contains(text, p)
<1>1. PICK k \in 1..(Len(text) - 1) : part = SubSeq(text, 1, k)
  BY DEF BeginningOf
<1>2. Len(text) \in Nat /\ k \in Nat /\ 1 <= k /\ k < Len(text)
  BY <1>1, LenProperties
<1>3. /\ Len(part) = k
      /\ \A i \in 1..k : part[i] = text[i]
  BY <1>1, <1>2, SubSeqProperties
<1> QED
  BY <1>2, <1>3 DEF Contains

\* parse_http_request, connect_to_target_server and forward_request: of a request
\* that recv returned whole, the host and the port of its URL are connected to, and
\* the target is sent its method, path, protocol and headers and nothing else, or
\* the beginning of them that an interrupted send let through.
THEOREM RequestIsIntact == Spec => []RequestIntact
<1>1. Init => RequestKept
  BY DEF Init, RequestKept
<1>2. HandlerInv /\ RequestKept /\ [Next]_vars => RequestKept'
  BY RequestStep DEF HandlerInv
<1>3. HandlerInv /\ RequestKept => RequestIntact
  <2> SUFFICES ASSUME HandlerInv, RequestKept PROVE RequestIntact
    OBVIOUS
  <2>0. request \in Requests
    BY DEF HandlerInv, TypeOK
  <2>1. NamedTarget
    <3> SUFFICES ASSUME target # NONE PROVE /\ target[1] \subseteq Authority
                                            /\ target[2] \in {"port", Default}
                                            /\ buffer = request =>
                                                 /\ target[1] = {"ho", "st"}
                                                 /\ Contains(request, "http://")
                                                 /\ Contains(request, "st")
                                                 /\ target[2] = IF Contains(request, "port")
                                                                THEN "port" ELSE Default
      BY DEF NamedTarget
    <3>1. PICK url \in UrlRead(buffer) : Parsed(url) /\ target = HostAndPort(url)
      BY DEF RequestKept
    <3>2. buffer = request => url = Url(request)
      BY <2>0, <3>1, WholeRequest
    <3> QED
      BY <2>0, <3>1, <3>2, TargetOfUrl, TargetType
  <2>2. ForwardsPath
    <3> SUFFICES ASSUME forwarded # NONE
                 PROVE  /\ buffer = request =>
                             /\ \E k \in 1..4 : forwarded = SubSeq(OriginForm(request), 1, k)
                             /\ interrupts = 0 => forwarded = OriginForm(request)
                        /\ \A p \in {"method", "headers"} :
                              Contains(forwarded, p) => Contains(buffer, p)
      BY DEF ForwardsPath
    <3>1. PICK url \in UrlRead(buffer) :
             \/ forwarded = Rewritten(buffer, url)
             \/ interrupts > 0 /\ BeginningOf(forwarded, Rewritten(buffer, url))
      BY DEF RequestKept
    <3>2. ASSUME buffer = request
          PROVE  /\ url = Url(request) /\ WellFormed(request)
                 /\ "/path" \in url <=> Contains(request, "/path")
      BY <2>0, <3>1, <3>2, WholeRequest DEF Url, UrlPieces
    <3>3. ASSUME buffer = request
          PROVE  \A p \in {"method", "protocol", "headers"} : Contains(buffer, p)
      BY <3>2, <3>3 DEF WellFormed
    <3>4. ASSUME buffer = request PROVE Rewritten(buffer, url) = OriginForm(request)
      BY <3>2, <3>3, <3>4, RewrittenFacts DEF OriginForm
    <3>5. /\ OriginForm(request) \in Seq(Sendable) /\ Len(OriginForm(request)) = 4
          /\ SubSeq(OriginForm(request), 1, 4) = OriginForm(request)
      <4> DEFINE x == IF Contains(request, "/path") THEN "/path" ELSE "/"
      <4>1. /\ x \in Sendable /\ "method" \in Sendable /\ "protocol" \in Sendable
            /\ "headers" \in Sendable
        BY DEF Sendable
      <4> HIDE DEF x
      <4>2. OriginForm(request) = <<"method", x, "protocol", "headers">>
        BY DEF OriginForm, x
      <4>3. <<"method", x, "protocol", "headers">> \in Seq(Sendable)
        BY <4>1, ListedSeq, Zenon
      <4>4. Len(<<"method", x, "protocol", "headers">>) = 4
        OBVIOUS
      <4>5. /\ OriginForm(request) \in Seq(Sendable) /\ Len(OriginForm(request)) = 4
        BY <4>2, <4>3, <4>4, Zenon
      <4> QED
        BY <4>5, SubSeqFull, Zenon
    <3>6. \A p : Contains(forwarded, p) => Contains(Rewritten(buffer, url), p)
      <4>1. Rewritten(buffer, url) \in Seq(Sendable)
        BY RewrittenFacts
      <4> QED
        BY <3>1, <4>1, BeginningFacts
    <3>7. \A p \in {"method", "headers"} : Contains(forwarded, p) => Contains(buffer, p)
      BY <3>6, RewrittenFacts
    <3>8. ASSUME buffer = request
          PROVE  /\ \E k \in 1..4 : forwarded = SubSeq(OriginForm(request), 1, k)
                 /\ interrupts = 0 => forwarded = OriginForm(request)
      <4>1. CASE forwarded = Rewritten(buffer, url)
        BY <3>4, <3>5, <3>8, <4>1
      <4>2. CASE interrupts > 0 /\ BeginningOf(forwarded, Rewritten(buffer, url))
        BY <3>4, <3>5, <3>8, <4>2 DEF BeginningOf
      <4> QED
        BY <3>1, <4>1, <4>2
    <3> QED
      BY <3>7, <3>8
  <2> QED
    BY <2>1, <2>2 DEF RequestIntact
<1> QED
  BY <1>1, <1>2, <1>3, HandlerInvariant, PTL DEF Spec
=============================================================================
