-------------------------- MODULE DeviceAccessProofs --------------------------
(***************************************************************************)
(* Proofs about DeviceAccess for any set of boxes and any budgets: types,  *)
(* one token per pairing code, no claim of a deleted device, and the hub's *)
(* hold on the open socket.                                                *)
(***************************************************************************)
EXTENDS DeviceAccess, TLAPS

-------------------------------------------------------------------------------
(* The inductive invariant.                                                *)

\* No row, request or environment file names a code that was not generated yet.
CodesAreIssued ==
  /\ device.code <= codes
  /\ \A b \in Boxes : box[b].code <= codes /\ claim[b].code <= codes

\* A request that has taken a code is the only one to have it: the row has another one, or none,
\* and no other request and no token comes from it.
TakenOnce ==
  \A b \in Boxes : claim[b].st = "claimed" =>
    /\ claim[b].code # NoCode /\ claim[b].code # device.code
    /\ \A c \in Boxes : claim[c].st = "claimed" /\ claim[c].code = claim[b].code => c = b
    /\ \A t \in DOMAIN tokens : tokens[t].code # claim[b].code

\* The code of a token is an old one, and no other token has it.
TokensOnce ==
  \A t \in DOMAIN tokens :
    /\ tokens[t].code # NoCode /\ tokens[t].code # device.code
    /\ tokens[t].code <= codes
    /\ \A u \in DOMAIN tokens : tokens[t].code = tokens[u].code => t = u

\* A code that was found is not that of a deleted device: the deletion took it, and a code
\* written after the deletion is a new one, which no request can find.
FoundIsGone ==
  device.deleted => \A b \in Boxes : claim[b].st = "found" => ~Codable(claim[b].code)

PairingInv == CodesAreIssued /\ TakenOnce /\ TokensOnce /\ FoundIsGone

AccessInv == TypeOK /\ PairingInv /\ HubHoldsTheOpenSocket

-------------------------------------------------------------------------------
(* Types.                                                                  *)

\* Spending one event leaves the budget a budget.
LEMMA SpendType ==
  ASSUME TypeOK, NEW kind \in Events, Spend(kind)
  PROVE  left' \in [Events -> Nat]
<1>1. left \in [Events -> Nat] /\ left[kind] \in Nat /\ left[kind] > 0
  BY DEF TypeOK, Spend
<1> QED
  BY <1>1 DEF Spend

TokenRows == Seq([code : Nat, revoked : BOOLEAN])

\* The types of what pairing changes.
PairTypes ==
  /\ device \in [code : Nat, expired : BOOLEAN, deleted : BOOLEAN]
  /\ codes \in Nat
  /\ regen \in BOOLEAN
  /\ tokens \in TokenRows
  /\ claim \in [Boxes -> [st : ClaimStages, code : Nat, token : Nat]]
  /\ box \in [Boxes -> [pc : BoxStages, code : Nat, disk : Nat, token : Nat]]

WireTypes ==
  /\ link \in [Boxes -> {"off", "timer", "dialing", "open"}]
  /\ srv \in [Boxes -> [Ends -> SocketStates]]
  /\ hub \in {<<>>} \union (Boxes \X Ends)
  /\ hello \in SUBSET [box : Boxes, known : Nat]
  /\ wire \in SUBSET Boxes

NewsTypes ==
  /\ version \in Nat
  /\ known \in [Boxes -> Nat]
  /\ told \in SUBSET Boxes
  /\ run \in [Boxes -> Nat]
  /\ unsent \in BOOLEAN
  /\ missed \in [Boxes -> BOOLEAN]

\* TypeOK, in the three parts that the steps below change separately.
LEMMA TypeParts == TypeOK <=> PairTypes /\ WireTypes /\ NewsTypes /\ left \in [Events -> Nat]
  BY DEF TypeOK, PairTypes, WireTypes, NewsTypes, TokenRows

\* The same of the next state.
LEMMA TypePartsNext ==
  TypeOK' <=> PairTypes' /\ WireTypes' /\ NewsTypes' /\ left' \in [Events -> Nat]
  BY DEF TypeOK, PairTypes, WireTypes, NewsTypes, TokenRows

\* The initial state is well typed.
LEMMA InitType == Init => TypeOK
<1> SUFFICES ASSUME Init PROVE TypeOK
  OBVIOUS
<1>1. PairTypes
  <2>1. device \in [code : Nat, expired : BOOLEAN, deleted : BOOLEAN] /\ codes \in Nat
    BY DEF Init
  <2>2. tokens \in TokenRows
    BY DEF Init, TokenRows
  <2>3. claim \in [Boxes -> [st : ClaimStages, code : Nat, token : Nat]]
    BY DEF Init, Idle, NoCode, NoToken, ClaimStages
  <2>4. box \in [Boxes -> [pc : BoxStages, code : Nat, disk : Nat, token : Nat]]
    BY DEF Init, NoCode, NoToken, BoxStages
  <2> QED
    BY <2>1, <2>2, <2>3, <2>4 DEF Init, PairTypes
<1>2. WireTypes
  BY DEF Init, WireTypes, SocketStates, Ends
<1>3. NewsTypes
  <2>1. (CHOOSE v \in Versions : TRUE) \in Nat
    BY AccessAssumption
  <2> QED
    BY <2>1 DEF Init, NewsTypes, NoManifest
<1>4. left \in [Events -> Nat]
  BY AccessAssumption DEF Init
<1> QED
  BY <1>1, <1>2, <1>3, <1>4, TypeParts

\* Of a sequence, and of a function that is one.
LEMMA SeqElements ==
  ASSUME NEW T, NEW s \in Seq(T)
  PROVE  /\ Len(s) \in Nat /\ DOMAIN s = 1..Len(s)
         /\ \A t \in DOMAIN s : s[t] \in T
  OBVIOUS

\* A function on 1..n is a sequence.
LEMMA SeqOfFunction ==
  ASSUME NEW T, NEW n \in Nat, NEW s \in [1..n -> T]
  PROVE  s \in Seq(T)
  OBVIOUS

\* What a token row is.
LEMMA TokensType ==
  ASSUME TypeOK
  PROVE  /\ Len(tokens) \in Nat /\ DOMAIN tokens = 1..Len(tokens)
         /\ \A t \in DOMAIN tokens : tokens[t] \in [code : Nat, revoked : BOOLEAN]
<1>1. tokens \in TokenRows
  BY TypeParts DEF PairTypes
<1> QED
  BY <1>1, SeqElements, Zenon DEF TokenRows

\* Revoking tokens leaves a sequence of tokens.
LEMMA AllRevokedType ==
  ASSUME TypeOK
  PROVE  /\ AllRevoked \in TokenRows
         /\ DOMAIN AllRevoked = DOMAIN tokens
         /\ \A t \in DOMAIN tokens : AllRevoked[t].code = tokens[t].code
<1>2. \A t \in DOMAIN tokens : /\ AllRevoked[t].code = tokens[t].code
                              /\ AllRevoked[t] \in [code : Nat, revoked : BOOLEAN]
  BY TokensType DEF AllRevoked
<1>3. AllRevoked \in [1..Len(tokens) -> [code : Nat, revoked : BOOLEAN]] /\ Len(tokens) \in Nat
  BY TokensType, <1>2 DEF AllRevoked
<1>4. AllRevoked \in TokenRows
  BY <1>3, SeqOfFunction, Zenon DEF TokenRows
<1> QED
  BY <1>2, <1>4 DEF AllRevoked

\* And so does issuing one.
LEMMA AppendType ==
  ASSUME TypeOK, NEW r \in [code : Nat, revoked : BOOLEAN]
  PROVE  Append(tokens, r) \in TokenRows
<1> DEFINE T == [code : Nat, revoked : BOOLEAN]
<1>1. tokens \in Seq(T) /\ r \in T
  BY TypeParts DEF PairTypes, TokenRows
<1> HIDE DEF T
<1>2. Append(tokens, r) \in Seq(T)
  BY <1>1
<1> QED
  BY <1>2 DEF TokenRows, T

\* A new code, or none, in the row.
LEMMA CodeWritten ==
  ASSUME TypeOK, NEW c \in Nat, device' = [device EXCEPT !.code = c, !.expired = FALSE]
  PROVE  device' \in [code : Nat, expired : BOOLEAN, deleted : BOOLEAN]
<1>1. device \in [code : Nat, expired : BOOLEAN, deleted : BOOLEAN]
  BY TypeParts DEF PairTypes
<1>2. device' = [code |-> c, expired |-> FALSE, deleted |-> device.deleted]
  BY <1>1
<1> QED
  BY <1>1, <1>2

\* The dashboard keeps the types.
LEMMA DashboardType == ASSUME TypeOK, Dashboard PROVE TypeOK'
<1> USE TypeParts, TypePartsNext
<1>1. CASE ReadDevice
  <2>1. left' \in [Events -> Nat]
    BY <1>1, SpendType DEF ReadDevice, Events
  <2> QED
    BY <1>1, <2>1 DEF ReadDevice, wireVars, newsVars, PairTypes, WireTypes, NewsTypes
<1>2. CASE WriteCode
  <2>1. device' \in [code : Nat, expired : BOOLEAN, deleted : BOOLEAN]
    <3>1. codes + 1 \in Nat
      BY DEF PairTypes
    <3> QED
      BY <1>2, <3>1, CodeWritten DEF WriteCode
  <2> QED
    BY <1>2, <2>1 DEF WriteCode, wireVars, newsVars, PairTypes, WireTypes, NewsTypes
<1>3. CASE CodeExpires
  <2>1. left' \in [Events -> Nat]
    BY <1>3, SpendType DEF CodeExpires, Events
  <2> QED
    BY <1>3, <2>1 DEF CodeExpires, wireVars, newsVars, PairTypes, WireTypes, NewsTypes
<1>4. CASE RevokeToken
  <2>1. left' \in [Events -> Nat]
    BY <1>4, SpendType DEF RevokeToken, Events
  <2> QED
    BY <1>4, <2>1, AllRevokedType DEF RevokeToken, wireVars, newsVars, PairTypes, WireTypes, NewsTypes
<1>5. CASE DeleteDevice
  <2>1. left' \in [Events -> Nat]
    BY <1>5, SpendType DEF DeleteDevice, Events
  <2> QED
    BY <1>5, <2>1, AllRevokedType
    DEF DeleteDevice, wireVars, newsVars, PairTypes, WireTypes, NewsTypes, NoCode
<1>6. CASE ChangeContent
  <2>1. left' \in [Events -> Nat]
    BY <1>6, SpendType DEF ChangeContent, Events
  <2>2. version' \in Nat
    BY <1>6, AccessAssumption DEF ChangeContent
  <2> QED
    BY <1>6, <2>1, <2>2 DEF ChangeContent, pairVars, wireVars, PairTypes, WireTypes, NewsTypes
<1> QED
  BY <1>1, <1>2, <1>3, <1>4, <1>5, <1>6 DEF Dashboard

\* What a box does next is the only thing that changes of it.
LEMMA StageWritten ==
  ASSUME TypeOK, NEW b \in Boxes, NEW stage \in BoxStages, box' = [box EXCEPT ![b].pc = stage]
  PROVE  /\ box' \in [Boxes -> [pc : BoxStages, code : Nat, disk : Nat, token : Nat]]
         /\ \A c \in Boxes : box'[c].code = box[c].code
<1>1. box \in [Boxes -> [pc : BoxStages, code : Nat, disk : Nat, token : Nat]]
  BY TypeParts DEF PairTypes
<1> QED
  BY <1>1

\* The credentials a box has got in memory.
LEMMA TokenReceived ==
  ASSUME TypeOK, NEW b \in Boxes, NEW n \in Nat,
         box' = [box EXCEPT ![b].pc = "saving", ![b].token = n]
  PROVE  box' \in [Boxes -> [pc : BoxStages, code : Nat, disk : Nat, token : Nat]]
<1> DEFINE Box == [pc : BoxStages, code : Nat, disk : Nat, token : Nat]
           half == [box[b] EXCEPT !.pc = "saving"]
           new == [half EXCEPT !.token = n]
<1>1. box \in [Boxes -> Box] /\ box[b] \in Box /\ "saving" \in BoxStages
  BY TypeParts DEF PairTypes, BoxStages
<1>2. half = [pc |-> "saving", code |-> box[b].code, disk |-> box[b].disk, token |-> box[b].token]
  BY <1>1
<1>3. box' = [box EXCEPT ![b] = new]
  BY <1>1
<1> HIDE DEF half
<1>4. new = [pc |-> "saving", code |-> box[b].code, disk |-> box[b].disk, token |-> n]
  BY <1>2
<1> HIDE DEF new
<1>5. new \in Box
  BY <1>1, <1>4
<1> HIDE DEF Box
<1>6. box' \in [Boxes -> Box]
  BY <1>1, <1>3, <1>5
<1> QED
  BY <1>6 DEF Box

\* So do the requests of a box that pairs,
LEMMA PairingType == ASSUME TypeOK, NEW b \in Boxes, PairingStep(b) PROVE TypeOK'
<1> USE TypeParts, TypePartsNext
<1>1. CASE FindCode(b)
  <2>1. claim' \in [Boxes -> [st : ClaimStages, code : Nat, token : Nat]]
    BY <1>1 DEF FindCode, PairTypes, ClaimStages
  <2> QED
    BY <1>1, <2>1 DEF FindCode, wireVars, newsVars, PairTypes, WireTypes, NewsTypes
<1>2. CASE ClaimCode(b)
  <2>1. claim' \in [Boxes -> [st : ClaimStages, code : Nat, token : Nat]]
    BY <1>2 DEF ClaimCode, PairTypes, ClaimStages
  <2>2. device' \in [code : Nat, expired : BOOLEAN, deleted : BOOLEAN]
    <3>1. NoCode \in Nat
      BY DEF NoCode
    <3>2. CASE Codable(claim[b].code)
      BY <1>2, <3>1, <3>2, CodeWritten DEF ClaimCode
    <3>3. CASE ~Codable(claim[b].code)
      BY <1>2, <3>3 DEF ClaimCode, PairTypes
    <3> QED
      BY <3>2, <3>3
  <2> QED
    BY <1>2, <2>1, <2>2 DEF ClaimCode, wireVars, newsVars, PairTypes, WireTypes, NewsTypes
<1>3. CASE CreateToken(b)
  <2>0. claim[b] \in [st : ClaimStages, code : Nat, token : Nat] /\ Len(tokens) + 1 \in Nat
    BY TokensType DEF PairTypes
  <2>r. [code |-> claim[b].code, revoked |-> FALSE] \in [code : Nat, revoked : BOOLEAN]
    BY <2>0
  <2>1. tokens' \in TokenRows
    BY <1>3, <2>r, AppendType DEF CreateToken
  <2>2. claim' \in [Boxes -> [st : ClaimStages, code : Nat, token : Nat]]
    BY <1>3, <2>0 DEF CreateToken, PairTypes, ClaimStages
  <2> QED
    BY <1>3, <2>1, <2>2 DEF CreateToken, wireVars, newsVars, PairTypes, WireTypes, NewsTypes
<1>4. CASE AnswerPair(b)
  <2>1. claim' \in [Boxes -> [st : ClaimStages, code : Nat, token : Nat]]
    BY <1>4 DEF AnswerPair, PairTypes, ClaimStages, Idle, NoCode, NoToken
  <2>2. box' \in [Boxes -> [pc : BoxStages, code : Nat, disk : Nat, token : Nat]]
    <3>1. CASE box[b].pc # "asking"
      BY <1>4, <3>1 DEF AnswerPair, PairTypes
    <3>2. CASE box[b].pc = "asking" /\ claim[b].st = "granted"
      <4>1. claim[b].token \in Nat
        BY DEF PairTypes
      <4>2. box' = [box EXCEPT ![b].pc = "saving", ![b].token = claim[b].token]
        BY <1>4, <3>2 DEF AnswerPair
      <4> QED
        BY <4>1, <4>2, TokenReceived
    <3>3. CASE box[b].pc = "asking" /\ claim[b].st # "granted"
      <4>1. "pausing" \in BoxStages
        BY DEF BoxStages
      <4>2. box' = [box EXCEPT ![b].pc = "pausing"]
        BY <1>4, <3>3 DEF AnswerPair
      <4> QED
        BY <4>1, <4>2, StageWritten
    <3> QED
      BY <3>1, <3>2, <3>3
  <2> QED
    BY <1>4, <2>1, <2>2 DEF AnswerPair, wireVars, newsVars, PairTypes, WireTypes, NewsTypes
<1> QED
  BY <1>1, <1>2, <1>3, <1>4 DEF PairingStep

\* The credentials on disk.
LEMMA DiskWritten ==
  ASSUME TypeOK, NEW b \in Boxes, SaveCredentials(b)
  PROVE  /\ box' \in [Boxes -> [pc : BoxStages, code : Nat, disk : Nat, token : Nat]]
         /\ \A c \in Boxes : box'[c].code = box[c].code
<1> DEFINE Box == [pc : BoxStages, code : Nat, disk : Nat, token : Nat]
           new == [box[b] EXCEPT !.pc = "running", !.disk = box[b].token]
<1>1. box \in [Boxes -> Box]
  BY TypeParts DEF PairTypes
<1>2. box[b] \in Box
  BY <1>1
<1>3. new \in Box /\ new.code = box[b].code
  <2>1. new = [pc |-> "running", code |-> box[b].code, disk |-> box[b].token, token |-> box[b].token]
    <3> DEFINE half == [box[b] EXCEPT !.pc = "running"]
    <3>1. half = [pc |-> "running", code |-> box[b].code, disk |-> box[b].disk, token |-> box[b].token]
      BY <1>2
    <3>2. new = [half EXCEPT !.disk = box[b].token]
      OBVIOUS
    <3> HIDE DEF half
    <3> QED
      BY <3>1, <3>2
  <2>2. "running" \in BoxStages
    BY DEF BoxStages
  <2> HIDE DEF new
  <2> QED
    BY <1>2, <2>1, <2>2
<1>4. box' = [box EXCEPT ![b] = new]
  BY <1>1 DEF SaveCredentials
<1> HIDE DEF Box, new
<1>5. box' \in [Boxes -> Box]
  BY <1>1, <1>3, <1>4
<1>6. \A c \in Boxes : box'[c].code = box[c].code
  BY <1>1, <1>3, <1>4
<1> QED
  BY <1>5, <1>6 DEF Box

\* The credentials found on disk.
LEMMA TokenLoaded ==
  ASSUME TypeOK, NEW b \in Boxes,
         box' = [box EXCEPT ![b].pc = "running", ![b].token = box[b].disk]
  PROVE  /\ box' \in [Boxes -> [pc : BoxStages, code : Nat, disk : Nat, token : Nat]]
         /\ \A c \in Boxes : box'[c].code = box[c].code
<1> DEFINE Box == [pc : BoxStages, code : Nat, disk : Nat, token : Nat]
           half == [box[b] EXCEPT !.pc = "running"]
           new == [half EXCEPT !.token = box[b].disk]
<1>1. box \in [Boxes -> Box] /\ box[b] \in Box /\ "running" \in BoxStages
  BY TypeParts DEF PairTypes, BoxStages
<1>2. half = [pc |-> "running", code |-> box[b].code, disk |-> box[b].disk, token |-> box[b].token]
  BY <1>1
<1>3. box' = [box EXCEPT ![b] = new]
  BY <1>1
<1> HIDE DEF half
<1>4. new = [pc |-> "running", code |-> box[b].code, disk |-> box[b].disk, token |-> box[b].disk]
  BY <1>2
<1> HIDE DEF new
<1>5. new \in Box /\ new.code = box[b].code
  BY <1>1, <1>4
<1> HIDE DEF Box
<1>6. box' \in [Boxes -> Box]
  BY <1>1, <1>3, <1>5
<1>7. \A c \in Boxes : box'[c].code = box[c].code
  BY <1>1, <1>3, <1>5
<1> QED
  BY <1>6, <1>7 DEF Box

\* Loading credentials changes a stage, or a stage and the token.
LEMMA LoadWritten ==
  ASSUME TypeOK, NEW b \in Boxes, LoadCredentials(b)
  PROVE  /\ box' \in [Boxes -> [pc : BoxStages, code : Nat, disk : Nat, token : Nat]]
         /\ \A c \in Boxes : box'[c].code = box[c].code
<1>1. CASE box' = [box EXCEPT ![b].pc = "running", ![b].token = box[b].disk]
  BY <1>1, TokenLoaded, Zenon
<1>2. CASE box' = [box EXCEPT ![b].pc = "pairing"]
  <2>1. "pairing" \in BoxStages
    BY DEF BoxStages
  <2> QED
    BY <1>2, <2>1, StageWritten, Zenon
<1> QED
  BY <1>1, <1>2 DEF LoadCredentials

\* its boots,
LEMMA BootType == ASSUME TypeOK, NEW b \in Boxes, BootStep(b) PROVE TypeOK'
<1> USE TypeParts, TypePartsNext
<1>1. CASE LoadCredentials(b)
  <2>1. box' \in [Boxes -> [pc : BoxStages, code : Nat, disk : Nat, token : Nat]]
    BY <1>1, LoadWritten, Zenon
  <2> QED
    BY <1>1, <2>1 DEF LoadCredentials, GoesOnline, pairVars, PairTypes, WireTypes, NewsTypes
<1>2. CASE AskPair(b)
  <2>1. box' \in [Boxes -> [pc : BoxStages, code : Nat, disk : Nat, token : Nat]]
    BY <1>2 DEF AskPair, PairTypes, BoxStages
  <2>2. claim' \in [Boxes -> [st : ClaimStages, code : Nat, token : Nat]]
    BY <1>2 DEF AskPair, PairTypes, ClaimStages, NoToken
  <2> QED
    BY <1>2, <2>1, <2>2 DEF AskPair, wireVars, newsVars, PairTypes, WireTypes, NewsTypes
<1>3. CASE RetryPair(b)
  <2>1. box' \in [Boxes -> [pc : BoxStages, code : Nat, disk : Nat, token : Nat]]
    BY <1>3 DEF RetryPair, PairTypes, BoxStages
  <2> QED
    BY <1>3, <2>1 DEF RetryPair, pairVars, wireVars, newsVars, PairTypes, WireTypes, NewsTypes
<1>4. CASE SaveCredentials(b)
  <2>1. box' \in [Boxes -> [pc : BoxStages, code : Nat, disk : Nat, token : Nat]]
    BY <1>4, DiskWritten, Zenon
  <2> QED
    BY <1>4, <2>1 DEF SaveCredentials, GoesOnline, pairVars, PairTypes, WireTypes, NewsTypes
<1>5. CASE RunUnsaved(b)
  <2>1. box' \in [Boxes -> [pc : BoxStages, code : Nat, disk : Nat, token : Nat]]
    BY <1>5 DEF RunUnsaved, PairTypes, BoxStages
  <2> QED
    BY <1>5, <2>1 DEF RunUnsaved, GoesOnline, pairVars, PairTypes, WireTypes, NewsTypes
<1> QED
  BY <1>1, <1>2, <1>3, <1>4, <1>5 DEF BootStep

\* its link with the hub,
LEMMA LinkType == ASSUME TypeOK, NEW b \in Boxes, LinkStep(b) PROVE TypeOK'
<1> USE TypeParts, TypePartsNext
<1>1. CASE Dial(b)
  <2>1. srv' \in [Boxes -> [Ends -> SocketStates]]
    BY <1>1 DEF Dial, WireTypes, Ends, SocketStates
  <2>2. hub' \in {<<>>} \union (Boxes \X Ends)
    BY <1>1 DEF Dial, WireTypes, Socket, Ends
  <2> QED
    BY <1>1, <2>1, <2>2 DEF Dial, pairVars, newsVars, PairTypes, WireTypes, NewsTypes
<1>2. ASSUME NEW e \in Ends, Upgrade(b, e) PROVE TypeOK'
  <2>1. srv' \in [Boxes -> [Ends -> SocketStates]]
    BY <1>2 DEF Upgrade, Registered, WireTypes, SocketStates
  <2>2. hub' \in {<<>>} \union (Boxes \X Ends)
    BY <1>2 DEF Upgrade, WireTypes, Socket
  <2> QED
    BY <1>2, <2>1, <2>2 DEF Upgrade, pairVars, newsVars, PairTypes, WireTypes, NewsTypes
<1>3. ASSUME NEW e \in Ends, SocketCloses(b, e) PROVE TypeOK'
  BY <1>3
  DEF SocketCloses, Unregistered, pairVars, newsVars, PairTypes, WireTypes, NewsTypes, SocketStates
<1>4. CASE LinkOpens(b)
  <2>1. missed' \in [Boxes -> BOOLEAN]
    BY <1>4 DEF LinkOpens, NewsTypes
  <2>2. link' \in [Boxes -> {"off", "timer", "dialing", "open"}]
    BY <1>4 DEF LinkOpens, WireTypes
  <2>3. hello' \in SUBSET [box : Boxes, known : Nat]
    BY <1>4 DEF LinkOpens, WireTypes, NewsTypes
  <2> QED
    BY <1>4, <2>1, <2>2, <2>3 DEF LinkOpens, pairVars, PairTypes, WireTypes, NewsTypes
<1>5. CASE LinkCloses(b)
  BY <1>5 DEF LinkCloses, LinkIs, pairVars, newsVars, PairTypes, WireTypes, NewsTypes
<1> QED
  BY <1>1, <1>2, <1>3, <1>4, <1>5 DEF LinkStep

\* the delivery of changes,
LEMMA NewsType == ASSUME TypeOK, NEW b \in Boxes, NewsStep(b) PROVE TypeOK'
<1> USE TypeParts, TypePartsNext
<1>1. CASE ReceiveSync(b)
  BY <1>1 DEF ReceiveSync, pairVars, PairTypes, WireTypes, NewsTypes
<1>2. CASE FetchManifest(b)
  <2>1. run' \in [Boxes -> Nat] /\ missed' \in [Boxes -> BOOLEAN]
    BY <1>2 DEF FetchManifest, NewsTypes, NoManifest
  <2> QED
    BY <1>2, <2>1 DEF FetchManifest, pairVars, wireVars, PairTypes, WireTypes, NewsTypes
<1>3. CASE Poll(b)
  BY <1>3 DEF Poll, pairVars, wireVars, PairTypes, WireTypes, NewsTypes
<1>4. CASE ApplyManifest(b)
  BY <1>4 DEF ApplyManifest, pairVars, wireVars, PairTypes, WireTypes, NewsTypes, NoManifest
<1> QED
  BY <1>1, <1>2, <1>3, <1>4 DEF NewsStep

\* and the faults.
LEMMA FaultType == ASSUME TypeOK, NEW b \in Boxes, Fault(b) PROVE TypeOK'
<1> USE TypeParts, TypePartsNext
<1>1. CASE PairTimesOut(b)
  <2>1. left' \in [Events -> Nat]
    BY <1>1, SpendType DEF PairTimesOut, Events
  <2>2. box' \in [Boxes -> [pc : BoxStages, code : Nat, disk : Nat, token : Nat]]
    <3>1. "pausing" \in BoxStages /\ box' = [box EXCEPT ![b].pc = "pausing"]
      BY <1>1 DEF PairTimesOut, BoxStages
    <3> QED
      BY <3>1, StageWritten, Zenon
  <2> QED
    BY <1>1, <2>1, <2>2
    DEF PairTimesOut, pairVars, wireVars, newsVars, PairTypes, WireTypes, NewsTypes
<1>2. ASSUME NEW c \in Nat, Rebooted(b, c), left' \in [Events -> Nat] PROVE TypeOK'
  BY <1>2
  DEF Rebooted, LinkIs, pairVars, PairTypes, WireTypes, NewsTypes, BoxStages, NoManifest
<1>3. CASE CrashAgent(b)
  <2>1. left' \in [Events -> Nat]
    BY <1>3, SpendType DEF CrashAgent, Events
  <2>2. box[b].code \in Nat
    BY DEF PairTypes
  <2> QED
    BY <1>2, <1>3, <2>1, <2>2 DEF CrashAgent
<1>4. CASE PairCommand(b)
  <2>1. left' \in [Events -> Nat]
    BY <1>4, SpendType DEF PairCommand, Events
  <2>2. device.code \in Nat
    BY DEF PairTypes
  <2> QED
    BY <1>2, <1>4, <2>1, <2>2 DEF PairCommand
<1>5. CASE LinkBreaks(b)
  <2>1. left' \in [Events -> Nat]
    BY <1>5, SpendType DEF LinkBreaks, Events
  <2> QED
    BY <1>5, <2>1 DEF LinkBreaks, LinkIs, pairVars, newsVars, PairTypes, WireTypes, NewsTypes
<1>6. CASE SaveFails(b)
  <2>1. left' \in [Events -> Nat]
    BY <1>6, SpendType DEF SaveFails, Events
  <2>2. box' \in [Boxes -> [pc : BoxStages, code : Nat, disk : Nat, token : Nat]]
    <3>1. "unsaved" \in BoxStages /\ box' = [box EXCEPT ![b].pc = "unsaved"]
      BY <1>6 DEF SaveFails, BoxStages
    <3> QED
      BY <3>1, StageWritten, Zenon
  <2> QED
    BY <1>6, <2>1, <2>2
    DEF SaveFails, pairVars, wireVars, newsVars, PairTypes, WireTypes, NewsTypes
<1>7. CASE SyncFails(b)
  <2>1. left' \in [Events -> Nat]
    BY <1>7, SpendType DEF SyncFails, Events
  <2>2. run' \in [Boxes -> Nat] /\ missed' \in [Boxes -> BOOLEAN] /\ told' \in SUBSET Boxes
    BY <1>7 DEF SyncFails, NewsTypes, NoManifest
  <2> QED
    BY <1>7, <2>1, <2>2 DEF SyncFails, pairVars, wireVars, PairTypes, WireTypes, NewsTypes
<1> QED
  BY <1>1, <1>3, <1>4, <1>5, <1>6, <1>7 DEF Fault

\* Hence every step.
LEMMA NextType == TypeOK /\ [Next]_vars => TypeOK'
<1> SUFFICES ASSUME TypeOK, [Next]_vars PROVE TypeOK'
  OBVIOUS
<1> USE TypeParts, TypePartsNext
<1>1. CASE Publish
  BY <1>1 DEF Publish, pairVars, PairTypes, WireTypes, NewsTypes
<1>2. CASE LosePublish
  <2>1. left' \in [Events -> Nat]
    BY <1>2, SpendType DEF LosePublish, Events
  <2> QED
    BY <1>2, <2>1 DEF LosePublish, Listening, pairVars, wireVars, PairTypes, WireTypes, NewsTypes
<1>3. CASE RestartApi
  <2>1. left' \in [Events -> Nat]
    BY <1>3, SpendType DEF RestartApi, Events
  <2>2. claim' \in [Boxes -> [st : ClaimStages, code : Nat, token : Nat]]
    BY <1>3 DEF RestartApi, ClaimStages, Idle, NoCode, NoToken
  <2>3. box' \in [Boxes -> [pc : BoxStages, code : Nat, disk : Nat, token : Nat]]
    BY <1>3 DEF RestartApi, PairTypes, BoxStages
  <2>4. srv' \in [Boxes -> [Ends -> SocketStates]]
    BY <1>3 DEF RestartApi, Ends, SocketStates
  <2> QED
    BY <1>3, <2>1, <2>2, <2>3, <2>4 DEF RestartApi, PairTypes, WireTypes, NewsTypes
<1>4. ASSUME NEW h \in hello, AnswerHello(h) PROVE TypeOK'
  BY <1>4 DEF AnswerHello, pairVars, newsVars, PairTypes, WireTypes, NewsTypes
<1>5. CASE UNCHANGED vars
  BY <1>5
  DEF vars, pairVars, wireVars, newsVars, PairTypes, WireTypes, NewsTypes
<1> QED
  BY <1>1, <1>2, <1>3, <1>4, <1>5, DashboardType, PairingType, BootType, LinkType, NewsType, FaultType
  DEF Next

-------------------------------------------------------------------------------
(* Pairing.                                                                *)

\* Nothing is paired at first.
LEMMA InitPairing == Init => PairingInv
  BY DEF Init, PairingInv, CodesAreIssued, TakenOnce, TokensOnce, FoundIsGone, Idle, NoCode, NoToken

\* Steps that leave the row, the tokens and the requests alone, and name no new code.
LEMMA PairingKept ==
  ASSUME TypeOK, PairingInv, UNCHANGED pairVars,
         \A b \in Boxes : box'[b].code <= codes
  PROVE  PairingInv'
  BY DEF PairingInv, CodesAreIssued, TakenOnce, TokensOnce, FoundIsGone, Codable, pairVars

\* Codes that the dashboard makes are new, and a deletion takes the code.
LEMMA DashboardPairing == ASSUME TypeOK, PairingInv, Dashboard PROVE PairingInv'
<1> USE DEF PairingInv
<1>1. CASE ReadDevice
  BY <1>1 DEF ReadDevice, CodesAreIssued, TakenOnce, TokensOnce, FoundIsGone, Codable
<1>2. CASE WriteCode
  <2>1. /\ device' = [device EXCEPT !.code = codes + 1, !.expired = FALSE] /\ codes' = codes + 1
        /\ UNCHANGED <<tokens, claim, box>>
    BY <1>2 DEF WriteCode
  <2>2. device'.code = codes + 1 /\ codes \in Nat /\ device'.deleted = device.deleted
    BY <2>1 DEF TypeOK
  <2>3. \A b \in Boxes : claim[b].code \in Nat /\ box[b].code \in Nat
    BY DEF TypeOK
  <2>4. \A t \in DOMAIN tokens : tokens[t].code \in Nat
    BY TokensType
  <2>5. CodesAreIssued'
    BY <2>1, <2>2, <2>3 DEF CodesAreIssued
  <2>6. TakenOnce'
    BY <2>1, <2>2, <2>3 DEF CodesAreIssued, TakenOnce
  <2>7. TokensOnce'
    BY <2>1, <2>2, <2>4 DEF TokensOnce
  <2>8. FoundIsGone'
    BY <2>1, <2>2, <2>3 DEF FoundIsGone, CodesAreIssued, Codable
  <2> QED
    BY <2>5, <2>6, <2>7, <2>8
<1>3. CASE CodeExpires
  <2>1. device'.code = device.code /\ device'.deleted = device.deleted
    BY <1>3 DEF CodeExpires, TypeOK
  <2> QED
    BY <1>3, <2>1 DEF CodeExpires, CodesAreIssued, TakenOnce, TokensOnce, FoundIsGone, Codable
<1>4. CASE RevokeToken
  <2>1. /\ DOMAIN tokens' = DOMAIN tokens
        /\ \A t \in DOMAIN tokens : tokens'[t].code = tokens[t].code
        /\ UNCHANGED <<device, codes, claim, box>>
    BY <1>4, AllRevokedType DEF RevokeToken
  <2> QED
    BY <2>1 DEF CodesAreIssued, TakenOnce, TokensOnce, FoundIsGone, Codable
<1>5. CASE DeleteDevice
  <2>1. /\ DOMAIN tokens' = DOMAIN tokens
        /\ \A t \in DOMAIN tokens : tokens'[t].code = tokens[t].code
        /\ UNCHANGED <<codes, claim, box>>
    BY <1>5, AllRevokedType DEF DeleteDevice
  <2>2. device'.code = NoCode /\ codes \in Nat
    BY <1>5 DEF DeleteDevice, TypeOK
  <2>3. CodesAreIssued' /\ FoundIsGone'
    BY <2>1, <2>2 DEF CodesAreIssued, FoundIsGone, Codable, NoCode
  <2>4. TakenOnce' /\ TokensOnce'
    BY <2>1, <2>2 DEF TakenOnce, TokensOnce
  <2> QED
    BY <2>3, <2>4
<1>6. CASE ChangeContent
  BY <1>6, PairingKept DEF ChangeContent, pairVars, CodesAreIssued
<1> QED
  BY <1>1, <1>2, <1>3, <1>4, <1>5, <1>6 DEF Dashboard

\* Only a request that is claimed or found matters.
LEMMA ClaimMoves ==
  ASSUME TypeOK, PairingInv, NEW b \in Boxes,
         UNCHANGED <<device, codes, tokens>>,
         \A c \in Boxes : c # b => claim'[c] = claim[c],
         claim'[b].code <= codes,
         claim'[b].st # "claimed",
         claim'[b].st = "found" => ~device.deleted,
         \A c \in Boxes : box'[c].code <= codes
  PROVE  PairingInv'
<1> USE DEF PairingInv
<1>1. CodesAreIssued'
  BY DEF CodesAreIssued
<1>2. TakenOnce'
  BY DEF TakenOnce
<1>3. TokensOnce' /\ FoundIsGone'
  BY DEF TokensOnce, FoundIsGone, Codable
<1> QED
  BY <1>1, <1>2, <1>3

\* A code is taken once, by the claim that issues its token.
LEMMA PairingPairing == ASSUME TypeOK, PairingInv, NEW b \in Boxes, PairingStep(b) PROVE PairingInv'
<1> USE DEF PairingInv
<1>0. /\ claim \in [Boxes -> [st : ClaimStages, code : Nat, token : Nat]]
      /\ \A c \in Boxes : box[c].code \in Nat /\ box[c].code <= codes /\ claim[c].code <= codes
      /\ \A c \in Boxes : box[c] \in [pc : BoxStages, code : Nat, disk : Nat, token : Nat]
      /\ codes \in Nat /\ device.code \in Nat
  BY DEF TypeOK, CodesAreIssued
<1>1. CASE FindCode(b)
  <2>1. /\ UNCHANGED <<device, codes, tokens, box>>
        /\ \A c \in Boxes : c # b => claim'[c] = claim[c]
        /\ claim'[b].code = claim[b].code
        /\ claim'[b].st \in {"found", "refused"}
        /\ claim'[b].st = "found" => ~device.deleted
    BY <1>0, <1>1 DEF FindCode
  <2> QED
    BY <1>0, <2>1, ClaimMoves
<1>2. CASE ClaimCode(b) /\ Codable(claim[b].code)
  <2>1. /\ UNCHANGED <<codes, tokens, box>>
        /\ \A c \in Boxes : c # b => claim'[c] = claim[c]
        /\ claim'[b].code = claim[b].code /\ claim'[b].st = "claimed"
        /\ claim[b].st = "found"
    BY <1>0, <1>2 DEF ClaimCode
  <2>2. /\ device'.code = NoCode /\ device'.deleted = device.deleted
        /\ claim[b].code = device.code /\ device.code # NoCode
    BY <1>2 DEF ClaimCode, Codable, TypeOK
  <2>3. CodesAreIssued'
    BY <1>0, <2>1, <2>2 DEF CodesAreIssued, NoCode
  <2>4. TakenOnce'
    BY <1>0, <2>1, <2>2 DEF TakenOnce, TokensOnce
  <2>5. TokensOnce' /\ FoundIsGone'
    BY <2>1, <2>2 DEF TokensOnce, FoundIsGone, Codable
  <2> QED
    BY <2>3, <2>4, <2>5
<1>3. CASE ClaimCode(b) /\ ~Codable(claim[b].code)
  <2>1. /\ UNCHANGED <<device, codes, tokens, box>>
        /\ \A c \in Boxes : c # b => claim'[c] = claim[c]
        /\ claim'[b].code = claim[b].code
        /\ claim'[b].st = "refused"
    BY <1>0, <1>3 DEF ClaimCode
  <2> QED
    BY <1>0, <2>1, ClaimMoves
<1>4. CASE CreateToken(b)
  <2>1. /\ UNCHANGED <<device, codes, box>>
        /\ \A c \in Boxes : c # b => claim'[c] = claim[c]
        /\ claim'[b].code = claim[b].code /\ claim'[b].st = "granted"
        /\ claim[b].st = "claimed"
    BY <1>0, <1>4 DEF CreateToken
  <2>2. /\ Len(tokens) \in Nat /\ DOMAIN tokens = 1..Len(tokens)
        /\ DOMAIN tokens' = DOMAIN tokens \cup {Len(tokens) + 1}
        /\ tokens'[Len(tokens) + 1].code = claim[b].code
        /\ \A t \in DOMAIN tokens : tokens'[t] = tokens[t] /\ t # Len(tokens) + 1
    <3>1. /\ tokens \in Seq([code : Nat, revoked : BOOLEAN])
          /\ tokens' = Append(tokens, [code |-> claim[b].code, revoked |-> FALSE])
      BY <1>4, TypeParts DEF CreateToken, PairTypes, TokenRows
    <3> QED
      BY <3>1
  <2>3. CodesAreIssued' /\ FoundIsGone'
    BY <1>0, <2>1 DEF CodesAreIssued, FoundIsGone, Codable
  <2>4. TakenOnce'
    BY <2>1, <2>2 DEF TakenOnce
  <2>5. TokensOnce'
    BY <1>0, <2>1, <2>2 DEF TokensOnce, TakenOnce
  <2> QED
    BY <2>3, <2>4, <2>5
<1>5. CASE AnswerPair(b)
  <2>1. /\ UNCHANGED <<device, codes, tokens>>
        /\ \A c \in Boxes : c # b => claim'[c] = claim[c]
        /\ claim'[b].code = NoCode /\ claim'[b].st = "idle"
    BY <1>0, <1>5 DEF AnswerPair, Idle
  <2>2. \A c \in Boxes : box'[c].code = box[c].code
    <3>1. box \in [Boxes -> [pc : BoxStages, code : Nat, disk : Nat, token : Nat]]
      BY DEF TypeOK
    <3> QED
      BY <1>5, <3>1 DEF AnswerPair
  <2> QED
    BY <1>0, <2>1, <2>2, ClaimMoves DEF NoCode
<1> QED
  BY <1>1, <1>2, <1>3, <1>4, <1>5 DEF PairingStep

\* Everything else a box does leaves codes and tokens alone.
LEMMA BoxPairing ==
  ASSUME TypeOK, PairingInv, NEW b \in Boxes,
         BootStep(b) \/ LinkStep(b) \/ NewsStep(b) \/ Fault(b)
  PROVE  PairingInv'
<1> USE DEF PairingInv
<1>0. /\ box \in [Boxes -> [pc : BoxStages, code : Nat, disk : Nat, token : Nat]]
      /\ claim \in [Boxes -> [st : ClaimStages, code : Nat, token : Nat]]
      /\ \A c \in Boxes : box[c].code <= codes
      /\ device.code <= codes
  BY DEF TypeOK, CodesAreIssued
<1>1. CASE AskPair(b)
  <2>1. /\ UNCHANGED <<device, codes, tokens>>
        /\ \A c \in Boxes : c # b => claim'[c] = claim[c]
        /\ claim'[b].code = box[b].code /\ claim'[b].st = "sent"
        /\ \A c \in Boxes : box'[c].code = box[c].code
    BY <1>0, <1>1 DEF AskPair
  <2> QED
    BY <1>0, <2>1, ClaimMoves
<1>2. CASE LoadCredentials(b) \/ RetryPair(b) \/ SaveCredentials(b) \/ RunUnsaved(b)
  <2>1. UNCHANGED pairVars
    BY <1>2 DEF LoadCredentials, RetryPair, SaveCredentials, RunUnsaved
  <2>2. \A c \in Boxes : box'[c].code = box[c].code
    <3>1. CASE LoadCredentials(b)
      BY <3>1, LoadWritten, Zenon
    <3>2. CASE RetryPair(b) \/ RunUnsaved(b)
      BY <1>0, <3>2 DEF RetryPair, RunUnsaved
    <3>3. CASE SaveCredentials(b)
      BY <3>3, DiskWritten, Zenon
    <3> QED
      BY <1>2, <3>1, <3>2, <3>3
  <2> QED
    BY <1>0, <2>1, <2>2, PairingKept
<1>3. CASE LinkStep(b) \/ NewsStep(b)
  <2>1. UNCHANGED pairVars /\ UNCHANGED box
    BY <1>3
    DEF LinkStep, NewsStep, Dial, LinkOpens, LinkCloses, Upgrade, SocketCloses,
        ReceiveSync, FetchManifest, ApplyManifest, Poll
  <2> QED
    BY <1>0, <2>1, PairingKept
<1>4. CASE Fault(b)
  <2>1. UNCHANGED pairVars
    BY <1>4
    DEF Fault, PairTimesOut, SaveFails, SyncFails, CrashAgent, PairCommand, LinkBreaks, Rebooted
  <2>2. \A c \in Boxes : box'[c].code \in {box[c].code, device.code}
    BY <1>0, <1>4
    DEF Fault, PairTimesOut, SaveFails, SyncFails, CrashAgent, PairCommand, LinkBreaks, Rebooted
  <2> QED
    BY <1>0, <2>1, <2>2, PairingKept
<1> QED
  BY <1>1, <1>2, <1>3, <1>4 DEF BootStep

\* Hence every step.
LEMMA NextPairing == TypeOK /\ PairingInv /\ [Next]_vars => PairingInv'
<1> SUFFICES ASSUME TypeOK, PairingInv, [Next]_vars PROVE PairingInv'
  OBVIOUS
<1>0. \A c \in Boxes : box[c].code <= codes
  BY DEF PairingInv, CodesAreIssued
<1>1. CASE Publish \/ LosePublish \/ (\E h \in hello : AnswerHello(h)) \/ UNCHANGED vars
  <2>1. UNCHANGED pairVars /\ UNCHANGED box
    BY <1>1 DEF Publish, LosePublish, AnswerHello, vars
  <2> QED
    BY <1>0, <2>1, PairingKept
<1>2. CASE RestartApi
  <2>1. /\ UNCHANGED <<device, codes, tokens>>
        /\ \A c \in Boxes : claim'[c].code = NoCode /\ claim'[c].st = "idle"
    BY <1>2 DEF RestartApi, Idle
  <2>2. \A c \in Boxes : box'[c].code = box[c].code
    <3>1. box \in [Boxes -> [pc : BoxStages, code : Nat, disk : Nat, token : Nat]]
      BY DEF TypeOK
    <3> QED
      BY <1>2, <3>1 DEF RestartApi
  <2>3. codes \in Nat
    BY DEF TypeOK
  <2> QED
    BY <1>0, <2>1, <2>2, <2>3
    DEF PairingInv, CodesAreIssued, TakenOnce, TokensOnce, FoundIsGone, NoCode
<1> QED
  BY <1>1, <1>2, DashboardPairing, PairingPairing, BoxPairing DEF Next

-------------------------------------------------------------------------------
(* The hub.                                                                *)

\* The hub holds no socket at first.
LEMMA InitHub == Init => HubHoldsTheOpenSocket
  BY DEF Init, HubHoldsTheOpenSocket, Ends, Socket

\* Steps that touch neither sockets nor the hub.
LEMMA HubKept ==
  ASSUME HubHoldsTheOpenSocket, UNCHANGED <<srv, hub>>
  PROVE  HubHoldsTheOpenSocket'
  BY DEF HubHoldsTheOpenSocket, Socket

\* Registration and replacement keep the open socket in the hub.
LEMMA LinkHub ==
  ASSUME TypeOK, HubHoldsTheOpenSocket, NEW b \in Boxes, LinkStep(b)
  PROVE  HubHoldsTheOpenSocket'
<1>0. /\ srv \in [Boxes -> [Ends -> SocketStates]]
      /\ \A c \in Boxes, f \in Ends : srv[c][f] = "open" <=> hub = <<c, f>>
  BY DEF TypeOK, HubHoldsTheOpenSocket, Socket
<1>s. SUFFICES ASSUME NEW c \in Boxes, NEW f \in Ends
               PROVE  srv'[c][f] = "open" <=> hub' = <<c, f>>
  BY DEF HubHoldsTheOpenSocket, Socket
<1>1. CASE Dial(b)
  <2>1. /\ srv' = [srv EXCEPT ![b] = [now |-> "auth", old |-> srv[b].now]]
        /\ srv[b]["old"] = "none"
        /\ hub' = IF hub = <<b, "now">> THEN <<b, "old">> ELSE hub
    BY <1>1 DEF Dial, Socket
  <2>2. srv[b]["old"] # "open" => hub # <<b, "old">>
    BY <1>0 DEF Ends
  <2>3. CASE c # b
    BY <1>0, <2>1, <2>3
  <2>4. CASE c = b /\ f = "now"
    BY <1>0, <2>1, <2>4
  <2>5. CASE c = b /\ f = "old"
    BY <1>0, <2>1, <2>2, <2>5 DEF Ends
  <2> QED
    BY <2>3, <2>4, <2>5 DEF Ends
<1>2. ASSUME NEW e \in Ends, Upgrade(b, e) PROVE srv'[c][f] = "open" <=> hub' = <<c, f>>
  <2>1. CASE Accepted(box[b].token)
    <3>1. srv' = Registered(b, e) /\ hub' = <<b, e>>
      BY <1>2, <2>1 DEF Upgrade, Socket
    <3>2. srv'[c][f] = IF c = b /\ f = e THEN "open"
                       ELSE IF hub = <<c, f>> /\ srv[c][f] = "open" THEN "closing" ELSE srv[c][f]
      BY <3>1 DEF Registered, Socket
    <3> QED
      BY <1>0, <3>1, <3>2
  <2>2. CASE ~Accepted(box[b].token)
    <3>1. /\ srv' = [srv EXCEPT ![b][e] = "none"] /\ hub' = hub
          /\ srv[b][e] = "auth"
      BY <1>2, <2>2 DEF Upgrade
    <3> QED
      BY <1>0, <3>1
  <2> QED
    BY <2>1, <2>2
<1>3. ASSUME NEW e \in Ends, SocketCloses(b, e) PROVE srv'[c][f] = "open" <=> hub' = <<c, f>>
  <2>1. /\ srv' = [srv EXCEPT ![b][e] = "none"]
        /\ hub' = IF hub = <<b, e>> THEN <<>> ELSE hub
    BY <1>3 DEF SocketCloses, Unregistered, Socket
  <2>2. <<>> # <<c, f>>
    OBVIOUS
  <2>3. CASE c = b /\ f = e
    <3>1. srv'[c][f] # "open"
      BY <1>0, <2>1, <2>3
    <3>2. hub' # <<c, f>>
      BY <2>1, <2>2, <2>3
    <3> QED
      BY <3>1, <3>2
  <2>4. CASE ~(c = b /\ f = e)
    <3>1. srv'[c][f] = srv[c][f]
      BY <1>0, <2>1, <2>4
    <3>2. <<b, e>> # <<c, f>>
      BY <2>4
    <3>3. hub' = <<c, f>> <=> hub = <<c, f>>
      BY <2>1, <2>2, <3>2
    <3> QED
      BY <1>0, <3>1, <3>3
  <2> QED
    BY <2>3, <2>4
<1>4. CASE LinkOpens(b) \/ LinkCloses(b)
  BY <1>0, <1>4 DEF LinkOpens, LinkCloses
<1> QED
  BY <1>1, <1>2, <1>3, <1>4 DEF LinkStep

\* Hence every step.
LEMMA NextHub == TypeOK /\ HubHoldsTheOpenSocket /\ [Next]_vars => HubHoldsTheOpenSocket'
<1> SUFFICES ASSUME TypeOK, HubHoldsTheOpenSocket, [Next]_vars PROVE HubHoldsTheOpenSocket'
  OBVIOUS
<1>1. CASE RestartApi
  BY <1>1 DEF RestartApi, HubHoldsTheOpenSocket, Ends, Socket
<1>2. CASE Dashboard \/ Publish \/ LosePublish \/ (\E h \in hello : AnswerHello(h)) \/ UNCHANGED vars
  <2>1. UNCHANGED <<srv, hub>>
    BY <1>2
    DEF Dashboard, ReadDevice, WriteCode, CodeExpires, RevokeToken, DeleteDevice, ChangeContent,
        Publish, LosePublish, AnswerHello, vars, wireVars
  <2> QED
    BY <2>1, HubKept
<1>3. ASSUME NEW b \in Boxes, PairingStep(b) \/ BootStep(b) \/ NewsStep(b) \/ Fault(b)
      PROVE  HubHoldsTheOpenSocket'
  <2>1. CASE PairingStep(b)
    BY <2>1, HubKept DEF PairingStep, FindCode, ClaimCode, CreateToken, AnswerPair, wireVars
  <2>2. CASE BootStep(b)
    BY <2>2, HubKept
    DEF BootStep, LoadCredentials, AskPair, RetryPair, SaveCredentials, RunUnsaved, wireVars
  <2>3. CASE NewsStep(b)
    BY <2>3, HubKept DEF NewsStep, ReceiveSync, FetchManifest, ApplyManifest, Poll, wireVars
  <2>4. CASE Fault(b)
    BY <2>4, HubKept
    DEF Fault, PairTimesOut, SaveFails, SyncFails, CrashAgent, PairCommand, LinkBreaks, Rebooted, wireVars
  <2> QED
    BY <1>3, <2>1, <2>2, <2>3, <2>4
<1> QED
  BY <1>1, <1>2, <1>3, LinkHub DEF Next

-------------------------------------------------------------------------------
(* The theorems.                                                           *)

\* In every reachable state the variables have their types, a code that was taken belongs to one
\* request or one token, and the hub holds the socket that is open.
THEOREM AccessInvariant == Spec => []AccessInv
<1>1. Init => AccessInv
  BY InitType, InitPairing, InitHub DEF AccessInv
<1>2. AccessInv /\ [Next]_vars => AccessInv'
  BY NextType, NextPairing, NextHub DEF AccessInv
<1> QED
  BY <1>1, <1>2, PTL DEF Spec

\* A pairing code is good for one token, for any number of boxes that present it.
THEOREM CodesAreSingleUse == Spec => []OneTokenPerCode
<1>1. AccessInv => OneTokenPerCode
  BY DEF AccessInv, PairingInv, TokensOnce, OneTokenPerCode
<1> QED
  BY <1>1, AccessInvariant, PTL

\* No step takes the code of a device that is deleted, though the row was read before.
THEOREM DeletedIsNotClaimed == Spec => NoClaimAfterDelete
<1>1. AccessInv /\ [Next]_vars =>
        [\A b \in Boxes : claim[b].st # "claimed" /\ claim'[b].st = "claimed" => ~device.deleted]_vars
  <2> SUFFICES ASSUME AccessInv, Next, NEW b \in Boxes,
                      claim[b].st # "claimed", claim'[b].st = "claimed"
               PROVE  ~device.deleted
    OBVIOUS
  <2>0. claim \in [Boxes -> [st : ClaimStages, code : Nat, token : Nat]]
    BY DEF AccessInv, TypeOK
  <2>1. ~UNCHANGED claim
    OBVIOUS
  <2>2. ~RestartApi
    BY DEF RestartApi, Idle
  <2>3. PICK c \in Boxes : PairingStep(c) \/ AskPair(c)
    BY <2>1, <2>2
    DEF Next, Dashboard, ReadDevice, WriteCode, CodeExpires, RevokeToken, DeleteDevice, ChangeContent,
        Publish, LosePublish, AnswerHello,
        BootStep, LoadCredentials, RetryPair, SaveCredentials, RunUnsaved,
        LinkStep, Dial, LinkOpens, LinkCloses, Upgrade, SocketCloses,
        NewsStep, ReceiveSync, FetchManifest, ApplyManifest, Poll,
        Fault, PairTimesOut, SaveFails, SyncFails, CrashAgent, PairCommand, LinkBreaks, Rebooted, pairVars
  <2>4. ClaimCode(b) /\ Codable(claim[b].code)
    <3>1. CASE c = b
      BY <2>0, <2>3, <3>1 DEF PairingStep, FindCode, ClaimCode, CreateToken, AnswerPair, AskPair, Idle
    <3>2. CASE c # b
      BY <2>0, <2>3, <3>2 DEF PairingStep, FindCode, ClaimCode, CreateToken, AnswerPair, AskPair
    <3> QED
      BY <3>1, <3>2
  <2> QED
    BY <2>4 DEF AccessInv, PairingInv, FoundIsGone, ClaimCode
<1> QED
  BY <1>1, AccessInvariant, PTL DEF Spec, NoClaimAfterDelete

\* The hub holds a socket exactly when it is the device's open one.
THEOREM HubIsRight == Spec => []HubHoldsTheOpenSocket
<1>1. AccessInv => HubHoldsTheOpenSocket
  BY DEF AccessInv
<1> QED
  BY <1>1, AccessInvariant, PTL

===============================================================================
