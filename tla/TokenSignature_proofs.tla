------------------------ MODULE TokenSignature_proofs ------------------------
(***************************************************************************)
(* Theorems of TokenSignature, for any documents, keys and tokens.         *)
(***************************************************************************)
EXTENDS TokenSignature, TLAPS

(* The installed keys are those of the document, and a memo holds what     *)
(* decoding its own key gives: without the second part a verdict could     *)
(* depend on what was presented before.                                    *)
Origin == /\ document = NotAKeySet => DOMAIN keys = {}
          /\ document # NotAKeySet => keys = KeysOf(document)
Memo == \A i \in DOMAIN keys : decoded[i] \in {Undecoded, FromJwk(keys[i])}
VerdictInv == VerdictIsExact /\ MissIsUnpublished

SigInv == TypeOK /\ Origin /\ Memo /\ VerdictInv

LEMMA FromJwkType ==
    ASSUME NEW jwk \in Jwks
    PROVE  FromJwk(jwk) \in Materials /\ FromJwk(jwk) # Undecoded
BY DEF FromJwk, Materials, Unusable, Undecoded, Jwks

LEMMA KeysOfType ==
    ASSUME NEW d \in Documents, NEW i \in DOMAIN KeysOf(d)
    PROVE  i \in DOMAIN d /\ KeysOf(d)[i] = d[i] /\ d[i] \in Jwks
BY SignatureAssumption DEF KeysOf

LEMMA KeysOfAll ==
    ASSUME NEW d, NEW i \in DOMAIN d, d[i] # NotAJwk
    PROVE  i \in DOMAIN KeysOf(d) /\ KeysOf(d)[i] = d[i]
BY DEF KeysOf

(* Decoding is transparent.                                                *)
LEMMA MaterialIsOwn ==
    ASSUME Memo, NEW i \in DOMAIN keys
    PROVE  Material(i) = FromJwk(keys[i])
BY DEF Memo, Material

(* A key is looked up under an id exactly when it stands under that id.    *)
LEMMA MatchesId ==
    ASSUME NEW i \in DOMAIN keys, keys[i] \in Jwks, NEW kid
    PROVE  Matches(i, IdOf(kid)) <=> IdOf(keys[i].kid) = IdOf(kid)
BY DEF Matches, IdOf, Absent, Jwks

(* One key verifies a token exactly when it is a signing key for the       *)
(* header's algorithm whose private half signed the segments presented.    *)
LEMMA VerifyIsExact ==
    ASSUME Memo, NEW i \in DOMAIN keys, keys[i] \in Jwks,
           NEW tok \in Tokens, Splits(tok)
    PROVE  VerifySignature(i, tok) <=>
             /\ tok[1].crit \in {Absent, "empty"}
             /\ \E pub \in PublicKeys : /\ SignsWith(keys[i], tok[1].alg, pub)
                                        /\ tok[3].by = pub /\ tok[3].over = <<tok[1], tok[2]>>
<1>. DEFINE h == tok[1]
            k == keys[i]
<1>1. h \in Headers /\ Material(i) = FromJwk(k) /\ k # NotAJwk
  BY MaterialIsOwn, TokensAssumption, SignatureAssumption
<1>2. h.crit \in {Absent, "empty"} <=> h.crit # "named"
  BY <1>1 DEF Headers, Absent
<1>3. CASE h.alg = "RS256"
  <2>1. FromJwk(k).kind = "rsa" <=> k.kty = "RSA" /\ k.rsa # Broken
    BY DEF FromJwk, Unusable
  <2>2. k.kty = "RSA" /\ k.rsa # Broken => FromJwk(k).key = k.rsa
    BY DEF FromJwk
  <2>. QED  BY <1>1, <1>2, <1>3, <2>1, <2>2, SignatureAssumption
            DEF VerifySignature, Fits, RingVerifies, SignsWith, SigningInput
<1>4. CASE h.alg = "ES256"
  <2>1. FromJwk(k).kind = "ec" <=> k.kty = "EC" /\ k.ec # Broken
    BY DEF FromJwk, Unusable
  <2>2. k.kty = "EC" /\ k.ec # Broken => FromJwk(k).key = k.ec
    BY DEF FromJwk
  <2>. QED  BY <1>1, <1>2, <1>4, <2>1, <2>2, SignatureAssumption
            DEF VerifySignature, Fits, RingVerifies, SignsWith, SigningInput
<1>5. CASE h.alg \notin {"RS256", "ES256"}
  BY <1>5 DEF VerifySignature, Fits, SignsWith
<1>. QED  BY <1>3, <1>4, <1>5

(* What try_all answers, in terms of the document alone.                   *)
LEMMA TryAllIsExact ==
    ASSUME SigInv, document # NotAKeySet, NEW tok \in Tokens, Splits(tok)
    PROVE  /\ TryAll(tok) = "ok" <=> Genuine(tok, document)
           /\ TryAll(tok) = "miss" <=> \A i \in DOMAIN document :
                document[i] # NotAJwk => IdOf(document[i].kid) # IdOf(tok[1].kid)
           /\ TryAll(tok) \in {"ok", "miss", "bad"}
<1>. DEFINE kid == tok[1].kid
<1>1. keys = KeysOf(document) /\ document \in Documents /\ Memo
  BY DEF SigInv, Origin, TypeOK
<1>2. \A i \in DOMAIN keys : i \in DOMAIN document /\ keys[i] = document[i] /\ keys[i] \in Jwks
  BY <1>1, KeysOfType
<1>3. \A i \in DOMAIN document : document[i] # NotAJwk =>
         i \in DOMAIN keys /\ keys[i] = document[i]
  BY <1>1, KeysOfAll
<1>4. \A i \in DOMAIN keys : i \in FindAll(tok) <=> IdOf(keys[i].kid) = IdOf(kid)
  BY <1>2, MatchesId DEF FindAll
<1>5. FindAll(tok) \subseteq DOMAIN keys /\ Verifying(tok) \subseteq FindAll(tok)
  BY DEF FindAll, Verifying
<1>6. FindAll(tok) = {} <=> \A i \in DOMAIN document :
         document[i] # NotAJwk => IdOf(document[i].kid) # IdOf(kid)
  <2>1. \A i \in DOMAIN keys : document[i] # NotAJwk
    BY <1>2, SignatureAssumption
  <2>. QED  BY <1>2, <1>3, <1>4, <1>5, <2>1
<1>7. Verifying(tok) # {} <=> Genuine(tok, document)
  <2>1. ASSUME NEW i \in Verifying(tok)
        PROVE  Genuine(tok, document)
    <3>1. i \in DOMAIN keys /\ VerifySignature(i, tok) /\ IdOf(keys[i].kid) = IdOf(kid)
      BY <1>4, <1>5 DEF Verifying
    <3>. QED  BY <1>1, <1>2, <3>1, VerifyIsExact DEF Genuine
  <2>2. ASSUME Genuine(tok, document)
        PROVE  Verifying(tok) # {}
    <3>1. PICK i \in DOMAIN document, pub \in PublicKeys :
             /\ SignsWith(document[i], tok[1].alg, pub) /\ IdOf(document[i].kid) = IdOf(kid)
             /\ tok[3].by = pub /\ tok[3].over = <<tok[1], tok[2]>>
      BY <2>2 DEF Genuine
    <3>2. i \in DOMAIN keys /\ keys[i] = document[i] /\ keys[i] \in Jwks
      BY <1>2, <1>3, <3>1 DEF SignsWith
    <3>3. VerifySignature(i, tok)
      BY <1>1, <2>2, <3>1, <3>2, VerifyIsExact DEF Genuine
    <3>. QED  BY <1>4, <3>1, <3>2, <3>3 DEF Verifying
  <2>. QED  BY <2>1, <2>2
<1>. QED  BY <1>5, <1>6, <1>7 DEF TryAll

LEMMA SigInit == Init => SigInv
BY DEF Init, SigInv, TypeOK, Origin, Memo, VerdictInv, VerdictIsExact, MissIsUnpublished

LEMMA RefreshStep ==
    ASSUME SigInv, NEW d \in Documents \cup {NotAKeySet}, Refresh(d)
    PROVE  SigInv'
<1>1. CASE Parses(d)
  <2>1. /\ d \in Documents /\ d # NotAKeySet /\ document' = d /\ verdict' = "none"
        /\ keys' = KeysOf(d) /\ decoded' = NothingDecoded(KeysOf(d)) /\ DOMAIN KeysOf(d) # {}
    BY <1>1 DEF Refresh, Parses
  <2>2. \A i \in DOMAIN KeysOf(d) : KeysOf(d)[i] \in Jwks
    BY <2>1, KeysOfType
  <2>3. DOMAIN decoded' = DOMAIN keys' /\ \A i \in DOMAIN keys' : decoded'[i] = Undecoded
    BY <2>1 DEF NothingDecoded
  <2>4. Undecoded \in Materials
    BY DEF Undecoded, Materials
  <2>. QED  BY <2>1, <2>2, <2>3, <2>4
            DEF SigInv, TypeOK, Origin, Memo, VerdictInv, VerdictIsExact, MissIsUnpublished
<1>2. CASE ~Parses(d)
  BY <1>2 DEF Refresh, SigInv, TypeOK, Origin, Memo, VerdictInv, VerdictIsExact, MissIsUnpublished
<1>. QED  BY <1>1, <1>2

LEMMA PresentStep ==
    ASSUME SigInv, NEW tok \in Tokens, Present(tok)
    PROVE  SigInv'
<1>1. /\ document # NotAKeySet /\ document' = document /\ keys' = keys /\ token' = tok
      /\ DOMAIN decoded = DOMAIN keys
  BY DEF Present, SigInv, Origin, TypeOK
<1>2. CASE ~Splits(tok)
  <2>1. decoded' = decoded /\ verdict' = "pass"
    BY <1>2 DEF Present
  <2>2. ~Genuine(tok, document)
    BY <1>2 DEF Genuine
  <2>. QED  BY <1>1, <2>1, <2>2
            DEF SigInv, TypeOK, Origin, Memo, VerdictInv, VerdictIsExact, MissIsUnpublished
<1>3. CASE Splits(tok)
  <2>1. /\ decoded' = [i \in DOMAIN decoded |-> IF i \in Asked(tok) THEN Material(i) ELSE decoded[i]]
        /\ verdict' = IF TryAll(tok) = "ok" /\ tok[2] = NotClaims THEN "malformed" ELSE TryAll(tok)
    BY <1>3 DEF Present
  <2>2. \A i \in DOMAIN keys : decoded'[i] \in {decoded[i], FromJwk(keys[i])}
    BY <1>1, <2>1, MaterialIsOwn DEF SigInv
  <2>3. \A i \in DOMAIN keys : /\ decoded'[i] \in Materials
                               /\ decoded'[i] \in {Undecoded, FromJwk(keys[i])}
    BY <2>2, FromJwkType DEF SigInv, TypeOK, Memo
  <2>4. /\ TryAll(tok) = "ok" <=> Genuine(tok, document)
        /\ TryAll(tok) = "miss" <=> \A i \in DOMAIN document :
             document[i] # NotAJwk => IdOf(document[i].kid) # IdOf(tok[1].kid)
        /\ TryAll(tok) \in {"ok", "miss", "bad"}
    BY <1>1, <1>3, TryAllIsExact
  <2>5. TypeOK' /\ Origin' /\ Memo'
    BY <1>1, <2>1, <2>3, <2>4 DEF SigInv, TypeOK, Origin, Memo
  <2>6. VerdictIsExact'
    BY <1>1, <2>1, <2>4 DEF VerdictIsExact
  <2>7. MissIsUnpublished'
    BY <1>1, <2>1, <2>4 DEF MissIsUnpublished
  <2>. QED  BY <2>5, <2>6, <2>7 DEF SigInv, VerdictInv
<1>. QED  BY <1>2, <1>3

LEMMA SigAlways == Spec => []SigInv
<1>1. SigInv /\ [Next]_vars => SigInv'
  <2>. SUFFICES ASSUME SigInv, [Next]_vars PROVE SigInv'
    OBVIOUS
  <2>1. CASE \E d \in Documents \cup {NotAKeySet} : Refresh(d)
    BY <2>1, RefreshStep
  <2>2. CASE \E tok \in Tokens : Present(tok)
    BY <2>2, PresentStep
  <2>3. CASE UNCHANGED vars
    BY <2>3 DEF vars, SigInv, TypeOK, Origin, Memo, VerdictInv, VerdictIsExact, MissIsUnpublished
  <2>. QED  BY <2>1, <2>2, <2>3 DEF Next
<1>. QED  BY <1>1, SigInit, PTL DEF Spec

(* Every variable keeps its type: parse never installs an entry that is no *)
(* key, nor an empty set.                                                  *)
THEOREM SignatureTypeCorrect == Spec => []TypeOK
<1>1. SigInv => TypeOK
  BY DEF SigInv
<1>. QED  BY <1>1, SigAlways, PTL

(* try_all over memoised keys accepts exactly the tokens that a signing    *)
(* key of the installed document signed, whatever was presented before.    *)
THEOREM VerdictTheorem == Spec => []VerdictIsExact
<1>1. SigInv => VerdictIsExact
  BY DEF SigInv, VerdictInv
<1>. QED  BY <1>1, SigAlways, PTL

(* Only an id that the document does not publish is a miss.                *)
THEOREM MissTheorem == Spec => []MissIsUnpublished
<1>1. SigInv => MissIsUnpublished
  BY DEF SigInv, VerdictInv
<1>. QED  BY <1>1, SigAlways, PTL

-----------------------------------------------------------------------------
(* The keys of JwksCache.                                                  *)

LEMMA SlotTypes ==
    ASSUME NEW jwk \in Jwks, NEW slot \in SlotsOf(jwk)
    PROVE  slot \in Slots /\ slot.kid = IdOf(jwk.kid) /\ slot # Forged
<1>1. IdOf(jwk.kid) \in Ids
  BY DEF Jwks, IdOf, Ids
<1>2. CASE slot = Slot(jwk.kid, "none", Broken)
  BY <1>1, <1>2 DEF Slot, Slots, Forged
<1>3. ASSUME NEW pub \in PublicKeys, SignsWith(jwk, SchemeOf[pub], pub),
             slot = Slot(jwk.kid, SchemeOf[pub], pub)
      PROVE  slot \in Slots /\ slot.kid = IdOf(jwk.kid) /\ slot # Forged
  <2>1. SchemeOf[pub] \in {"RS256", "ES256"}
    BY <1>3 DEF SignsWith
  <2>. QED  BY <1>1, <1>3, <2>1 DEF Slot, Slots, Forged
<1>. QED  BY <1>2, <1>3 DEF SlotsOf

(* The view satisfies what JwksCache assumes of its keys and tokens.       *)
LEMMA RingTypes ==
    ASSUME NEW d \in Documents
    PROVE  RingOf(d) \subseteq Slots /\ Forged \notin RingOf(d) /\ Forged \notin Slots
<1>1. \A i \in DOMAIN d : d[i] # NotAJwk => d[i] \in Jwks
  BY SignatureAssumption
<1>2. Forged \notin Slots
  BY DEF Forged, Slots
<1>. QED  BY <1>1, <1>2, SlotTypes DEF RingOf

LEMMA TokenTypes ==
    ASSUME NEW tok \in Tokens, Splits(tok)
    PROVE  AsToken(tok) \in [kid : Ids, signer : Slots \cup {Forged}]
<1>1. tok[1] \in Headers /\ IdOf(tok[1].kid) \in Ids
  BY TokensAssumption DEF Headers, IdOf, Ids
<1>2. Untouched(tok) => Slot(tok[1].kid, tok[1].alg, tok[3].by) \in Slots
  BY <1>1 DEF Untouched, Slot, Slots
<1>. QED  BY <1>1, <1>2 DEF AsToken

(* An id stands in the ring exactly when it stands in the document.        *)
LEMMA RingIds ==
    ASSUME NEW d \in Documents, NEW kid
    PROVE  Ring!FindAll(RingOf(d), kid) = {} <=>
             \A i \in DOMAIN d : d[i] # NotAJwk => IdOf(d[i].kid) # kid
<1>1. Ring!FindAll(RingOf(d), kid) = {k \in RingOf(d) : k.kid = kid}
  BY RingTypes DEF Ring!FindAll
<1>2. ASSUME NEW i \in DOMAIN d, d[i] # NotAJwk
      PROVE  \E slot \in RingOf(d) : slot.kid = IdOf(d[i].kid)
  <2>1. Slot(d[i].kid, "none", Broken) \in RingOf(d)
    BY <1>2 DEF SlotsOf, RingOf
  <2>. QED  BY <2>1 DEF Slot
<1>3. ASSUME NEW slot \in RingOf(d)
      PROVE  \E i \in DOMAIN d : d[i] # NotAJwk /\ slot.kid = IdOf(d[i].kid)
  <2>1. PICK i \in DOMAIN d : d[i] # NotAJwk /\ slot \in SlotsOf(d[i])
    BY <1>3 DEF RingOf
  <2>2. d[i] \in Jwks
    BY <2>1, SignatureAssumption
  <2>. QED  BY <2>1, <2>2, SlotTypes
<1>. QED  BY <1>1, <1>2, <1>3

(* The signer of a token stands in the ring exactly for a genuine token.   *)
LEMMA RingSigner ==
    ASSUME NEW d \in Documents, NEW tok \in Tokens, Splits(tok)
    PROVE  AsToken(tok).signer \in Ring!FindAll(RingOf(d), IdOf(tok[1].kid)) <=> Genuine(tok, d)
<1>. DEFINE h == tok[1]
            signer == Slot(h.kid, h.alg, tok[3].by)
<1>1. Ring!FindAll(RingOf(d), IdOf(h.kid)) = {k \in RingOf(d) : k.kid = IdOf(h.kid)}
  BY RingTypes DEF Ring!FindAll
<1>2. h \in Headers /\ (h.crit # "named" <=> h.crit \in {Absent, "empty"})
  BY TokensAssumption DEF Headers, Absent
<1>3. CASE ~Untouched(tok)
  <2>1. AsToken(tok).signer = Forged
    BY <1>3 DEF AsToken
  <2>2. ~Genuine(tok, d)
    BY <1>2, <1>3 DEF Genuine, SignsWith, Untouched
  <2>. QED  BY <1>1, <2>1, <2>2, RingTypes
<1>4. CASE Untouched(tok)
  <2>1. AsToken(tok).signer = signer /\ signer.kid = IdOf(h.kid)
    BY <1>4 DEF AsToken, Slot
  <2>2. ASSUME Genuine(tok, d) PROVE signer \in RingOf(d)
    <3>1. PICK i \in DOMAIN d, pub \in PublicKeys :
             /\ SignsWith(d[i], h.alg, pub) /\ IdOf(d[i].kid) = IdOf(h.kid)
             /\ tok[3].by = pub
      BY <2>2 DEF Genuine
    <3>2. h.alg = SchemeOf[pub] /\ d[i] # NotAJwk
      BY <3>1 DEF SignsWith
    <3>3. signer = Slot(d[i].kid, SchemeOf[pub], pub)
      BY <3>1, <3>2 DEF Slot
    <3>. QED  BY <3>1, <3>2, <3>3 DEF SlotsOf, RingOf
  <2>3. ASSUME signer \in RingOf(d) PROVE Genuine(tok, d)
    <3>1. PICK i \in DOMAIN d : d[i] # NotAJwk /\ signer \in SlotsOf(d[i])
      BY <2>3 DEF RingOf
    <3>2. signer # Slot(d[i].kid, "none", Broken)
      BY <1>4 DEF Untouched, Slot
    <3>3. PICK pub \in PublicKeys : /\ SignsWith(d[i], SchemeOf[pub], pub)
                                     /\ signer = Slot(d[i].kid, SchemeOf[pub], pub)
      BY <3>1, <3>2 DEF SlotsOf
    <3>4. IdOf(d[i].kid) = IdOf(h.kid) /\ h.alg = SchemeOf[pub] /\ tok[3].by = pub
      BY <3>3 DEF Slot
    <3>. QED  BY <1>2, <1>4, <3>3, <3>4 DEF Genuine, Untouched
  <2>. QED  BY <1>1, <2>1, <2>2, <2>3
<1>. QED  BY <1>3, <1>4

(* The walk over the document answers as one lookup in the ring.           *)
LEMMA RingAgrees ==
    ASSUME SigInv, document # NotAKeySet, NEW tok \in Tokens, Splits(tok)
    PROVE  Ring!TryAll(RingOf(document), AsToken(tok)) = TryAll(tok)
<1>1. document \in Documents /\ AsToken(tok).kid = IdOf(tok[1].kid)
  BY DEF SigInv, TypeOK, AsToken
<1>2. TryAll(tok) = "miss" <=> Ring!FindAll(RingOf(document), IdOf(tok[1].kid)) = {}
  BY <1>1, TryAllIsExact, RingIds
<1>3. TryAll(tok) = "ok" <=>
        AsToken(tok).signer \in Ring!FindAll(RingOf(document), IdOf(tok[1].kid))
  BY <1>1, TryAllIsExact, RingSigner
<1>4. TryAll(tok) \in {"ok", "miss", "bad"}
  BY TryAllIsExact
<1>. QED  BY <1>1, <1>2, <1>3, <1>4 DEF Ring!TryAll

LEMMA RefreshIsInstall ==
    ASSUME SigInv, NEW d \in Documents \cup {NotAKeySet}, Refresh(d)
    PROVE  Ring!Install \/ Ring!Ignore
<1>1. CASE ~Parses(d)
  BY <1>1 DEF Refresh, Ring!Ignore
<1>2. CASE Parses(d)
  <2>1. d \in Documents /\ document' = d /\ d # NotAKeySet /\ verdict' = "none"
    BY <1>2 DEF Refresh, Parses
  <2>2. PICK i \in DOMAIN d : d[i] # NotAJwk
    BY <1>2 DEF Parses, KeysOf
  <2>3. Slot(d[i].kid, "none", Broken) \in RingOf(d)
    BY <2>2 DEF SlotsOf, RingOf
  <2>. QED  BY <2>1, <2>3, RingTypes, RingAssumption DEF Ring!Install
<1>. QED  BY <1>1, <1>2

LEMMA PresentIsLookUp ==
    ASSUME SigInv, NEW tok \in Tokens, Present(tok)
    PROVE  Ring!LookUp \/ Ring!Ignore
<1>1. document # NotAKeySet /\ document \in Documents /\ document' = document /\ token' = tok
  BY DEF Present, SigInv, Origin, TypeOK
<1>2. CASE ~Splits(tok)
  BY <1>1, <1>2 DEF Present, Ring!Ignore
<1>3. CASE Splits(tok)
  <2>. DEFINE answer == IF verdict' = "malformed" THEN "ok" ELSE verdict'
  <2>1. answer = TryAll(tok) /\ verdict' \notin {"none", "pass"} /\ TryAll(tok) \in {"ok", "bad", "miss"}
    BY <1>1, <1>3, TryAllIsExact DEF Present
  <2>2. answer = Ring!TryAll(RingOf(document), AsToken(tok))
    BY <1>1, <1>3, <2>1, RingAgrees
  <2>3. AsToken(tok) \in [kid : Ids, signer : Slots \cup {Forged}]
    BY <1>3, TokenTypes
  <2>. QED  BY <1>1, <2>1, <2>2, <2>3, RingAssumption DEF Ring!LookUp
<1>. QED  BY <1>2, <1>3

(* Documents, algorithms, odd entries and memos come to what JwksCache     *)
(* takes them for: a set of keys and one lookup in it.                     *)
THEOREM RingTheorem == Spec => ImplementsRing
<1>1. Init => Ring!Init
  BY DEF Init, Ring!Init
<1>2. SigInv /\ [Next]_vars => [Ring!Next]_(Ring!ringVars)
  <2>. SUFFICES ASSUME SigInv, [Next]_vars PROVE [Ring!Next]_(Ring!ringVars)
    OBVIOUS
  <2>1. CASE UNCHANGED vars
    BY <2>1 DEF vars, Ring!ringVars
  <2>2. ASSUME NEW d \in Documents \cup {NotAKeySet}, Refresh(d) PROVE Ring!Next
    BY <2>2, RefreshIsInstall DEF Ring!Next
  <2>3. ASSUME NEW tok \in Tokens, Present(tok) PROVE Ring!Next
    BY <2>3, PresentIsLookUp DEF Ring!Next
  <2>. QED  BY <2>1, <2>2, <2>3 DEF Next
<1>. QED  BY <1>1, <1>2, SigAlways, PTL DEF Spec, Ring!Spec, ImplementsRing
=============================================================================
