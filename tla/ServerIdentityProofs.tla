------------------------ MODULE ServerIdentityProofs ------------------------
(***************************************************************************)
(* What survives the server's restarts, for every number of starts,        *)
(* crashes and failing calls, every length of a second, of a token's and   *)
(* of a certificate's life, and every way the clock is set.                *)
(***************************************************************************)
EXTENDS ServerIdentity, FiniteSetTheorems, TLAPS

(***************************************************************************)
(* The CA.  A process that writes has either found no CA that was ever     *)
(* served, or has not been able to read it.                                *)
(***************************************************************************)
CAType ==
    /\ pc \in {"off", "read", "generate", "create", "write", "rename", "serving"}
    /\ target \in File /\ starts \in Nat /\ ca \in Nat
    /\ disk \in [File -> Nat] /\ misread \in BOOLEAN
    /\ pc # "off" => starts > 0

Writing ==
    /\ pc \in {"read", "generate"} => target = "cert"
    /\ pc \in {"create", "write", "rename"} =>
          ca > 0 /\ (target = "key" => disk["cert"] = ca)
    /\ pc = "rename" => tmp = ca
    /\ pc \in {"generate", "create", "write", "rename"} => misread \/ served = {}

Loaded == pc = "serving" => disk["cert"] = ca /\ disk["key"] = ca /\ ca > 0 /\ ca \in served

Kept == ~misread => \A c \in served : disk["cert"] = c /\ disk["key"] = c /\ c > 0

CAInv == CAType /\ Writing /\ Loaded /\ Kept

\* No process runs at first and nothing is on disk.
LEMMA CAInit == Init => CAInv
<1> SUFFICES ASSUME Init PROVE CAInv
  OBVIOUS
<1>1. disk \in [File -> Nat]
  BY DEF Init, File
<1>2. misread \in BOOLEAN
  BY Zenon DEF Init
<1> QED  BY <1>1, <1>2 DEF Init, CAInv, CAType, Writing, Loaded, Kept, File

\* Every system call of ProvideCA, and a crash after any of them.
LEMMA CANext == ASSUME CAInv, [Next]_vars PROVE CAInv' /\ served \subseteq served'
<1> USE DEF CAInv, CAType, Writing, Loaded, Kept, File
<1>1. CASE Start
  BY <1>1 DEF Start
<1>2. CASE Read
  BY <1>2 DEF Read, Serve
<1>3. CASE ReadFails
  <2>1. misread' \in BOOLEAN
    BY <1>3, Zenon DEF ReadFails
  <2>2. ~misread' => ~misread /\ \E f \in File : disk[f] = 0
    BY <1>3, Zenon DEF ReadFails
  <2>3. ~misread' => served = {}
    BY <2>2
  <2> QED  BY <1>3, <2>1, <2>2, <2>3 DEF ReadFails
<1>4. CASE Generate
  BY <1>4 DEF Generate, NewCA
<1>5. CASE CreateTemp
  BY <1>5 DEF CreateTemp
<1>6. CASE WriteTemp
  BY <1>6 DEF WriteTemp
<1>7. CASE Rename
  BY <1>7 DEF Rename, Serve
<1>8. CASE WriteFails
  BY <1>8 DEF WriteFails
<1>9. CASE Crash
  BY <1>9 DEF Crash
<1>10. CASE UNCHANGED vars
  BY <1>10 DEF vars
<1> QED
  BY <1>1, <1>2, <1>3, <1>4, <1>5, <1>6, <1>7, <1>8, <1>9, <1>10, Zenon DEF Next, ProvideCA

\* The invariant says what a reader of the directory relies on.
LEMMA CAInvStays == CAInv => CAStays
<1> SUFFICES ASSUME CAInv PROVE CAStays
  OBVIOUS
<1>1. pc = "serving" => \A f \in File : disk[f] = ca
  BY DEF CAInv, Loaded, File
<1>2. ASSUME ~misread PROVE Cardinality(served) <= 1
  <2>1. served \in SUBSET {disk["cert"]}
    BY <1>2 DEF CAInv, Kept
  <2>2. IsFiniteSet({disk["cert"]}) /\ Cardinality({disk["cert"]}) = 1
    BY FS_Singleton, Zenon
  <2> QED  BY <2>1, <2>2, FS_Subset
<1>3. misread \in BOOLEAN
  BY DEF CAInv, CAType
<1> QED  BY <1>1, <1>2, <1>3 DEF CAStays
-----------------------------------------------------------------------------
(***************************************************************************)
(* Whole seconds.                                                          *)
(***************************************************************************)

\* A time lies in the second that Unix names.
LEMMA UnixBounds ==
    ASSUME NEW t \in Int
    PROVE  /\ Unix(t) \in Int
           /\ Unix(t) * TicksPerSecond <= t /\ t < (Unix(t) + 1) * TicksPerSecond
BY ClockAssumption DEF Unix

\* The order of two products with a second's length.
LEMMA TimesOrder ==
    ASSUME NEW x \in Int, NEW y \in Int
    PROVE  /\ x <= y => x * TicksPerSecond <= y * TicksPerSecond
           /\ x * TicksPerSecond < y * TicksPerSecond => x < y
BY ClockAssumption

\* A time belongs to one second only.
LEMMA UnixUnique ==
    ASSUME NEW t \in Int, NEW s \in Int, s * TicksPerSecond <= t, t < (s + 1) * TicksPerSecond
    PROVE  Unix(t) = s
<1>1. TicksPerSecond \in Int
  BY ClockAssumption
<1>2. Unix(t) * TicksPerSecond < (s + 1) * TicksPerSecond
  BY <1>1, UnixBounds
<1>3. s * TicksPerSecond < (Unix(t) + 1) * TicksPerSecond
  BY <1>1, UnixBounds
<1>4. Unix(t) < s + 1 /\ s < Unix(t) + 1
  BY <1>2, <1>3, UnixBounds, TimesOrder
<1> QED  BY <1>4, UnixBounds

\* Whole seconds can be taken out of Unix.
LEMMA UnixAdd ==
    ASSUME NEW t \in Int, NEW s \in Int
    PROVE  Unix(t + s * TicksPerSecond) = Unix(t) + s
<1>1. TicksPerSecond \in Int
  BY ClockAssumption
<1>2. /\ (Unix(t) + s) * TicksPerSecond = Unix(t) * TicksPerSecond + s * TicksPerSecond
      /\ (Unix(t) + s + 1) * TicksPerSecond
            = (Unix(t) + 1) * TicksPerSecond + s * TicksPerSecond
  BY <1>1, UnixBounds
<1> QED  BY <1>1, <1>2, UnixBounds, UnixUnique

\* Unix is monotonic.
LEMMA UnixOrder ==
    ASSUME NEW t \in Int, NEW u \in Int, t <= u
    PROVE  Unix(t) <= Unix(u)
<1>1. TicksPerSecond \in Int
  BY ClockAssumption
<1>2. Unix(t) * TicksPerSecond < (Unix(u) + 1) * TicksPerSecond
  BY <1>1, UnixBounds
<1>3. Unix(t) < Unix(u) + 1
  BY <1>2, UnixBounds, TimesOrder
<1> QED  BY <1>3, UnixBounds

\* What X.509 keeps of a time: less than a second is lost.
LEMMA EncodedBounds ==
    ASSUME NEW t \in Int
    PROVE  Encoded(t) \in Int /\ Encoded(t) <= t /\ t < Encoded(t) + TicksPerSecond
<1>1. Unix(t) \in Int /\ TicksPerSecond \in Int
  BY UnixBounds, ClockAssumption
<1>2. (Unix(t) + 1) * TicksPerSecond = Unix(t) * TicksPerSecond + TicksPerSecond
  BY <1>1
<1> QED  BY <1>1, <1>2, UnixBounds DEF Encoded

\* A certificate is accepted while it is in force.
LEMMA InForceValid ==
    ASSUME now \in Int, NEW c, NEW t \in Int, NEW validity \in Nat, NEW cert,
           cert = Certificate(c, t, validity), InForce(cert, validity)
    PROVE  Valid(cert, now) /\ cert.ca = c
<1>1. Backdate \in Int /\ TicksPerSecond \in Int
  BY CertAssumption, ClockAssumption
<1>2. now - t \in (-Backdate)..(validity - TicksPerSecond)
  BY DEF InForce, Certificate
<1>3. /\ cert.NotBefore = Encoded(t - Backdate) /\ cert.NotAfter = Encoded(t + validity)
      /\ cert.ca = c
  BY DEF Certificate
<1>4. Encoded(t - Backdate) \in Int /\ Encoded(t - Backdate) <= t - Backdate
  BY <1>1, EncodedBounds
<1>5. Encoded(t + validity) \in Int /\ t + validity < Encoded(t + validity) + TicksPerSecond
  BY EncodedBounds
<1> QED  BY <1>1, <1>2, <1>3, <1>4, <1>5 DEF Valid
-----------------------------------------------------------------------------
(***************************************************************************)
(* Certificates and tokens.  Each was made with a CA that was served, at a *)
(* time the clock showed, and says so.                                     *)
(***************************************************************************)
ClockOK == now \in Int

AgentsInv ==
    \A a \in agents :
       a.ca \in served /\ a.cert.born \in Int /\ a.cert = SignCSR(a.ca, a.cert.born)

TunnelInv ==
    \A own \in tunnelCert :
       pc = "serving" /\ own.born \in Int /\ own = GenerateServerCert(ca, own.born)

TokensInv ==
    \A t \in tokens :
       /\ t.key \in served /\ t.born \in Int
       /\ t.iat = Unix(t.born) /\ t.exp = Unix(t.born + TTL * TicksPerSecond)
       /\ t.shown = GenerateAgentManifest(t.cluster, t.sub) /\ t.shown # NoManifest

\* The CAs that were generated, among them all that can be on disk or in use.
RootsInv ==
    /\ \A c \in DOMAIN roots : roots[c].born \in Int /\ roots[c] = RootCertificate(c, roots[c].born)
    /\ \A f \in File : disk[f] # 0 => disk[f] \in DOMAIN roots
    /\ pc \in {"create", "write", "rename"} => ca \in DOMAIN roots

IdentityInv == CAInv /\ ClockOK /\ RootsInv /\ AgentsInv /\ TunnelInv /\ TokensInv

\* Nothing has been made at first.
LEMMA IdentityStarts == IdentityInit => IdentityInv
<1> SUFFICES ASSUME IdentityInit PROVE IdentityInv
  OBVIOUS
<1>1. CAInv
  BY CAInit DEF IdentityInit
<1>2. now \in Int
  BY ClockAssumption DEF IdentityInit, TokenInit, ClockInit
<1>3. RootsInv
  BY DEF IdentityInit, Init, RootsInv, EmptyMap
<1> QED
  BY <1>1, <1>2, <1>3
  DEF IdentityInit, TokenInit, IdentityInv, ClockOK, AgentsInv, TunnelInv, TokensInv

\* Only NewCA makes a CA, which then is the one that is written.
LEMMA RootsKept == ASSUME CAInv, ClockOK, RootsInv, Next PROVE RootsInv'
<1>1. CASE Generate
  <2> DEFINE root == RootCertificate(starts, now)
  <2>1. /\ pc' = "create" /\ ca' = starts /\ disk' = disk
        /\ roots' = MapPut(roots, starts, root)
    BY <1>1, Zenon DEF Generate, NewCA
  <2>2. root.born = now /\ now \in Int
    BY DEF RootCertificate, Certificate, ClockOK
  <2>3. ASSUME NEW c \in DOMAIN roots'
        PROVE  roots'[c].born \in Int /\ roots'[c] = RootCertificate(c, roots'[c].born)
    <3>1. CASE c = starts
      <4>1. roots'[c] = root
        BY <2>1, <3>1 DEF MapPut
      <4> QED  BY <2>2, <3>1, <4>1
    <3>2. CASE c # starts
      <4>1. c \in DOMAIN roots /\ roots'[c] = roots[c]
        BY <2>1, <2>3, <3>2 DEF MapPut
      <4> QED  BY <4>1 DEF RootsInv
    <3> QED  BY <3>1, <3>2
  <2>4. DOMAIN roots' = DOMAIN roots \cup {starts}
    BY <2>1 DEF MapPut
  <2> QED  BY <2>1, <2>3, <2>4, Zenon DEF RootsInv
<1>2. CASE Rename
  <2>1. /\ disk' = [disk EXCEPT ![target] = ca] /\ roots' = roots
        /\ ca \in DOMAIN roots /\ disk \in [File -> Nat]
        /\ ca' = ca
    BY <1>2 DEF Rename, Serve, CAInv, CAType, Writing, RootsInv
  <2> QED  BY <2>1 DEF RootsInv
<1>3. CASE Start \/ Read \/ ReadFails \/ WriteFails \/ Crash
  <2>1. UNCHANGED <<disk, roots>> /\ pc' \in {"off", "read", "generate", "serving"}
    BY <1>3 DEF Start, Read, Serve, ReadFails, WriteFails, Crash
  <2> QED  BY <2>1 DEF RootsInv
<1>4. CASE CreateTemp \/ WriteTemp
  <2>1. UNCHANGED <<disk, roots, ca>> /\ pc \in {"create", "write"}
    BY <1>4 DEF CreateTemp, WriteTemp
  <2> QED  BY <2>1 DEF RootsInv
<1> QED  BY <1>1, <1>2, <1>3, <1>4, Zenon DEF Next, ProvideCA

\* A process starts, fails or ends: its own certificate goes with it, what it
\* has signed stays.
LEMMA ProcessKeeps == ASSUME IdentityInv, ProcessStep(Next) PROVE IdentityInv'
<1>1. CAInv' /\ served \subseteq served'
  BY CANext DEF IdentityInv, ProcessStep
<1>2. /\ UNCHANGED <<now, tokens, agents>>
      /\ tunnelCert' = IF pc' = "serving" THEN tunnelCert ELSE {}
  BY DEF ProcessStep, tokenVars
<1>3. pc = "serving" => pc' # "serving"
  BY DEF IdentityInv, ProcessStep, Next, ProvideCA, Start, Read, ReadFails, Generate,
         CreateTemp, WriteTemp, Rename, WriteFails, Crash
<1>4. tunnelCert' = {}
  BY <1>2, <1>3 DEF IdentityInv, TunnelInv
<1>5. RootsInv'
  BY RootsKept DEF IdentityInv, ProcessStep
<1> QED
  BY <1>1, <1>2, <1>4, <1>5 DEF IdentityInv, ClockOK, AgentsInv, TunnelInv, TokensInv

\* GetAgentManifest shows the manifest that the token's claims determine.
LEMMA IssueKeeps == ASSUME IdentityInv, IssueToken PROVE IdentityInv'
<1>1. PICK cluster \in Names, bearer \in Tokens : GetAgentManifest(cluster, bearer, ca)
  BY DEF IssueToken
<1> DEFINE user == Route(Fleet("GetAgentManifest"), bearer).user
           manifest == GenerateAgentManifest(cluster, user)
           token == [key |-> ca, cluster |-> cluster, sub |-> user, iat |-> Unix(now),
                     exp |-> Unix(now + TTL * TicksPerSecond), born |-> now, shown |-> manifest]
<1>2. manifest # NoManifest /\ tokens' = {token} /\ now' = now
  BY <1>1 DEF GetAgentManifest, IssueManifestURL, Issue
<1> HIDE DEF user
<1>3. ca \in served /\ now \in Int /\ UNCHANGED <<vars, tunnelCert, agents>>
  BY DEF IssueToken, certVars, IdentityInv, CAInv, Loaded, ClockOK
<1>4. TokensInv'
  BY <1>2, <1>3 DEF TokensInv, vars
<1> QED
  BY <1>2, <1>3, <1>4
  DEF IdentityInv, CAInv, CAType, Writing, Loaded, Kept, ClockOK, RootsInv, AgentsInv, TunnelInv,
      vars

\* Setting the clock changes nothing else, and neither do the two signatures.
LEMMA IdentityKeeps == ASSUME IdentityInv, [IdentityNext]_identityVars PROVE IdentityInv'
<1>1. CASE ProcessStep(Next)
  BY <1>1, ProcessKeeps
<1>2. CASE IssueToken
  BY <1>2, IssueKeeps
<1>3. CASE BuildTunnelListener
  <2>1. /\ pc = "serving" /\ UNCHANGED <<vars, now, tokens, agents>>
        /\ tunnelCert' = {GenerateServerCert(ca, now)}
    BY <1>3 DEF BuildTunnelListener, tokenVars
  <2>2. CAInv' /\ ClockOK' /\ RootsInv' /\ AgentsInv' /\ TokensInv'
    BY <2>1 DEF vars, IdentityInv, CAInv, CAType, Writing, Loaded, Kept, ClockOK, RootsInv,
                AgentsInv, TokensInv
  <2>3. TunnelInv'
    BY <2>1 DEF TunnelInv, vars, IdentityInv, ClockOK, GenerateServerCert, Certificate
  <2> QED  BY <2>2, <2>3 DEF IdentityInv
<1>4. CASE RegisterAgent
  <2>1. /\ pc = "serving" /\ UNCHANGED <<vars, now, tokens, tunnelCert>>
        /\ agents' = {[cert |-> SignCSR(ca, now), ca |-> ca]}
    BY <1>4, Zenon DEF RegisterAgent, tokenVars
  <2>2. CAInv' /\ ClockOK' /\ RootsInv' /\ TunnelInv' /\ TokensInv'
    BY <2>1 DEF vars, IdentityInv, CAInv, CAType, Writing, Loaded, Kept, ClockOK, RootsInv,
                TunnelInv, TokensInv
  <2>3. AgentsInv'
    BY <2>1 DEF AgentsInv, vars, IdentityInv, CAInv, Loaded, ClockOK, SignCSR, Certificate
  <2> QED  BY <2>2, <2>3 DEF IdentityInv
<1>5. CASE SetClock /\ UNCHANGED <<vars, follow, certVars>>
  <2>1. now' \in Int /\ UNCHANGED <<vars, tokens, tunnelCert, agents>>
    BY <1>5, ClockAssumption DEF SetClock, ClockMoves, certVars
  <2> QED
    BY <2>1 DEF vars, IdentityInv, CAInv, CAType, Writing, Loaded, Kept, ClockOK, RootsInv,
                AgentsInv, TunnelInv, TokensInv
<1>6. CASE UNCHANGED identityVars
  BY <1>6 DEF identityVars, tokenVars, certVars, vars, IdentityInv, CAInv, CAType, Writing,
              Loaded, Kept, ClockOK, RootsInv, AgentsInv, TunnelInv, TokensInv
<1> QED  BY <1>1, <1>2, <1>3, <1>4, <1>5, <1>6 DEF IdentityNext
-----------------------------------------------------------------------------
\* All CAs that were ever served are the one that the process has.
LEMMA OneCA ==
    ASSUME IdentityInv, ~misread, pc = "serving", NEW c \in served
    PROVE  c = ca
BY DEF IdentityInv, CAInv, Loaded, Kept

\* Over all crashes, failed starts and restarts the server keeps its CA, unless
\* an existing one could not be read, and what it serves with is on disk.
THEOREM CAAlwaysStays == IdentitySpec => []CAStays
<1>1. IdentityInv => CAStays
  BY CAInvStays DEF IdentityInv
<1> QED  BY IdentityStarts, IdentityKeeps, <1>1, PTL DEF IdentitySpec

\* An agent with a certificate in force reaches every later process, whatever
\* certificate that process has made for itself, as long as the CA's own is in
\* force too; the clock may be set back by up to Backdate.
THEOREM AgentsAlwaysReconnect == IdentitySpec => []AgentsReconnect
<1>1. ASSUME IdentityInv PROVE AgentsReconnect
  <2> SUFFICES ASSUME NEW a \in agents, NEW own \in tunnelCert, ~misread,
                      InForce(a.cert, CertValidity), InForce(own, ServerValidity),
                      InForce(roots[ca], CAValidity)
               PROVE  Handshake(own, a)
    BY DEF AgentsReconnect
  <2>1. /\ now \in Int /\ a.cert.born \in Int /\ own.born \in Int /\ pc = "serving"
        /\ a.cert = SignCSR(a.ca, a.cert.born) /\ own = GenerateServerCert(ca, own.born)
    BY <1>1 DEF IdentityInv, ClockOK, AgentsInv, TunnelInv
  <2>2. a.ca = ca
    BY <1>1, <2>1, OneCA DEF IdentityInv, AgentsInv
  <2>3. roots[ca].born \in Int /\ roots[ca] = RootCertificate(ca, roots[ca].born)
    BY <1>1, <2>1 DEF IdentityInv, CAInv, Loaded, CAType, RootsInv, File
  <2>4. CertValidity \in Nat /\ ServerValidity \in Nat /\ CAValidity \in Nat
    BY CertAssumption
  <2>5. Valid(a.cert, now) /\ a.cert.ca = ca
    <3> DEFINE cert == a.cert
    <3>1. /\ cert = Certificate(ca, cert.born, CertValidity) /\ cert.born \in Int
          /\ InForce(cert, CertValidity)
      BY <2>1, <2>2 DEF SignCSR
    <3> HIDE DEF cert
    <3>2. Valid(cert, now) /\ cert.ca = ca
      BY <2>1, <2>4, <3>1, InForceValid, Zenon
    <3> QED  BY <3>2 DEF cert
  <2>6. Valid(own, now) /\ own.ca = ca
    BY <2>1, <2>4, InForceValid, Zenon DEF GenerateServerCert
  <2>7. Valid(roots[ca], now) /\ roots[ca].ca = ca
    <3> DEFINE root == roots[ca]
    <3>1. /\ root = Certificate(ca, root.born, CAValidity) /\ root.born \in Int
          /\ InForce(root, CAValidity)
      BY <2>3 DEF RootCertificate
    <3> HIDE DEF root
    <3>2. Valid(root, now) /\ root.ca = ca
      BY <2>1, <2>4, <3>1, InForceValid, Zenon
    <3> QED  BY <3>2 DEF root
  <2> QED  BY <2>2, <2>5, <2>6, <2>7 DEF Handshake, Accepts
<1> QED  BY IdentityStarts, IdentityKeeps, <1>1, PTL DEF IdentitySpec
-----------------------------------------------------------------------------
(***************************************************************************)
(* Tokens.                                                                 *)
(***************************************************************************)
Stamped(t) ==
    t.born \in Int /\ t.iat = Unix(t.born) /\ t.exp = Unix(t.born + TTL * TicksPerSecond)

\* verifyDetailed accepts a token of its key throughout the TTL ...
LEMMA VerifiesWithinTTL ==
    ASSUME now \in Int, NEW t, Stamped(t), WithinTTL(t), NEW key, t.key = key
    PROVE  Verify(t, key)
<1>1. TicksPerSecond \in Int /\ TTL \in Int /\ ClockSkew \in Int
  BY TokenAssumption, ClockAssumption
<1> DEFINE b == t.born
           life == TTL * TicksPerSecond
           skew == ClockSkew * TicksPerSecond
<1>2. b \in Int /\ life \in Int /\ skew \in Int /\ t.iat = Unix(b) /\ t.exp = Unix(b + life)
  BY <1>1 DEF Stamped
<1>3. now <= b + life /\ b <= now + skew
  BY <1>1 DEF WithinTTL, Age, Stamped
<1>4. Unix(b + life) = Unix(b) + TTL /\ Unix(now + skew) = Unix(now) + ClockSkew
  BY <1>1, <1>2, UnixAdd, Zenon
<1> HIDE DEF b, life, skew
<1>5. Unix(now) <= Unix(b + life) /\ Unix(b) <= Unix(now + skew)
  BY <1>2, <1>3, UnixOrder
<1>6. Unix(now) \in Int /\ Unix(b) \in Int
  BY <1>2, UnixBounds
<1>7. ClockSkew >= 0
  BY TokenAssumption, ClockAssumption
<1> QED  BY <1>1, <1>2, <1>4, <1>5, <1>6, <1>7 DEF Verify

\* ... and for less than a second more, at either end.
LEMMA VerifiedAge ==
    ASSUME now \in Int, NEW t, Stamped(t), NEW key, Verify(t, key)
    PROVE  /\ Age(t) < (TTL + 1) * TicksPerSecond
           /\ Age(t) > -(ClockSkew + 1) * TicksPerSecond
<1> DEFINE n == TicksPerSecond
           b == t.born
           ub == Unix(t.born)
           un == Unix(now)
<1>1. n \in Int /\ TTL \in Int /\ ClockSkew \in Int
  BY TokenAssumption, ClockAssumption
<1>2. b \in Int /\ ub \in Int /\ un \in Int
  BY UnixBounds DEF Stamped
<1>3. un <= ub + TTL /\ ub <= un + ClockSkew
  BY <1>1, UnixAdd, Zenon DEF Verify, Stamped
<1>4. /\ un * n <= now /\ now < (un + 1) * n
      /\ ub * n <= b /\ b < (ub + 1) * n
  BY <1>2, UnixBounds
<1>5. Age(t) = now - b
  BY DEF Age
<1>6. (un + 1) * n <= (ub + TTL + 1) * n /\ (ub + 1) * n <= (un + ClockSkew + 1) * n
  <2>1. un + 1 <= ub + TTL + 1 /\ ub + 1 <= un + ClockSkew + 1
    BY <1>1, <1>2, <1>3
  <2> HIDE DEF ub, un
  <2> QED  BY <1>1, <1>2, <2>1, TimesOrder
<1> HIDE DEF n, b, ub, un
<1> DEFINE ubn == ub * n
           unn == un * n
           life == (TTL + 1) * n
           skew == (ClockSkew + 1) * n
<1>7. /\ (ub + TTL + 1) * n = ubn + life
      /\ (un + ClockSkew + 1) * n = unn + skew
  BY <1>1, <1>2
<1>8. life \in Int /\ skew \in Int /\ ubn \in Int /\ unn \in Int
  BY <1>1, <1>2
<1>9. now < ubn + life /\ ubn <= b /\ b < unn + skew /\ unn <= now
  <2>1. (un + 1) * n \in Int /\ (ub + 1) * n \in Int
    BY <1>1, <1>2
  <2> HIDE DEF ubn, unn, life, skew
  <2>2. now < ubn + life /\ b < unn + skew
    BY <1>2, <1>4, <1>6, <1>7, <1>8, <2>1
  <2> QED  BY <1>4, <2>2 DEF ubn, unn
<1> HIDE DEF ubn, unn, life, skew
<1>10. now - b < life /\ now - b > -skew
  BY <1>2, <1>8, <1>9
<1> QED  BY <1>5, <1>10 DEF n, life, skew

\* The raw endpoint is public, so that it always answers: with the manifest
\* that the claims determine, or with an error.
LEMMA RawManifest ==
    ASSUME NEW t, NEW key, GenerateAgentManifest(t.cluster, t.sub) # NoManifest
    PROVE  /\ Verify(t, key) =>
                 handleRawManifest(t, key)
                   = [status |-> 200, manifest |-> GenerateAgentManifest(t.cluster, t.sub)]
           /\ handleRawManifest(t, key).status = 200 => Verify(t, key)
<1> DEFINE manifest == GenerateAgentManifest(t.cluster, t.sub)
<1>1. Route(Manifest(t), NoToken).to = "mux"
  <2>1. HasPrefix(Manifest(t), <<"fleet", "manifest">>)
    BY DEF HasPrefix, Manifest
  <2>2. isPublicPath(Manifest(t))
    BY <2>1 DEF isPublicPath, publicPathPrefixes
  <2> QED  BY <2>2 DEF Route, wrapCORS, wrapAuth
<1>2. CASE Verify(t, key)
  <2> DEFINE claims == {[cluster |-> t.cluster, userName |-> t.sub]}
             manifests == {GenerateAgentManifest(c.cluster, c.userName) : c \in claims}
  <2>1. VerifyManifestToken(t, key) = claims
    BY <1>2 DEF VerifyManifestToken
  <2>2. manifests = {manifest} /\ manifests # {NoManifest} /\ claims # {}
    OBVIOUS
  <2>3. (CHOOSE m \in manifests : TRUE) = manifest
    BY <2>2
  <2>4. handleRawManifest(t, key) = [status |-> 200, manifest |-> manifest]
    BY <1>1, <2>1, <2>2, <2>3 DEF handleRawManifest
  <2> QED  BY <1>2, <2>4
<1>3. CASE ~Verify(t, key)
  BY <1>1, <1>3 DEF handleRawManifest, VerifyManifestToken
<1> QED  BY <1>2, <1>3

\* The URL serves what its user was shown, for its TTL and less than a second
\* more, by every process that comes to serve.
THEOREM TokensAlwaysSurvive == IdentitySpec => []TokensSurviveRestarts
<1>1. ASSUME IdentityInv PROVE TokensSurviveRestarts
  <2> SUFFICES ASSUME NEW t \in tokens, pc = "serving"
               PROVE  LET answer == handleRawManifest(t, ca) IN
                      /\ ~misread /\ WithinTTL(t) =>
                            answer = [status |-> 200, manifest |-> t.shown]
                      /\ answer.status = 200 =>
                            /\ Age(t) < (TTL + 1) * TicksPerSecond
                            /\ Age(t) > -(ClockSkew + 1) * TicksPerSecond
    BY DEF TokensSurviveRestarts
  <2>1. /\ now \in Int /\ Stamped(t) /\ t.key \in served
        /\ t.shown = GenerateAgentManifest(t.cluster, t.sub) /\ t.shown # NoManifest
    BY <1>1 DEF IdentityInv, ClockOK, TokensInv, Stamped
  <2>2. ASSUME ~misread, WithinTTL(t)
        PROVE  handleRawManifest(t, ca) = [status |-> 200, manifest |-> t.shown]
    <3>1. t.key = ca
      BY <1>1, <2>1, <2>2, OneCA
    <3>2. Verify(t, ca)
      BY <2>1, <2>2, <3>1, VerifiesWithinTTL
    <3> QED  BY <2>1, <3>2, RawManifest
  <2>3. ASSUME handleRawManifest(t, ca).status = 200
        PROVE  /\ Age(t) < (TTL + 1) * TicksPerSecond
               /\ Age(t) > -(ClockSkew + 1) * TicksPerSecond
    <3>1. Verify(t, ca)
      BY <2>1, <2>3, RawManifest
    <3> QED  BY <2>1, <3>1, VerifiedAge
  <2> QED  BY <2>2, <2>3
<1> QED  BY IdentityStarts, IdentityKeeps, <1>1, PTL DEF IdentitySpec
=============================================================================
