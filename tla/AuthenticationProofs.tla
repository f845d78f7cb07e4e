------------------------ MODULE AuthenticationProofs ------------------------
(***************************************************************************)
(* Proofs about Authentication: the browser profile is one call's at a     *)
(* time, and a save leaves a session in the file, for every set of threads *)
(* and processes, every mix of clients, refreshes, logins and captures,    *)
(* and every number of crashes.                                            *)
(*                                                                         *)
(* The second half is about the live gates, which share nothing with it:   *)
(* no gate writes again once a write is in doubt, whatever its plan; the   *)
(* gates of rich input accept exactly what meets their contracts; and what *)
(* the summary of a passing gate claims is true, for every sound plan and  *)
(* every number of disturbances.                                           *)
(***************************************************************************)
EXTENDS Authentication, LiveGate, FiniteSetTheorems, WellFoundedInduction, TLAPS

-----------------------------------------------------------------------------
(* The inductive invariants *)

\* UsesProfile, of a call.
Uses(c) ==
  \/ c.pc \in Browsing
  \/ c.pc \in {"load", "seed", "merge", "replace"} /\ c.phase # "start"

\* A capture loads nothing, a login asks for nothing, and only a save knows the
\* session it is told of.
Ordered(c) ==
  /\ c.pc = "ask" => c.phase = "start"
  /\ c.pc \in {"load", "seed"} => c.phase # "capture"
  /\ c.pc = "capture" => c.phase = "capture" /\ c.tries < 2
  /\ c.told # 0 => c.pc \in {"merge", "replace"}
  /\ c.pc \in {"merge", "replace"} => c.told # 0 \/ c.phase = "capture"

\* Who uses the profile holds its lock: ProfileIsExclusive needs it in every
\* position between the two ends of a hold.
HolderInv ==
  \A a \in Actors : Ordered(call[a]) /\ (Uses(call[a]) => holder = a)

\* A jar whose session is s, as a load would take it.
Belongs(jar, s) ==
  Normalize(jar) \in {[plain |-> s, chunk |-> 0], [plain |-> 0, chunk |-> s]}

\* What is saved under a session's name has that session's cookie.
SavedInv ==
  /\ \A a \in Actors : call[a].told # 0 => Belongs(call[a].auth.jar, call[a].told)
  /\ saved # 0 => Belongs(file.auth.jar, saved)

\* A call's cookies: whole, and clean where they go into a browser.
Kept(c) ==
  /\ Whole(c.auth.jar) /\ CleanRecords(c.auth.records) /\ Clean(c.names)
  /\ c.pc = "open" => Clean(c.auth.jar)

\* What a capture is about to save has a session if the profile has one.
Carried(c) ==
  c.pc \in {"merge", "replace"} /\ c.phase = "capture" /\ HasSession(profile)
    => HasSession(c.auth.jar)

CookieInv ==
  /\ Clean(profile)
  /\ Whole(file.auth.jar) /\ CleanRecords(file.auth.records)
  /\ \A a \in Actors : Kept(call[a]) /\ Carried(call[a])

-----------------------------------------------------------------------------
(* Lemmas about cookies and records *)

\* What is kept of a call that becomes c.
Rest(c) == IF c.pc \in {"ended", "failed"} THEN [Fresh("client") EXCEPT !.pc = c.pc] ELSE c

\* The cookie operators keep jars jars.
LEMMA JarTypes ==
  ASSUME NEW jar \in Jars, NEW other \in Jars, NEW s \in Sessions
  PROVE  /\ Normalize(jar) \in Jars
         /\ \A seed \in Sessions \cup {0} : Seeded(jar, seed) \in Jars
         /\ Without(jar, other) \in Jars /\ Overlay(jar, other) \in Jars
         /\ AfterBrowser(jar, s) \subseteq Jars
         /\ AfterSetCookie(jar, s) \subseteq Jars
<1> USE DEF Jars
<1>1. Normalize(jar) \in Jars
  BY DEF Normalize
<1>2. \A seed \in Sessions \cup {0} : Seeded(jar, seed) \in Jars
  BY DEF Seeded
<1>3. Without(jar, other) \in Jars /\ Overlay(jar, other) \in Jars
  BY DEF Without, Overlay
<1>4. AfterBrowser(jar, s) \subseteq Jars
  BY DEF AfterBrowser
<1>5. AfterSetCookie(jar, s) \subseteq Jars
  <2> DEFINE gone(old) == IF old = 0 THEN 0 ELSE Blank
             toPlain == [plain |-> s, chunk |-> gone(jar.chunk)]
             toChunk == [plain |-> gone(jar.plain), chunk |-> s]
             kept == [jar EXCEPT !.chunk = s]
  <2>1. AfterSetCookie(jar, s) \subseteq {toPlain, toChunk, kept}
    BY DEF AfterSetCookie
  <2>2. {toPlain, toChunk, kept} \subseteq Jars
    OBVIOUS
  <2> HIDE DEF Jars
  <2> QED  BY <2>1, <2>2
<1> QED  BY <1>1, <1>2, <1>3, <1>4, <1>5

\* Saved records are those of one jar.
LEMMA RecordTypes ==
  /\ <<>> \in Records
  /\ \A jar \in Jars : <<jar>> \in Records
  /\ \A r \in Records : r # <<>> => Head(r) \in Jars
  /\ \A r \in Records : r # <<>> => 1 \in DOMAIN r /\ Head(r) = r[1]
BY DEF Records

\* A token the file or the environment has is one of theirs.
LEMMA CandidateTypes ==
  ASSUME TypeOK, NEW access \in Sessions \cup {0, EnvToken}
  PROVE  Candidate(access) \in Sessions \cup {0, EnvToken}
<1>1. access \in Int /\ dead \in Int
  BY AuthAssumption DEF TypeOK, Sessions, EnvToken
<1> QED  BY <1>1 DEF Candidate

\* A fresh call, at any position, is a call.
LEMMA FreshTypes ==
  ASSUME NEW op \in Ops, NEW to \in PCs
  PROVE  Fresh(op) \in Calls /\ [Fresh(op) EXCEPT !.pc = to] \in Calls
<1>1. NoJar \in Jars
  BY DEF NoJar, Jars
<1>2. NoAuth \in Auths
  BY <1>1, RecordTypes DEF NoAuth, Auths
<1>3. NoFile \in Files
  BY <1>2 DEF NoFile, Files
<1>4. "load" \in PCs
  BY DEF PCs
<1>5. Fresh(op) \in Calls
  <2> HIDE DEF Files, Auths, Jars, NoFile, NoAuth, NoJar, PCs, Ops
  <2>1. 0 \in Sessions \cup {0} /\ 0 \in 0..2
    OBVIOUS
  <2> QED  BY <1>1, <1>2, <1>3, <1>4, <2>1 DEF Fresh, Calls
<1>6. [Fresh(op) EXCEPT !.pc = to] \in Calls
  BY <1>5 DEF Calls
<1> QED  BY <1>5, <1>6

\* A call that becomes c is c, or what is left of it.
LEMMA BecomeCall ==
  ASSUME NEW a \in Actors, NEW c \in Calls, call \in [Actors -> Calls], Become(a, c)
  PROVE  /\ call' \in [Actors -> Calls]
         /\ call'[a] = Rest(c)
         /\ \A b \in Actors \ {a} : call'[b] = call[b]
<1>1. Rest(c) \in Calls
  <2>1. c.pc \in PCs /\ "client" \in Ops
    BY DEF Calls, Ops
  <2> QED  BY <2>1, FreshTypes DEF Rest
<1>2. call' = [call EXCEPT ![a] = Rest(c)]
  BY DEF Become, Rest
<1> QED  BY <1>1, <1>2

\* What is left of a call is in order if the call is.
LEMMA RestOrdered ==
  ASSUME NEW c \in Calls, Ordered(c)
  PROVE  /\ Ordered(Rest(c))
         /\ Uses(Rest(c)) => Uses(c)
         /\ Rest(c).told # 0 => Rest(c) = c
<1>1. CASE c.pc \in {"ended", "failed"}
  <2>1. /\ Rest(c).pc = c.pc /\ Rest(c).told = 0 /\ Rest(c).phase = "start"
    BY <1>1 DEF Rest, Fresh
  <2> QED  BY <1>1, <2>1 DEF Ordered, Uses, Browsing
<1>2. CASE c.pc \notin {"ended", "failed"}
  BY <1>2 DEF Rest
<1> QED  BY <1>1, <1>2

-----------------------------------------------------------------------------
(* What a step does to its call *)

AuthInv == TypeOK /\ HolderInv

\* The end of a load: a login goes on to its browser, anything else to the
\* server, to a client or to an error, which may begin a login.
LEMMA LoadedCall ==
  ASSUME TypeOK, NEW c \in Calls, c.pc \in {"load", "seed"}, Ordered(c), NEW auth \in Auths
  PROVE  /\ Loaded(c, auth) \in Calls /\ Ordered(Loaded(c, auth))
         /\ Uses(Loaded(c, auth)) => Uses(c)
         /\ Loaded(c, auth).told = 0 /\ Loaded(c, auth).names = c.names
         /\ Loaded(c, auth).pc \in {"open", "profile", "failed", "ask", "ready"}
         /\ \/ Loaded(c, auth).auth \in {c.auth, NoAuth}
               /\ (Loaded(c, auth).pc = "open" => Loaded(c, auth).auth = NoAuth)
            \/ /\ Loaded(c, auth).auth.jar = Normalize(auth.jar)
               /\ Loaded(c, auth).auth.records = auth.records
<1> DEFINE access == Candidate(auth.access)
           read   == [access |-> access, jar |-> Normalize(auth.jar),
                      records |-> auth.records]
           found  == access # 0 \/ HasSession(auth.jar)
<1>1. read \in Auths /\ NoAuth \in Auths
  <2>1. NoAuth \in Auths
    BY RecordTypes DEF NoAuth, Auths, NoJar, Jars
  <2>2. \A jar \in Jars : Normalize(jar) \in Jars
    BY DEF Normalize, Jars
  <2> QED  BY <2>1, <2>2, CandidateTypes DEF Auths
<1>2. c.told = 0 /\ c.phase \in {"start", "login"}
  BY DEF Ordered, Calls
<1> HIDE DEF read, found
<1>3. CASE c.phase = "login"
  <2>1. Loaded(c, auth) = [c EXCEPT !.pc = "open", !.auth = IF found THEN read ELSE NoAuth]
    BY <1>3 DEF Loaded, read, found
  <2>2. Loaded(c, auth) \in Calls
    BY <1>1, <2>1 DEF Calls, PCs
  <2> QED
    BY <1>2, <1>3, <2>1, <2>2 DEF Ordered, Uses, Browsing, Calls, read
<1>4. CASE c.phase = "start" /\ ~found
  <2>1. Loaded(c, auth) = AuthError(c)
    BY <1>4 DEF Loaded, read, found
  <2>2. AuthError(c) \in Calls
    BY <1>4 DEF AuthError, Calls, PCs
  <2> QED
    BY <1>2, <1>4, <2>1, <2>2 DEF AuthError, Ordered, Uses, Browsing, Calls
<1>5. CASE c.phase = "start" /\ found
  <2>1. PICK to \in {"ask", "ready"} :
          Loaded(c, auth) = [c EXCEPT !.auth = read, !.pc = to]
    BY <1>5 DEF Loaded, read, found
  <2>2. Loaded(c, auth) \in Calls
    BY <1>1, <2>1 DEF Calls, PCs
  <2> QED
    BY <1>2, <1>5, <2>1, <2>2 DEF Ordered, Uses, Browsing, Calls, read
<1> QED  BY <1>2, <1>3, <1>4, <1>5

\* A step of a keeps the invariant's calls if it leaves a's own in order and
\* holding the profile it uses, and takes the profile from nobody.
LEMMA HolderStep ==
  ASSUME AuthInv, NEW a \in Actors, NEW c \in Calls, Become(a, c), Ordered(c),
         Uses(c) => holder' = a,
         holder' = holder \/ \A b \in Actors \ {a} : ~Uses(call[b])
  PROVE  call' \in [Actors -> Calls] /\ HolderInv'
<1>1. /\ call' \in [Actors -> Calls]
      /\ call'[a] = Rest(c)
      /\ \A b \in Actors \ {a} : call'[b] = call[b]
  BY BecomeCall DEF AuthInv, TypeOK
<1>2. Ordered(call'[a]) /\ (Uses(call'[a]) => holder' = a)
  BY <1>1, RestOrdered
<1>3. ASSUME NEW b \in Actors \ {a}
      PROVE  Ordered(call'[b]) /\ (Uses(call'[b]) => holder' = b)
  BY <1>1 DEF AuthInv, HolderInv
<1> HIDE DEF Ordered, Uses
<1>4. \A b \in Actors : Ordered(call'[b]) /\ (Uses(call'[b]) => holder' = b)
  BY <1>2, <1>3
<1> QED  BY <1>1, <1>4 DEF HolderInv, Ordered, Uses

\* A step that leaves everything but its call alone.
Only(a, c) ==
  /\ Become(a, c)
  /\ UNCHANGED <<file, profile, holder, writer, issued, near, dead, env, crashes, saved>>

\* Such a step keeps the invariant if it leaves its call in order.
LEMMA OnlyCall ==
  ASSUME AuthInv, NEW a \in Actors, NEW c \in Calls, Only(a, c), Ordered(c),
         Uses(c) => Uses(call[a])
  PROVE  AuthInv'
<1>1. call' \in [Actors -> Calls] /\ HolderInv'
  BY HolderStep DEF AuthInv, HolderInv, Only
<1> QED  BY <1>1 DEF AuthInv, TypeOK, Only

\* The calls that load keep the invariant ...
LEMMA LoadStep ==
  ASSUME AuthInv, NEW a \in Actors, Load(a) \/ Seed(a)
  PROVE  AuthInv'
<1>1. call[a] \in Calls /\ Ordered(call[a]) /\ file \in Files
  BY DEF AuthInv, TypeOK, HolderInv
<1>2. file.auth \in Auths /\ file.session \in Sessions \cup {0} /\ call[a].auth \in Auths
  BY <1>1 DEF Files, Calls
<1>3. CASE Load(a) /\ (HasSession(file.auth.jar) \/ ~file.exists)
  <2>1. Only(a, Loaded(call[a], file.auth)) /\ call[a].pc = "load"
    BY <1>3 DEF Load, Only
  <2> QED  BY <1>1, <1>2, <2>1, LoadedCall, OnlyCall DEF AuthInv
<1>4. CASE Load(a) /\ ~(HasSession(file.auth.jar) \/ ~file.exists)
  <2> DEFINE c == [call[a] EXCEPT !.pc = "seed", !.auth = file.auth]
  <2>1. Only(a, c) /\ call[a].pc = "load"
    BY <1>4 DEF Load, Only
  <2>2. c \in Calls
    BY <1>1, <1>2 DEF Calls, PCs
  <2>3. Ordered(c) /\ (Uses(c) => Uses(call[a]))
    BY <1>1, <2>1, <2>2 DEF Ordered, Uses, Browsing, Calls
  <2> QED  BY <2>1, <2>2, <2>3, OnlyCall
<1>5. CASE Seed(a)
  <2> DEFINE auth == [call[a].auth EXCEPT !.jar = Seeded(@, file.session)]
  <2>1. Only(a, Loaded(call[a], auth)) /\ call[a].pc = "seed"
    BY <1>5 DEF Seed, Only
  <2>2. auth \in Auths
    <3>1. call[a].auth.jar \in Jars
      BY <1>2 DEF Auths
    <3>2. Seeded(call[a].auth.jar, file.session) \in Jars
      BY <1>2, <3>1 DEF Seeded, Jars
    <3> QED  BY <1>2, <3>2 DEF Auths
  <2> QED  BY <1>1, <2>1, <2>2, LoadedCall, OnlyCall DEF AuthInv
<1> QED  BY <1>3, <1>4, <1>5

\* ... those that ask and save ...
LEMMA SaveStep ==
  ASSUME AuthInv, NEW a \in Actors, AskSession(a) \/ BeginSave(a) \/ EndSave(a)
  PROVE  AuthInv'
<1>1. call[a] \in Calls /\ Ordered(call[a]) /\ (Uses(call[a]) => holder = a)
  BY DEF AuthInv, TypeOK, HolderInv
<1>2. call[a].auth \in Auths /\ call[a].base \in Files /\ call[a].told \in Sessions \cup {0}
      /\ file \in Files
  BY <1>1 DEF Calls, AuthInv, TypeOK
<1>3. CASE AskSession(a)
  <2>1. call[a].pc = "ask" /\ call[a].phase = "start" /\ call[a].told = 0
    BY <1>1, <1>3 DEF AskSession, Ordered
  <2>2. CASE Become(a, AuthError(call[a])) /\ UNCHANGED issued
    <3> DEFINE c == AuthError(call[a])
    <3>1. c \in Calls
      BY <1>1 DEF AuthError, Calls, PCs
    <3>2. Ordered(c) /\ (Uses(c) => Uses(call[a]))
      BY <1>1, <2>1 DEF AuthError, Ordered, Uses, Browsing, Calls
    <3>3. Only(a, c)
      BY <1>3, <2>2 DEF AskSession, Only
    <3> HIDE DEF c
    <3> QED  BY <3>1, <3>2, <3>3, OnlyCall
  <2>3. CASE /\ issued < MaxSessions
             /\ issued' = issued + 1
             /\ \E jar \in AfterSetCookie(call[a].auth.jar, issued') :
                  Become(a, [call[a] EXCEPT !.auth.jar = jar, !.auth.access = issued',
                                            !.told = issued', !.pc = "merge"])
    <3>1. PICK jar \in AfterSetCookie(call[a].auth.jar, issued') :
            Become(a, [call[a] EXCEPT !.auth.jar = jar, !.auth.access = issued',
                                      !.told = issued', !.pc = "merge"])
      BY <2>3
    <3> DEFINE c == [call[a] EXCEPT !.auth.jar = jar, !.auth.access = issued',
                                    !.told = issued', !.pc = "merge"]
    <3>2. issued' \in Sessions /\ near \in 0..issued'
      BY <2>3, AuthAssumption DEF AuthInv, TypeOK, Sessions
    <3>3. jar \in Jars
      <4>1. call[a].auth.jar \in Jars
        BY <1>2 DEF Auths
      <4> QED  BY <3>1, <3>2, <4>1, JarTypes
    <3>4. c \in Calls
      BY <1>1, <1>2, <3>2, <3>3 DEF Calls, Auths, PCs
    <3>5. c.pc = "merge" /\ c.phase = "start" /\ c.told # 0
      BY <1>1, <2>1, <3>2 DEF Calls, Sessions
    <3>6. Ordered(c) /\ ~Uses(c)
      BY <3>5 DEF Ordered, Uses, Browsing
    <3>7. Become(a, c) /\ UNCHANGED <<file, profile, holder, writer, near, dead, env, crashes,
                                      saved>>
      BY <1>3, <3>1 DEF AskSession
    <3> HIDE DEF c
    <3>8. call' \in [Actors -> Calls] /\ HolderInv'
      BY <3>4, <3>6, <3>7, HolderStep
    <3> QED  BY <3>2, <3>7, <3>8 DEF AuthInv, TypeOK
  <2> QED  BY <1>3, <2>2, <2>3 DEF AskSession
<1>4. CASE BeginSave(a)
  <2> DEFINE c == [call[a] EXCEPT !.base = file, !.pc = "replace"]
  <2>1. call[a].pc = "merge" /\ Become(a, c)
        /\ UNCHANGED <<file, profile, holder, issued, near, dead, env, crashes, saved>>
        /\ writer' = [writer EXCEPT ![ProcessOf[a]] = a]
    BY <1>4 DEF BeginSave
  <2>2. c \in Calls
    BY <1>1, <1>2 DEF Calls, PCs
  <2>3. Ordered(c) /\ (Uses(c) => Uses(call[a]))
    BY <1>1, <2>1, <2>2 DEF Ordered, Uses, Browsing, Calls
  <2> HIDE DEF c
  <2>4. call' \in [Actors -> Calls] /\ HolderInv'
    BY <1>1, <2>1, <2>2, <2>3, HolderStep
  <2> QED  BY <2>1, <2>4, AuthAssumption DEF AuthInv, TypeOK
<1>5. CASE EndSave(a)
  <2>1. PICK to \in {"close", "ended", "ready"} :
          /\ Become(a, [call[a] EXCEPT !.base = NoFile, !.told = 0, !.pc = to])
          /\ to = "close" => call[a].phase # "start"
    BY <1>5 DEF EndSave
  <2> DEFINE c == [call[a] EXCEPT !.base = NoFile, !.told = 0, !.pc = to]
  <2>2. /\ call[a].pc = "replace"
        /\ file' = Merged(call[a].base, call[a].auth, call[a].told)
        /\ saved' = call[a].told
        /\ writer' = [writer EXCEPT ![ProcessOf[a]] = NoActor]
        /\ UNCHANGED <<profile, holder, issued, near, dead, env, crashes>>
    BY <1>5 DEF EndSave
  <2>3. c \in Calls
    <3>1. NoFile \in Files /\ 0 \in Sessions \cup {0}
      BY RecordTypes DEF NoFile, Files, NoAuth, Auths, NoJar, Jars
    <3> QED  BY <1>1, <3>1 DEF Calls, PCs
  <2>4. Ordered(c) /\ (Uses(c) => Uses(call[a]))
    BY <1>1, <2>1, <2>2, <2>3 DEF Ordered, Uses, Browsing, Calls
  <2> HIDE DEF c
  <2>5. call' \in [Actors -> Calls] /\ HolderInv'
    BY <1>1, <2>1, <2>2, <2>3, <2>4, HolderStep DEF c
  <2>6. file' \in Files
    <3>1. call[a].auth.jar \in Jars /\ call[a].auth.jar.plain \in Sessions \cup {0, Blank}
      BY <1>2 DEF Auths, Jars
    <3>2. call[a].auth.jar.plain > 0 => call[a].auth.jar.plain \in Sessions
      BY <3>1 DEF Blank
    <3>3. [call[a].auth EXCEPT !.access = IF @ = 0 THEN call[a].base.auth.access ELSE @]
            \in Auths
      BY <1>2 DEF Auths, Files
    <3>4. file'.session \in Sessions \cup {0}
      BY <1>2, <2>2, <3>2 DEF Merged, Files
    <3> QED  BY <2>2, <3>3, <3>4 DEF Merged, Files
  <2> QED  BY <1>2, <2>2, <2>5, <2>6, AuthAssumption DEF AuthInv, TypeOK
<1> QED  BY <1>3, <1>4, <1>5

\* ... those that only move their call ...
LEMMA MoveStep ==
  ASSUME AuthInv, NEW a \in Actors,
         \/ Begin(a) \/ ProfileBusy(a) \/ SignInTimesOut(a) \/ BeginCapture(a)
         \/ CaptureFails(a)
  PROVE  AuthInv'
<1>1. call[a] \in Calls /\ Ordered(call[a])
  BY DEF AuthInv, TypeOK, HolderInv
<1>2. CASE Begin(a)
  <2>1. ASSUME NEW c \in Calls, Only(a, c), c.told = 0,
               \/ c.pc = "profile"
               \/ c.pc = "load" /\ c.phase = "start"
        PROVE  AuthInv'
    <3>1. Ordered(c) /\ ~Uses(c)
      BY <2>1 DEF Ordered, Uses, Browsing
    <3> QED  BY <2>1, <3>1, OnlyCall
  <2>2. Fresh(call[a].op) \in Calls
    <3>1. call[a].op \in Ops /\ "load" \in PCs
      BY <1>1 DEF Calls, PCs
    <3> QED  BY <3>1, FreshTypes
  <2>3. CASE call[a].op \in {"login", "force"}
    <3> DEFINE c == [Fresh(call[a].op) EXCEPT !.pc = "profile", !.phase = "login"]
    <3>1. c \in Calls /\ c.told = 0 /\ c.pc = "profile"
      BY <2>2 DEF Calls, PCs, Fresh
    <3>2. Only(a, c)
      BY <1>2, <2>3 DEF Begin, Only
    <3> HIDE DEF c
    <3> QED  BY <2>1, <3>1, <3>2
  <2>4. CASE call[a].op \notin {"login", "force"}
    <3>1. Only(a, Fresh(call[a].op))
      BY <1>2, <2>4 DEF Begin, Only
    <3>2. LET c == Fresh(call[a].op) IN c.told = 0 /\ c.pc = "load" /\ c.phase = "start"
      BY DEF Fresh
    <3> QED  BY <2>1, <2>2, <3>1, <3>2
  <2> QED  BY <2>3, <2>4
<1>3. ASSUME NEW to \in {"ended", "failed"}, Only(a, [call[a] EXCEPT !.pc = to]),
             call[a].pc = "profile"
      PROVE  AuthInv'
  <2> DEFINE c == [call[a] EXCEPT !.pc = to]
  <2>1. c \in Calls /\ c.pc = to /\ c.told = call[a].told
    BY <1>1 DEF Calls, PCs
  <2> HIDE DEF c
  <2>2. Ordered(c) /\ ~Uses(c)
    BY <1>1, <1>3, <2>1 DEF Ordered, Uses, Browsing
  <2> QED  BY <1>3, <2>1, <2>2, OnlyCall DEF c
<1>4. CASE ProfileBusy(a)
  BY <1>3, <1>4 DEF ProfileBusy, Only
<1>5. ASSUME NEW c \in Calls, Only(a, c), c.told = call[a].told, c.phase = call[a].phase,
             call[a].pc \in {"session", "capture"},
             \/ c.pc = "close"
             \/ c.pc = "capture" /\ call[a].pc = "capture" /\ c.tries < 2
      PROVE  AuthInv'
  <2>1. Ordered(c) /\ Uses(call[a])
    BY <1>1, <1>5 DEF Ordered, Uses, Browsing
  <2> QED  BY <1>5, <2>1, OnlyCall
<1>6. CASE SignInTimesOut(a)
  <2> DEFINE c == [call[a] EXCEPT !.pc = "close"]
  <2>1. /\ c \in Calls /\ c.pc = "close" /\ c.told = call[a].told
        /\ c.phase = call[a].phase
    BY <1>1 DEF Calls, PCs
  <2>2. Only(a, c) /\ call[a].pc = "session"
    BY <1>6 DEF SignInTimesOut, Only
  <2> HIDE DEF c
  <2> QED  BY <1>5, <2>1, <2>2
<1>7. CASE CaptureFails(a)
  <2> DEFINE tries == call[a].tries + 1
             to == IF call[a].tries = 1 THEN "close" ELSE "capture"
             c == [call[a] EXCEPT !.tries = tries, !.pc = to]
  <2>1. call[a].pc = "capture" /\ call[a].tries \in {0, 1}
    BY <1>1, <1>7 DEF CaptureFails, Ordered, Calls
  <2>2. tries \in 0..2 /\ (to = "close" \/ (to = "capture" /\ tries < 2))
    BY <2>1
  <2>3. Only(a, c)
    BY <1>1, <1>7 DEF CaptureFails, Only, Calls
  <2> HIDE DEF tries, to
  <2>4. /\ c \in Calls /\ c.told = call[a].told /\ c.phase = call[a].phase
        /\ c.pc = "close" \/ (c.pc = "capture" /\ c.tries < 2)
    <3>1. to \in PCs
      BY <2>2 DEF PCs
    <3> QED  BY <1>1, <2>2, <3>1 DEF Calls
  <2> HIDE DEF c
  <2> QED  BY <1>5, <2>1, <2>3, <2>4
<1>8. CASE BeginCapture(a)
  <2> DEFINE c == [call[a] EXCEPT !.pc = "profile", !.phase = "capture"]
  <2>1. c \in Calls /\ c.pc = "profile" /\ c.told = call[a].told
    BY <1>1 DEF Calls, PCs
  <2>2. Only(a, c) /\ call[a].pc = "ready"
    BY <1>8 DEF BeginCapture, Only
  <2> HIDE DEF c
  <2>3. Ordered(c) /\ ~Uses(c)
    BY <1>1, <2>1, <2>2 DEF Ordered, Uses, Browsing
  <2> QED  BY <2>1, <2>2, <2>3, OnlyCall
<1> QED  BY <1>2, <1>4, <1>6, <1>7, <1>8

\* ... those that take the profile, use it, and give it back ...
LEMMA ProfileStep ==
  ASSUME AuthInv, NEW a \in Actors,
         \/ AcquireProfile(a) \/ Open(a) \/ SignedIn(a) \/ ClearSeeds(a)
         \/ Captured(a) \/ Close(a)
  PROVE  AuthInv'
<1>1. call[a] \in Calls /\ Ordered(call[a]) /\ (Uses(call[a]) => holder = a)
  BY DEF AuthInv, TypeOK, HolderInv
<1>2. /\ call[a].auth \in Auths /\ call[a].names \in Jars /\ call[a].auth.jar \in Jars
      /\ call[a].auth.records \in Records /\ profile \in Jars
  BY <1>1 DEF Calls, Auths, AuthInv, TypeOK
<1>3. CASE AcquireProfile(a)
  <2> DEFINE to == IF call[a].phase = "capture" THEN "capture"
                   ELSE IF call[a].op # "force" /\ file.exists THEN "load" ELSE "open"
             auth == IF call[a].phase = "capture" THEN call[a].auth ELSE NoAuth
             c == [call[a] EXCEPT !.ok = FALSE, !.cleared = FALSE, !.tries = 0,
                                  !.auth = auth, !.pc = to]
  <2>1. /\ call[a].pc = "profile" /\ holder = NoActor /\ holder' = a
        /\ UNCHANGED <<file, profile, writer, issued, near, dead, env, crashes, saved>>
    BY <1>3 DEF AcquireProfile
  <2>2. Become(a, c)
    BY <1>1, <1>3 DEF AcquireProfile, Calls
  <2>3. /\ to \in {"capture", "open", "load"}
        /\ to = "capture" <=> call[a].phase = "capture"
    OBVIOUS
  <2>4. auth \in Auths
    BY <1>2, RecordTypes DEF NoAuth, Auths, NoJar, Jars
  <2> HIDE DEF to, auth
  <2>5. /\ c \in Calls /\ c.pc = to /\ c.told = call[a].told /\ c.phase = call[a].phase
        /\ c.tries = 0
    <3>1. 0 \in 0..2 /\ to \in PCs
      BY <2>3 DEF PCs
    <3> QED  BY <1>1, <2>4, <3>1 DEF Calls
  <2> HIDE DEF c
  <2>6. Ordered(c)
    BY <1>1, <2>1, <2>3, <2>5 DEF Ordered
  <2>7. \A b \in Actors \ {a} : ~Uses(call[b])
    BY <2>1, AuthAssumption DEF AuthInv, HolderInv
  <2>8. call' \in [Actors -> Calls] /\ HolderInv'
    BY <2>1, <2>2, <2>5, <2>6, <2>7, HolderStep
  <2> QED  BY <2>1, <2>8 DEF AuthInv, TypeOK
<1>4. ASSUME NEW c \in Calls, Become(a, c), Ordered(c), Uses(call[a]),
             profile' \in Jars, issued' \in {issued, issued + 1}, issued' <= MaxSessions,
             UNCHANGED <<file, holder, writer, near, dead, env, crashes, saved>>
      PROVE  AuthInv'
  <2>1. call' \in [Actors -> Calls] /\ HolderInv'
    BY <1>1, <1>4, HolderStep
  <2>2. issued' \in Sessions /\ near \in 0..issued'
    BY <1>4, AuthAssumption DEF AuthInv, TypeOK, Sessions
  <2> QED  BY <1>4, <2>1, <2>2 DEF AuthInv, TypeOK
<1>5. issued <= MaxSessions /\ issued \in Nat /\ MaxSessions \in Nat
  BY AuthAssumption DEF AuthInv, TypeOK, Sessions
<1>6. CASE Open(a)
  <2> DEFINE names == IF call[a].op = "force" THEN NoJar ELSE call[a].auth.jar
             seeds == IF call[a].auth.records = <<>> THEN call[a].auth.jar
                      ELSE Head(call[a].auth.records)
             c == [call[a] EXCEPT !.pc = "session", !.names = names]
  <2>1. /\ call[a].pc = "open" /\ Become(a, c)
        /\ profile' = (CASE call[a].op = "force" -> NoJar
                         [] OTHER -> Overlay(Without(profile, names), seeds))
        /\ UNCHANGED <<file, holder, writer, issued, near, dead, env, crashes, saved>>
    BY <1>6 DEF Open
  <2>2. names \in Jars /\ seeds \in Jars /\ NoJar \in Jars
    BY <1>2, RecordTypes DEF NoJar, Jars
  <2>3. /\ c \in Calls /\ c.pc = "session" /\ c.told = call[a].told
    BY <1>1, <2>2 DEF Calls, PCs
  <2> HIDE DEF names, seeds, c
  <2>4. profile' \in Jars
    <3>1. Without(profile, names) \in Jars
      BY <1>2, <2>2 DEF Without, Jars
    <3>2. Overlay(Without(profile, names), seeds) \in Jars
      BY <2>2, <3>1 DEF Overlay, Jars
    <3> QED  BY <2>1, <2>2, <3>2
  <2>5. Ordered(c) /\ Uses(call[a])
    BY <1>1, <2>1, <2>3 DEF Ordered, Uses, Browsing
  <2> QED  BY <1>4, <1>5, <2>1, <2>3, <2>4, <2>5
<1>7. CASE SignedIn(a)
  <2>1. PICK jar \in AfterBrowser(profile, issued') :
          /\ profile' = Normalize(jar)
          /\ Become(a, [call[a] EXCEPT !.pc = "merge", !.ok = TRUE, !.told = issued',
                          !.auth = [access |-> issued', jar |-> Normalize(jar),
                                    records |-> <<Normalize(jar)>>]])
    BY <1>7 DEF SignedIn
  <2> DEFINE auth == [access |-> issued', jar |-> Normalize(jar), records |-> <<Normalize(jar)>>]
             c == [call[a] EXCEPT !.pc = "merge", !.ok = TRUE, !.told = issued', !.auth = auth]
  <2>2. /\ call[a].pc = "session" /\ issued < MaxSessions /\ issued' = issued + 1
        /\ UNCHANGED <<file, holder, writer, near, dead, env, crashes, saved>>
    BY <1>7 DEF SignedIn
  <2>3. issued' \in Sessions
    BY <1>5, <2>2 DEF Sessions
  <2>4. Normalize(jar) \in Jars
    <3>1. jar \in Jars
      BY <1>2, <2>1, <2>3, JarTypes
    <3> QED  BY <3>1 DEF Normalize, Jars
  <2>5. auth \in Auths
    BY <2>3, <2>4, RecordTypes DEF Auths
  <2> HIDE DEF auth
  <2>6. c \in Calls /\ c.pc = "merge" /\ c.told = issued'
    BY <1>1, <2>3, <2>5 DEF Calls, PCs
  <2> HIDE DEF c
  <2>7. Ordered(c) /\ Uses(call[a])
    BY <1>1, <2>2, <2>3, <2>6 DEF Ordered, Uses, Browsing, Sessions
  <2>8. Become(a, c)
    BY <2>1 DEF c, auth
  <2> QED  BY <1>4, <1>5, <2>1, <2>2, <2>4, <2>6, <2>7, <2>8
<1>8. CASE ClearSeeds(a)
  <2> DEFINE c == [call[a] EXCEPT !.cleared = TRUE]
  <2>1. /\ call[a].pc = "session" /\ Become(a, c)
        /\ profile' = Without(profile, call[a].names)
        /\ UNCHANGED <<file, holder, writer, issued, near, dead, env, crashes, saved>>
    BY <1>8 DEF ClearSeeds
  <2>2. c \in Calls /\ c.pc = call[a].pc /\ c.told = call[a].told
    BY <1>1 DEF Calls
  <2>3. profile' \in Jars
    BY <1>2, <2>1 DEF Without, Jars
  <2> HIDE DEF c
  <2>4. Ordered(c) /\ Uses(call[a])
    BY <1>1, <2>1, <2>2 DEF Ordered, Uses, Browsing
  <2> QED  BY <1>4, <1>5, <2>1, <2>2, <2>3, <2>4
<1>9. CASE Captured(a)
  <2> DEFINE c == [call[a] EXCEPT !.pc = "merge", !.ok = TRUE,
                                  !.auth.jar = Overlay(@, profile'),
                                  !.auth.records = <<profile'>>]
  <2>1. /\ call[a].pc = "capture" /\ Become(a, c)
        /\ UNCHANGED <<file, holder, writer, near, dead, env, crashes, saved>>
        /\ \/ UNCHANGED <<profile, issued>>
           \/ /\ issued < MaxSessions /\ issued' = issued + 1
              /\ profile' \in AfterBrowser(profile, issued')
    BY <1>9 DEF Captured
  <2>2. profile' \in Jars /\ issued' \in {issued, issued + 1} /\ issued' <= MaxSessions
    <3>1. CASE UNCHANGED <<profile, issued>>
      BY <1>2, <1>5, <3>1
    <3>2. CASE /\ issued < MaxSessions /\ issued' = issued + 1
               /\ profile' \in AfterBrowser(profile, issued')
      <4>1. issued' \in Sessions /\ issued' <= MaxSessions
        BY <1>5, <3>2 DEF Sessions
      <4> QED  BY <1>2, <3>2, <4>1, JarTypes
    <3> QED  BY <2>1, <3>1, <3>2
  <2>3. Overlay(call[a].auth.jar, profile') \in Jars /\ <<profile'>> \in Records
    BY <1>2, <2>2, RecordTypes DEF Overlay, Jars
  <2>4. c \in Calls /\ c.pc = "merge" /\ c.phase = call[a].phase /\ c.told = call[a].told
    BY <1>1, <1>2, <2>3 DEF Calls, PCs, Auths
  <2> HIDE DEF c
  <2>5. Ordered(c) /\ Uses(call[a])
    BY <1>1, <2>1, <2>4 DEF Ordered, Uses, Browsing
  <2> QED  BY <1>4, <2>1, <2>2, <2>4, <2>5
<1>10. CASE Close(a)
  <2>1. PICK to \in {"ended", "failed", "ready"} :
          Become(a, [call[a] EXCEPT !.names = NoJar, !.tries = 0, !.pc = to])
    BY <1>10 DEF Close
  <2> DEFINE c == [call[a] EXCEPT !.names = NoJar, !.tries = 0, !.pc = to]
  <2>2. /\ call[a].pc = "close" /\ holder' = NoActor
        /\ UNCHANGED <<file, profile, writer, issued, near, dead, env, crashes, saved>>
    BY <1>10 DEF Close
  <2>3. c \in Calls /\ c.pc = to /\ c.told = call[a].told
    <3>1. 0 \in 0..2 /\ to \in PCs /\ NoJar \in Jars
      BY DEF PCs, NoJar, Jars
    <3> QED  BY <1>1, <3>1 DEF Calls
  <2> HIDE DEF c
  <2>4. Ordered(c) /\ ~Uses(c)
    BY <1>1, <2>2, <2>3 DEF Ordered, Uses, Browsing
  <2>5. \A b \in Actors \ {a} : ~Uses(call[b])
    <3>1. holder = a
      BY <1>1, <2>2 DEF Uses, Browsing
    <3> QED  BY <3>1 DEF AuthInv, HolderInv
  <2>6. call' \in [Actors -> Calls] /\ HolderInv'
    BY <2>1, <2>3, <2>4, <2>5, HolderStep DEF c
  <2> QED  BY <2>2, <2>6 DEF AuthInv, TypeOK
<1> QED  BY <1>3, <1>6, <1>7, <1>8, <1>9, <1>10

\* ... the death of a process, which takes all its calls and locks with it ...
LEMMA CrashStep ==
  ASSUME AuthInv, NEW p \in Processes, Crash(p)
  PROVE  AuthInv'
<1> DEFINE Dies(a) == ProcessOf[a] = p /\ call[a].pc \notin {"idle", "dead"}
           gone == [Fresh("client") EXCEPT !.pc = "dead"]
<1>1. /\ call' = [a \in Actors |-> IF Dies(a) THEN gone ELSE call[a]]
      /\ holder' = IF holder # NoActor /\ ProcessOf[holder] = p THEN NoActor ELSE holder
      /\ writer' = [writer EXCEPT ![p] = NoActor]
      /\ crashes < MaxCrashes /\ crashes' = crashes + 1
      /\ UNCHANGED <<file, profile, issued, near, dead, env, saved>>
  BY DEF Crash
<1>2. gone \in Calls /\ Ordered(gone) /\ ~Uses(gone)
  <2>1. "client" \in Ops /\ "dead" \in PCs
    BY DEF Ops, PCs
  <2>2. gone \in Calls
    BY <2>1, FreshTypes
  <2>3. gone.pc = "dead" /\ gone.told = 0
    BY DEF Fresh
  <2> QED  BY <2>2, <2>3 DEF Ordered, Uses, Browsing
<1> HIDE DEF gone
<1>3. call' \in [Actors -> Calls]
  BY <1>1, <1>2 DEF AuthInv, TypeOK
<1>4. HolderInv'
  <2> SUFFICES ASSUME NEW a \in Actors
               PROVE  Ordered(call'[a]) /\ (Uses(call'[a]) => holder' = a)
    BY DEF HolderInv, Ordered, Uses
  <2>1. CASE Dies(a)
    <3>1. call'[a] = gone
      BY <1>1, <2>1
    <3> QED  BY <1>2, <3>1
  <2>2. CASE ~Dies(a)
    <3>1. call'[a] = call[a]
      BY <1>1, <2>2
    <3>2. Ordered(call[a]) /\ (Uses(call[a]) => holder = a)
      BY DEF AuthInv, HolderInv
    <3>3. Uses(call[a]) => call[a].pc \notin {"idle", "dead"}
      BY DEF Uses, Browsing
    <3>4. Uses(call[a]) => ProcessOf[a] # p
      BY <2>2, <3>3
    <3> QED  BY <1>1, <3>1, <3>2, <3>4
  <2> QED  BY <2>1, <2>2
<1>5. crashes' \in 0..MaxCrashes
  BY <1>1, AuthAssumption DEF AuthInv, TypeOK
<1> QED  BY <1>1, <1>3, <1>4, <1>5 DEF AuthInv, TypeOK

\* ... and the ageing of access tokens.
LEMMA AgeStep == AuthInv /\ Age => AuthInv'
<1> SUFFICES ASSUME AuthInv, Age PROVE AuthInv'
  OBVIOUS
<1>1. near' \in 0..issued' /\ dead' \in 0..near'
  BY AuthAssumption DEF Age, AuthInv, TypeOK, Sessions
<1> QED  BY <1>1 DEF Age, AuthInv, TypeOK, HolderInv

\* Nobody holds anything at first.
LEMMA AuthInit == Init => AuthInv
<1> SUFFICES ASSUME Init PROVE AuthInv
  OBVIOUS
<1>1. PICK start \in Starts : file = start.file /\ profile = start.profile /\ env = start.env
  BY DEF Init
<1>2. file \in Files /\ profile \in Jars /\ env \in BOOLEAN
  BY <1>1, StartsAssumption
<1>3. PICK ops \in Plans : call = [a \in Actors |-> [Fresh(ops[a]) EXCEPT !.pc = "idle"]]
  BY DEF Init
<1>4. \A a \in Actors : ops[a] \in Ops
  BY <1>3, AuthAssumption
<1>5. \A a \in Actors : call[a] = [Fresh(ops[a]) EXCEPT !.pc = "idle"]
  BY <1>3
<1>6. call \in [Actors -> Calls]
  <2>1. "idle" \in PCs
    BY DEF PCs
  <2>2. \A a \in Actors : [Fresh(ops[a]) EXCEPT !.pc = "idle"] \in Calls
    BY <1>4, <2>1, FreshTypes
  <2> QED  BY <1>3, <2>2
<1>7. HolderInv
  <2> SUFFICES ASSUME NEW a \in Actors PROVE Ordered(call[a]) /\ ~Uses(call[a])
    BY DEF HolderInv
  <2>1. call[a].pc = "idle" /\ call[a].told = 0
    BY <1>5 DEF Fresh
  <2> QED  BY <2>1 DEF Ordered, Uses, Browsing
<1>8. /\ holder \in Actors \cup {NoActor} /\ writer \in [Processes -> Actors \cup {NoActor}]
      /\ issued \in Sessions /\ near \in 0..issued /\ dead \in 0..near
      /\ crashes \in 0..MaxCrashes /\ saved \in Sessions \cup {0}
  BY AuthAssumption DEF Init, Sessions
<1> QED  BY <1>2, <1>6, <1>7, <1>8 DEF AuthInv, TypeOK

\* Every step keeps the types, the order of calls and the hold of the profile.
LEMMA AuthStep == AuthInv /\ [Next]_vars => AuthInv'
<1> SUFFICES ASSUME AuthInv, [Next]_vars PROVE AuthInv'
  OBVIOUS
<1>1. CASE UNCHANGED vars
  BY <1>1 DEF AuthInv, TypeOK, HolderInv, vars
<1>2. ASSUME NEW a \in Actors, Step(a) \/ Begin(a) \/ SignedIn(a) \/ BeginCapture(a)
      PROVE  AuthInv'
  BY ONLY <1>2, AuthInv, LoadStep, SaveStep, MoveStep, ProfileStep DEF Step
<1> QED
  BY ONLY [Next]_vars, AuthInv, <1>1, <1>2, CrashStep, AgeStep DEF Next

\* So they hold in every state of every behaviour.
LEMMA AuthInvHolds == Spec => []AuthInv
BY AuthInit, AuthStep, PTL DEF Spec

-----------------------------------------------------------------------------
(* What a save leaves in the file                                          *)

\* A call that becomes c, as a theorem that knows its types already needs it.
LEMMA BecomeRest ==
  ASSUME NEW a \in Actors, NEW c, call \in [Actors -> Calls], Become(a, c)
  PROVE  call'[a] = Rest(c) /\ \A b \in Actors \ {a} : call'[b] = call[b]
BY DEF Become, Rest

\* What is left of a call over is told nothing and carries nothing.
LEMMA RestOver ==
  ASSUME NEW c
  PROVE  \/ Rest(c) = c /\ c.pc \notin {"ended", "failed"}
         \/ /\ Rest(c).pc \in {"ended", "failed"} /\ Rest(c).told = 0
            /\ Rest(c).auth = NoAuth /\ Rest(c).names = NoJar
BY DEF Rest, Fresh

\* The cookies of the session just issued are what a load takes, unless the
\* server may leave the chunks of an earlier one blank beside a plain cookie.
LEMMA IssuedCookies ==
  ASSUME ~Shrinks, NEW jar \in Jars, NEW s \in Sessions
  PROVE  /\ \A new \in AfterSetCookie(jar, s) : Belongs(new, s)
         /\ \A new \in AfterBrowser(jar, s) : Belongs(new, s) /\ Belongs(Normalize(new), s)
<1> DEFINE gone(old) == IF old = 0 THEN 0 ELSE Blank
<1>1. s # 0
  BY DEF Sessions
<1>2. ASSUME NEW new \in AfterSetCookie(jar, s) PROVE Belongs(new, s)
  <2>1. \/ new = [plain |-> s, chunk |-> 0] \/ new = [plain |-> gone(jar.plain), chunk |-> s]
        \/ new = [jar EXCEPT !.chunk = s]
    BY <1>2 DEF AfterSetCookie
  <2> QED  BY <1>1, <2>1 DEF Belongs, Normalize, Jars
<1>3. ASSUME NEW new \in AfterBrowser(jar, s) PROVE Belongs(new, s) /\ Belongs(Normalize(new), s)
  <2>1. \/ new = [plain |-> s, chunk |-> 0] \/ new = [plain |-> 0, chunk |-> s]
        \/ new = [jar EXCEPT !.chunk = s]
    BY <1>3 DEF AfterBrowser
  <2>2. new \in Jars /\ (new.chunk = s \/ new = [plain |-> s, chunk |-> 0])
    BY <2>1 DEF Jars
  <2>3. CASE new = [plain |-> s, chunk |-> 0]
    BY <1>1, <2>3 DEF Belongs, Normalize
  <2>4. CASE new.chunk = s
    <3>1. Normalize(new) = [plain |-> 0, chunk |-> s]
      BY <1>1, <2>2, <2>4 DEF Normalize, Jars
    <3> QED  BY <1>1, <3>1 DEF Belongs, Normalize
  <2> QED  BY <2>2, <2>3, <2>4
<1> QED  BY <1>2, <1>3

\* A step that tells its call nothing keeps what is saved, if it saves nothing.
LEMMA ToldNothing ==
  ASSUME AuthInv, SavedInv, NEW a \in Actors, NEW c, Become(a, c),
         c.told # 0 => Belongs(c.auth.jar, c.told), UNCHANGED <<file, saved>>
  PROVE  SavedInv'
<1>1. call'[a] = Rest(c) /\ \A b \in Actors \ {a} : call'[b] = call[b]
  BY BecomeRest DEF AuthInv, TypeOK
<1>2. Rest(c).told # 0 => Belongs(Rest(c).auth.jar, Rest(c).told)
  BY RestOver
<1> HIDE DEF Belongs
<1>3. \A b \in Actors : call'[b].told # 0 => Belongs(call'[b].auth.jar, call'[b].told)
  BY <1>1, <1>2 DEF SavedInv
<1> QED  BY <1>3 DEF SavedInv, Belongs

\* What is saved of a session, and what is about to be, stays that session's.
LEMMA SavedStep ==
  ASSUME ~Shrinks, AuthInv, SavedInv, [Next]_vars
  PROVE  SavedInv'
<1>1. CASE UNCHANGED vars
  BY <1>1 DEF SavedInv, Belongs, vars
<1>2. ASSUME NEW a \in Actors, Step(a) \/ Begin(a) \/ SignedIn(a) \/ BeginCapture(a)
      PROVE  SavedInv'
  <2>1. call[a] \in Calls /\ Ordered(call[a]) /\ file \in Files /\ profile \in Jars
    BY DEF AuthInv, TypeOK, HolderInv
  <2>2. call[a].auth \in Auths /\ call[a].auth.jar \in Jars /\ file.auth \in Auths
        /\ file.session \in Sessions \cup {0}
    BY <2>1 DEF Calls, Auths, Files
  <2>3. call[a].told # 0 => call[a].pc \in {"merge", "replace"}
    BY <2>1 DEF Ordered
  <2>4. issued < MaxSessions => issued + 1 \in Sessions
    BY AuthAssumption DEF AuthInv, TypeOK, Sessions
  <2>5. CASE Begin(a)
    <3>1. \A c : Become(a, c) /\ c.told = 0 => SavedInv'
      BY <2>5, ToldNothing DEF Begin
    <3>2. /\ Fresh(call[a].op).told = 0
          /\ [Fresh(call[a].op) EXCEPT !.pc = "profile", !.phase = "login"].told = 0
      BY DEF Fresh
    <3>3. \/ Become(a, Fresh(call[a].op))
          \/ Become(a, [Fresh(call[a].op) EXCEPT !.pc = "profile", !.phase = "login"])
      BY <2>5 DEF Begin
    <3> QED  BY ONLY <3>1, <3>2, <3>3
  <2>6. CASE Load(a)
    <3>1. \A c : Become(a, c) /\ c.told = 0 => SavedInv'
      BY <2>6, ToldNothing DEF Load
    <3>2. Loaded(call[a], file.auth).told = 0
      BY <2>1, <2>2, <2>6, LoadedCall DEF AuthInv, Load
    <3>3. [call[a] EXCEPT !.pc = "seed", !.auth = file.auth].told = 0
      BY <2>1, <2>3, <2>6 DEF Load, Calls
    <3>4. \/ Become(a, Loaded(call[a], file.auth))
          \/ Become(a, [call[a] EXCEPT !.pc = "seed", !.auth = file.auth])
      BY <2>6 DEF Load
    <3> QED  BY ONLY <3>1, <3>2, <3>3, <3>4
  <2>7. CASE Seed(a)
    <3> DEFINE auth == [call[a].auth EXCEPT !.jar = Seeded(@, file.session)]
    <3>1. auth \in Auths
      <4>1. Seeded(call[a].auth.jar, file.session) \in Jars
        BY <2>2 DEF Seeded, Jars
      <4> QED  BY <2>2, <4>1 DEF Auths
    <3>2. Become(a, Loaded(call[a], auth)) /\ call[a].pc = "seed" /\ UNCHANGED <<file, saved>>
      BY <2>7 DEF Seed
    <3> HIDE DEF auth
    <3>3. Loaded(call[a], auth).told = 0
      BY <2>1, <3>1, <3>2, LoadedCall DEF AuthInv
    <3> QED  BY <3>2, <3>3, ToldNothing
  <2>8. CASE AskSession(a)
    <3>1. CASE Become(a, AuthError(call[a]))
      <4>1. AuthError(call[a]).told = 0
        BY <2>1, <2>3, <2>8 DEF AskSession, AuthError, Calls
      <4> QED  BY <2>8, <3>1, <4>1, ToldNothing DEF AskSession
    <3>2. CASE ~Become(a, AuthError(call[a]))
      <4>1. issued < MaxSessions /\ issued' = issued + 1
        BY <2>8, <3>2 DEF AskSession
      <4>2. PICK jar \in AfterSetCookie(call[a].auth.jar, issued') :
              Become(a, [call[a] EXCEPT !.auth.jar = jar, !.auth.access = issued',
                                        !.told = issued', !.pc = "merge"])
        BY <2>8, <3>2 DEF AskSession
      <4> DEFINE c == [call[a] EXCEPT !.auth.jar = jar, !.auth.access = issued',
                                      !.told = issued', !.pc = "merge"]
      <4>3. c.told = issued' /\ c.auth.jar = jar
        BY <2>1, <2>2 DEF Calls, Auths
      <4>4. Belongs(jar, issued')
        BY <2>2, <2>4, <4>1, <4>2, IssuedCookies
      <4>5. Become(a, c) /\ UNCHANGED <<file, saved>>
        BY <2>8, <4>2 DEF AskSession
      <4> HIDE DEF c
      <4> QED  BY <4>3, <4>4, <4>5, ToldNothing
    <3> QED  BY <3>1, <3>2
  <2>9. CASE BeginSave(a)
    <3> DEFINE c == [call[a] EXCEPT !.base = file, !.pc = "replace"]
    <3>1. c.told = call[a].told /\ c.auth = call[a].auth
      BY <2>1 DEF Calls
    <3>2. Become(a, c) /\ UNCHANGED <<file, saved>>
      BY <2>9 DEF BeginSave
    <3> HIDE DEF c
    <3> QED  BY <3>1, <3>2, ToldNothing DEF SavedInv
  <2>10. CASE EndSave(a)
    <3>1. PICK to : Become(a, [call[a] EXCEPT !.base = NoFile, !.told = 0, !.pc = to])
      BY <2>10 DEF EndSave
    <3> DEFINE c == [call[a] EXCEPT !.base = NoFile, !.told = 0, !.pc = to]
    <3>2. c.told = 0
      BY <2>1 DEF Calls
    <3> HIDE DEF c
    <3>3. call'[a] = Rest(c) /\ \A b \in Actors \ {a} : call'[b] = call[b]
      BY <3>1, BecomeRest DEF AuthInv, TypeOK, c
    <3>4. Rest(c).told = 0
      BY <3>2, RestOver
    <3>5. file'.auth.jar = call[a].auth.jar /\ saved' = call[a].told
      BY <2>2, <2>10 DEF EndSave, Merged, Auths
    <3> HIDE DEF Belongs
    <3>6. saved' # 0 => Belongs(file'.auth.jar, saved')
      BY <3>5 DEF SavedInv
    <3>7. \A b \in Actors : call'[b].told # 0 => Belongs(call'[b].auth.jar, call'[b].told)
      BY <3>3, <3>4 DEF SavedInv
    <3> QED  BY <3>6, <3>7 DEF SavedInv, Belongs
  <2>11. CASE SignedIn(a)
    <3>1. issued < MaxSessions /\ issued' = issued + 1 /\ UNCHANGED <<file, saved>>
      BY <2>11 DEF SignedIn
    <3>2. PICK jar \in AfterBrowser(profile, issued') :
            Become(a, [call[a] EXCEPT !.pc = "merge", !.ok = TRUE, !.told = issued',
                         !.auth = [access |-> issued', jar |-> Normalize(jar),
                                   records |-> <<Normalize(jar)>>]])
      BY <2>11 DEF SignedIn
    <3> DEFINE c == [call[a] EXCEPT !.pc = "merge", !.ok = TRUE, !.told = issued',
                       !.auth = [access |-> issued', jar |-> Normalize(jar),
                                 records |-> <<Normalize(jar)>>]]
    <3>3. c.told = issued' /\ c.auth.jar = Normalize(jar)
      BY <2>1 DEF Calls
    <3>4. Belongs(Normalize(jar), issued')
      BY <2>1, <2>4, <3>1, <3>2, IssuedCookies
    <3>5. Become(a, c)
      BY <3>2
    <3> HIDE DEF c
    <3> QED  BY <3>1, <3>3, <3>4, <3>5, ToldNothing
  <2>12. CASE \/ AcquireProfile(a) \/ ProfileBusy(a) \/ Open(a) \/ ClearSeeds(a)
              \/ SignInTimesOut(a) \/ Captured(a) \/ CaptureFails(a) \/ Close(a)
              \/ BeginCapture(a)
    <3>1. call[a].pc \notin {"merge", "replace"} /\ UNCHANGED <<file, saved>>
      BY <2>12 DEF AcquireProfile, ProfileBusy, Open, ClearSeeds, SignInTimesOut, Captured,
                   CaptureFails, Close, BeginCapture
    <3>2. ASSUME NEW c, Become(a, c), c.told = call[a].told
          PROVE  SavedInv'
      BY <2>3, <3>1, <3>2, ToldNothing
    <3>3. CASE AcquireProfile(a)
      BY <2>1, <3>2, <3>3 DEF AcquireProfile, Calls
    <3>4. CASE ProfileBusy(a)
      BY <2>1, <3>2, <3>4 DEF ProfileBusy, Calls
    <3>5. CASE Open(a)
      BY <2>1, <3>2, <3>5 DEF Open, Calls
    <3>6. CASE ClearSeeds(a)
      BY <2>1, <3>2, <3>6 DEF ClearSeeds, Calls
    <3>7. CASE SignInTimesOut(a)
      BY <2>1, <3>2, <3>7 DEF SignInTimesOut, Calls
    <3>8. CASE Captured(a)
      BY <2>1, <3>2, <3>8 DEF Captured, Calls
    <3>9. CASE CaptureFails(a)
      BY <2>1, <3>2, <3>9 DEF CaptureFails, Calls
    <3>10. CASE Close(a)
      BY <2>1, <3>2, <3>10 DEF Close, Calls
    <3>11. CASE BeginCapture(a)
      BY <2>1, <3>2, <3>11 DEF BeginCapture, Calls
    <3> QED  BY <2>12, <3>3, <3>4, <3>5, <3>6, <3>7, <3>8, <3>9, <3>10, <3>11
  <2> QED
    BY <1>2, <2>5, <2>6, <2>7, <2>8, <2>9, <2>10, <2>11, <2>12 DEF Step
<1>3. ASSUME NEW p \in Processes, Crash(p) PROVE SavedInv'
  <2>1. UNCHANGED <<file, saved>>
    BY <1>3 DEF Crash
  <2>2. \A a \in Actors : call'[a].told = 0 \/ call'[a] = call[a]
    BY <1>3 DEF Crash, Fresh
  <2> HIDE DEF Belongs
  <2>3. \A a \in Actors : call'[a].told # 0 => Belongs(call'[a].auth.jar, call'[a].told)
    BY <2>2 DEF SavedInv
  <2> QED  BY <2>1, <2>3 DEF SavedInv, Belongs
<1>4. Age => SavedInv'
  BY DEF Age, SavedInv, Belongs
<1> QED  BY <1>1, <1>2, <1>3, <1>4 DEF Next

-----------------------------------------------------------------------------
(* The cookies of files, clients and the profile                           *)

\* What the operators on cookies make of whole jars and clean ones.
LEMMA JarFacts ==
  ASSUME NEW jar \in Jars, NEW other \in Jars
  PROVE  /\ Whole(jar) => Whole(Normalize(jar)) /\ Clean(Normalize(jar))
         /\ Whole(jar) => \A s \in Sessions \cup {0} : Whole(Seeded(jar, s))
         /\ Whole(jar) /\ Clean(other) => Whole(Overlay(jar, other))
         /\ HasSession(other) => HasSession(Overlay(jar, other))
         /\ Clean(jar) => Whole(jar) /\ Clean(Without(jar, other))
         /\ Clean(jar) /\ Clean(other) => Clean(Overlay(jar, other))
         /\ Whole(jar) /\ HasSession(jar) => Usable(Normalize(jar))
<1> USE DEF Jars, Whole, Clean, HasSession
<1>1. Whole(jar) => Whole(Normalize(jar)) /\ Clean(Normalize(jar))
  BY DEF Normalize, Blank
<1>2. Whole(jar) => \A s \in Sessions \cup {0} : Whole(Seeded(jar, s))
  BY DEF Seeded, Blank, Sessions
<1>3. Whole(jar) /\ Clean(other) => Whole(Overlay(jar, other))
  BY DEF Overlay, Blank
<1>4. HasSession(other) => HasSession(Overlay(jar, other))
  BY DEF Overlay
<1>5. Clean(jar) => Whole(jar) /\ Clean(Without(jar, other))
  BY DEF Without, Blank
<1>6. Clean(jar) /\ Clean(other) => Clean(Overlay(jar, other))
  BY DEF Overlay
<1>7. Whole(jar) /\ HasSession(jar) => Usable(Normalize(jar))
  BY DEF Normalize, Usable, Blank, Sessions
<1> QED  BY <1>1, <1>2, <1>3, <1>4, <1>5, <1>6, <1>7

\* What the server and the browser make of them.
LEMMA IssuedFacts ==
  ASSUME ~Shrinks, NEW jar \in Jars, NEW s \in Sessions
  PROVE  /\ Whole(jar) => \A new \in AfterSetCookie(jar, s) : Whole(new)
         /\ Clean(jar) => \A new \in AfterBrowser(jar, s) :
                            Clean(new) /\ Clean(Normalize(new))
<1> DEFINE gone(old) == IF old = 0 THEN 0 ELSE Blank
<1>1. s # 0 /\ s # Blank
  BY DEF Sessions, Blank
<1>2. ASSUME Whole(jar), NEW new \in AfterSetCookie(jar, s) PROVE Whole(new)
  <2>1. \/ new = [plain |-> s, chunk |-> 0] \/ new = [plain |-> gone(jar.plain), chunk |-> s]
        \/ new = [jar EXCEPT !.chunk = s]
    BY <1>2 DEF AfterSetCookie
  <2> QED  BY <1>1, <2>1 DEF Whole, Jars, Blank
<1>3. ASSUME Clean(jar), NEW new \in AfterBrowser(jar, s)
      PROVE  Clean(new) /\ Clean(Normalize(new))
  <2>1. \/ new = [plain |-> s, chunk |-> 0] \/ new = [plain |-> 0, chunk |-> s]
        \/ new = [jar EXCEPT !.chunk = s]
    BY <1>3 DEF AfterBrowser
  <2>2. new \in Jars /\ Clean(new)
    BY <1>1, <1>3, <2>1 DEF Clean, Jars, Blank
  <2> QED  BY <2>2, JarFacts
<1> QED  BY <1>2, <1>3

\* An empty jar is clean, and no records are clean records.
LEMMA NothingIsClean ==
  /\ Clean(NoJar) /\ Whole(NoJar) /\ NoAuth.jar = NoJar
  /\ CleanRecords(NoAuth.records)
  /\ \A jar : Clean(jar) => CleanRecords(<<jar>>)
BY DEF Clean, Whole, NoJar, NoAuth, Blank, CleanRecords

\* A step keeps the cookies whole and clean that leaves its own call so, if the
\* profile and the file stay so, and the profile changes under its lock only.
LEMMA CookieCall ==
  ASSUME AuthInv, CookieInv, NEW a \in Actors, NEW c, Become(a, c), Kept(c),
         /\ c.pc \in {"merge", "replace"} /\ c.phase = "capture" /\ HasSession(profile')
              => HasSession(c.auth.jar),
         Clean(profile'), UNCHANGED profile \/ Uses(call[a]),
         Whole(file'.auth.jar) /\ CleanRecords(file'.auth.records)
  PROVE  CookieInv'
<1>1. call'[a] = Rest(c) /\ \A b \in Actors \ {a} : call'[b] = call[b]
  BY BecomeRest DEF AuthInv, TypeOK
<1>2. Kept(call'[a])
  <2>1. CASE Rest(c) = c
    BY <1>1, <2>1
  <2>2. CASE Rest(c).pc \in {"ended", "failed"} /\ Rest(c).auth = NoAuth /\ Rest(c).names = NoJar
    BY <1>1, <2>2, NothingIsClean DEF Kept
  <2> QED  BY <2>1, <2>2, RestOver
<1>3. Carried(call[a])'
  BY <1>1, RestOver DEF Carried
<1>4. ASSUME NEW b \in Actors \ {a} PROVE Kept(call'[b]) /\ Carried(call[b])'
  <2>1. call'[b] = call[b] /\ Kept(call[b]) /\ Carried(call[b])
    BY <1>1 DEF CookieInv
  <2>2. CASE UNCHANGED profile
    BY <2>1, <2>2 DEF Carried
  <2>3. CASE Uses(call[a])
    <3>1. ~Uses(call[b])
      BY <2>3 DEF AuthInv, HolderInv
    <3> QED  BY <2>1, <3>1 DEF Carried, Uses
  <2> QED  BY <2>1, <2>2, <2>3
<1> HIDE DEF Kept, Carried, Clean, Whole, CleanRecords
<1>5. \A b \in Actors : Kept(call'[b]) /\ Carried(call[b])'
  BY <1>2, <1>3, <1>4
<1> QED  BY <1>5 DEF CookieInv, Kept, Carried, Clean, Whole, CleanRecords

\* A step that leaves the profile and the file alone only has its own call to
\* answer for.
LEMMA CookieOnly ==
  ASSUME AuthInv, CookieInv, NEW a \in Actors, NEW c, Become(a, c), Kept(c),
         c.pc \notin {"merge", "replace"} \/ HasSession(c.auth.jar) \/ c.phase # "capture",
         UNCHANGED <<file, profile>>
  PROVE  CookieInv'
<1>1. Clean(profile') /\ Whole(file'.auth.jar) /\ CleanRecords(file'.auth.records)
  BY DEF CookieInv
<1> HIDE DEF Kept, Clean, Whole, CleanRecords
<1> QED  BY <1>1, CookieCall

\* The steps of a load, of a request and of a save.
LEMMA CookieSave ==
  ASSUME ~Shrinks, AuthInv, CookieInv, NEW a \in Actors,
         Begin(a) \/ Load(a) \/ Seed(a) \/ AskSession(a) \/ BeginSave(a) \/ EndSave(a)
  PROVE  CookieInv'
<1>1. /\ call[a] \in Calls /\ Ordered(call[a]) /\ file \in Files
      /\ Kept(call[a]) /\ Carried(call[a]) /\ Clean(profile)
      /\ Whole(file.auth.jar) /\ CleanRecords(file.auth.records)
  BY DEF AuthInv, TypeOK, HolderInv, CookieInv
<1>2. /\ call[a].auth \in Auths /\ call[a].auth.jar \in Jars /\ file.auth \in Auths
      /\ file.auth.jar \in Jars /\ file.session \in Sessions \cup {0}
  BY <1>1 DEF Calls, Auths, Files
<1> HIDE DEF Clean, Whole, CleanRecords, HasSession
<1>3. CASE Begin(a)
  <2> DEFINE op == call[a].op
             c == [Fresh(op) EXCEPT !.pc = "profile", !.phase = "login"]
  <2>1. Kept(Fresh(op)) /\ Fresh(op).pc = "load" /\ Kept(c) /\ c.pc = "profile"
    BY NothingIsClean DEF Fresh, Kept
  <2>2. (Become(a, Fresh(op)) \/ Become(a, c)) /\ UNCHANGED <<file, profile>>
    BY <1>3 DEF Begin
  <2> HIDE DEF c, Kept
  <2> QED  BY <2>1, <2>2, CookieOnly
<1>4. ASSUME NEW auth \in Auths, call[a].pc \in {"load", "seed"},
             Whole(auth.jar), CleanRecords(auth.records),
             Become(a, Loaded(call[a], auth)), UNCHANGED <<file, profile>>
      PROVE  CookieInv'
  <2> DEFINE c == Loaded(call[a], auth)
  <2>1. /\ c.names = call[a].names /\ c.pc \in {"open", "profile", "failed", "ask", "ready"}
        /\ \/ c.auth \in {call[a].auth, NoAuth} /\ (c.pc = "open" => c.auth = NoAuth)
           \/ c.auth.jar = Normalize(auth.jar) /\ c.auth.records = auth.records
    BY <1>1, <1>4, LoadedCall DEF AuthInv
  <2>2. Whole(Normalize(auth.jar)) /\ Clean(Normalize(auth.jar))
    BY <1>4, JarFacts DEF Auths
  <2>3. Become(a, c)
    BY <1>4
  <2> HIDE DEF c
  <2>4. Kept(c)
    BY <1>1, <1>4, <2>1, <2>2, NothingIsClean DEF Kept
  <2> QED  BY <1>4, <2>1, <2>3, <2>4, CookieOnly
<1>5. CASE Load(a)
  <2> DEFINE c == [call[a] EXCEPT !.pc = "seed", !.auth = file.auth]
  <2>1. Kept(c) /\ c.pc = "seed"
    BY <1>1 DEF Kept, Calls
  <2>2. /\ Become(a, Loaded(call[a], file.auth)) \/ Become(a, c)
        /\ call[a].pc = "load" /\ UNCHANGED <<file, profile>>
    BY <1>5 DEF Load
  <2> HIDE DEF c, Kept
  <2> QED  BY <1>1, <1>2, <1>4, <2>1, <2>2, CookieOnly
<1>6. CASE Seed(a)
  <2> DEFINE jar == Seeded(call[a].auth.jar, file.session)
             auth == [call[a].auth EXCEPT !.jar = jar]
  <2>1. jar \in Jars /\ Whole(jar)
    <3>1. jar \in Jars
      BY <1>2 DEF Seeded, Jars
    <3>2. Whole(call[a].auth.jar)
      BY <1>1 DEF Kept
    <3> QED  BY <1>2, <3>1, <3>2, JarFacts
  <2>2. Become(a, Loaded(call[a], auth)) /\ call[a].pc = "seed" /\ UNCHANGED <<file, profile>>
    BY <1>6 DEF Seed
  <2> HIDE DEF jar
  <2>3. auth \in Auths /\ auth.jar = jar /\ auth.records = call[a].auth.records
    BY <1>2, <2>1 DEF Auths
  <2>4. CleanRecords(auth.records)
    BY <1>1, <2>3 DEF Kept
  <2> HIDE DEF auth
  <2> QED  BY <1>4, <2>1, <2>2, <2>3, <2>4
<1>7. CASE AskSession(a)
  <2>1. call[a].phase = "start" /\ UNCHANGED <<file, profile>> /\ call[a].pc = "ask"
    BY <1>1, <1>7 DEF AskSession, Ordered
  <2>2. CASE Become(a, AuthError(call[a]))
    <3> DEFINE c == AuthError(call[a])
    <3>1. Kept(c) /\ c.pc \in {"profile", "failed"}
      BY <1>1 DEF AuthError, Kept, Calls
    <3>2. Become(a, c)
      BY <2>2
    <3> HIDE DEF c, Kept
    <3> QED  BY <2>1, <3>1, <3>2, CookieOnly
  <2>3. CASE ~Become(a, AuthError(call[a]))
    <3>1. issued < MaxSessions /\ issued' = issued + 1
      BY <1>7, <2>3 DEF AskSession
    <3>2. PICK jar \in AfterSetCookie(call[a].auth.jar, issued') :
            Become(a, [call[a] EXCEPT !.auth.jar = jar, !.auth.access = issued',
                                      !.told = issued', !.pc = "merge"])
      BY <1>7, <2>3 DEF AskSession
    <3> DEFINE c == [call[a] EXCEPT !.auth.jar = jar, !.auth.access = issued',
                                    !.told = issued', !.pc = "merge"]
    <3>3. issued' \in Sessions
      BY <3>1, AuthAssumption DEF AuthInv, TypeOK, Sessions
    <3>4. Whole(jar)
      BY <1>1, <1>2, <3>2, <3>3, IssuedFacts DEF Kept
    <3>5. /\ c.auth.jar = jar /\ c.auth.records = call[a].auth.records
          /\ c.names = call[a].names /\ c.pc = "merge" /\ c.phase = call[a].phase
      BY <1>1, <1>2 DEF Calls, Auths
    <3>6. Become(a, c)
      BY <3>2
    <3> HIDE DEF c
    <3>7. Kept(c) /\ c.phase # "capture"
      BY <1>1, <2>1, <3>4, <3>5 DEF Kept
    <3> HIDE DEF Kept
    <3> QED  BY <2>1, <3>6, <3>7, CookieOnly
  <2> QED  BY <2>2, <2>3
<1>8. CASE BeginSave(a)
  <2> DEFINE c == [call[a] EXCEPT !.base = file, !.pc = "replace"]
  <2>1. Kept(c) /\ c.pc = "replace" /\ c.phase = call[a].phase /\ c.auth = call[a].auth
    BY <1>1 DEF Kept, Calls
  <2>2. Become(a, c) /\ call[a].pc = "merge" /\ UNCHANGED <<file, profile>>
    BY <1>8 DEF BeginSave
  <2>3. c.phase = "capture" /\ HasSession(profile') => HasSession(c.auth.jar)
    BY <1>1, <2>1, <2>2 DEF Carried
  <2> HIDE DEF c, Kept
  <2> QED  BY <1>1, <2>1, <2>2, <2>3, CookieCall
<1>9. CASE EndSave(a)
  <2>1. PICK to \in {"close", "ended", "ready"} :
          Become(a, [call[a] EXCEPT !.base = NoFile, !.told = 0, !.pc = to])
    BY <1>9 DEF EndSave
  <2> DEFINE c == [call[a] EXCEPT !.base = NoFile, !.told = 0, !.pc = to]
  <2>2. Kept(c) /\ c.pc \notin {"merge", "replace"}
    BY <1>1, <2>1 DEF Kept, Calls
  <2>3. file'.auth.jar = call[a].auth.jar /\ file'.auth.records = call[a].auth.records
    BY <1>2, <1>9 DEF EndSave, Merged, Auths
  <2>4. Become(a, c) /\ UNCHANGED profile
    BY <1>9, <2>1 DEF EndSave
  <2>5. Whole(file'.auth.jar) /\ CleanRecords(file'.auth.records)
    BY <1>1, <2>3 DEF Kept
  <2> HIDE DEF c, Kept
  <2> QED  BY <1>1, <2>2, <2>4, <2>5, CookieCall
<1> QED  BY <1>3, <1>5, <1>6, <1>7, <1>8, <1>9

\* The steps that wait for the profile, and those that give it back.
LEMMA CookieMove ==
  ASSUME AuthInv, CookieInv, NEW a \in Actors,
         \/ AcquireProfile(a) \/ ProfileBusy(a) \/ BeginCapture(a) \/ SignInTimesOut(a)
         \/ CaptureFails(a) \/ Close(a)
  PROVE  CookieInv'
<1>1. call[a] \in Calls /\ Kept(call[a]) /\ UNCHANGED <<file, profile>>
  BY DEF AuthInv, TypeOK, CookieInv, AcquireProfile, ProfileBusy, BeginCapture,
         SignInTimesOut, CaptureFails, Close
<1> HIDE DEF Clean, Whole, CleanRecords, HasSession
<1>2. ASSUME NEW c, Become(a, c), Kept(c), c.pc \notin {"merge", "replace"}
      PROVE  CookieInv'
  BY <1>1, <1>2, CookieOnly
<1>3. CASE AcquireProfile(a)
  <2> DEFINE to == IF call[a].phase = "capture" THEN "capture"
                   ELSE IF call[a].op # "force" /\ file.exists THEN "load" ELSE "open"
             auth == IF call[a].phase = "capture" THEN call[a].auth ELSE NoAuth
             c == [call[a] EXCEPT !.ok = FALSE, !.cleared = FALSE, !.tries = 0,
                                  !.auth = auth, !.pc = to]
  <2>1. Become(a, c)
    BY <1>1, <1>3 DEF AcquireProfile, Calls
  <2>2. to \in {"capture", "open", "load"} /\ (to = "open" => auth = NoAuth)
        /\ auth \in {call[a].auth, NoAuth}
    OBVIOUS
  <2> HIDE DEF to, auth
  <2>3. c.pc = to /\ c.auth = auth /\ c.names = call[a].names
    BY <1>1 DEF Calls
  <2> HIDE DEF c
  <2>4. Kept(c)
    BY <1>1, <2>2, <2>3, NothingIsClean DEF Kept
  <2> QED  BY <1>2, <2>1, <2>2, <2>3, <2>4
<1>4. ASSUME NEW to \in {"ended", "failed", "ready", "close", "capture", "profile"},
             NEW c, Become(a, c), c.pc = to, c.auth = call[a].auth,
             c.names \in {call[a].names, NoJar}
      PROVE  CookieInv'
  <2>1. Kept(c)
    BY <1>1, <1>4, NothingIsClean DEF Kept
  <2> QED  BY <1>2, <1>4, <2>1
<1>5. CASE ProfileBusy(a)
  <2>1. PICK to \in {"ended", "failed"} : Become(a, [call[a] EXCEPT !.pc = to])
    BY <1>5 DEF ProfileBusy
  <2> QED  BY <1>1, <1>4, <2>1 DEF Calls
<1>6. CASE BeginCapture(a)
  BY <1>1, <1>4, <1>6 DEF BeginCapture, Calls
<1>7. CASE SignInTimesOut(a)
  BY <1>1, <1>4, <1>7 DEF SignInTimesOut, Calls
<1>8. CASE CaptureFails(a)
  <2>1. PICK to \in {"close", "capture"} :
          Become(a, [call[a] EXCEPT !.tries = call[a].tries + 1, !.pc = to])
    BY <1>1, <1>8 DEF CaptureFails, Calls
  <2> QED  BY <1>1, <1>4, <2>1 DEF Calls
<1>9. CASE Close(a)
  <2>1. PICK to \in {"ended", "failed", "ready"} :
          Become(a, [call[a] EXCEPT !.names = NoJar, !.tries = 0, !.pc = to])
    BY <1>9 DEF Close
  <2> QED  BY <1>1, <1>4, <2>1 DEF Calls
<1> QED  BY <1>3, <1>5, <1>6, <1>7, <1>8, <1>9

\* The steps of a browser on the profile.
LEMMA CookieBrowser ==
  ASSUME ~Shrinks, AuthInv, CookieInv, NEW a \in Actors,
         Open(a) \/ SignedIn(a) \/ ClearSeeds(a) \/ Captured(a)
  PROVE  CookieInv'
<1>1. /\ call[a] \in Calls /\ Kept(call[a]) /\ Clean(profile) /\ profile \in Jars
      /\ Whole(file.auth.jar) /\ CleanRecords(file.auth.records) /\ UNCHANGED file
  BY DEF AuthInv, TypeOK, CookieInv, Open, SignedIn, ClearSeeds, Captured
<1>2. /\ call[a].auth \in Auths /\ call[a].auth.jar \in Jars /\ call[a].names \in Jars
      /\ call[a].auth.records \in Records
  BY <1>1 DEF Calls, Auths
<1>3. Uses(call[a])
  BY DEF Open, SignedIn, ClearSeeds, Captured, Uses, Browsing
<1>4. issued < MaxSessions => issued + 1 \in Sessions
  BY AuthAssumption DEF AuthInv, TypeOK, Sessions
<1> HIDE DEF Clean, Whole, CleanRecords, HasSession, Uses
<1>5. ASSUME NEW c, Become(a, c), Kept(c), Clean(profile'),
             c.pc \in {"merge", "replace"} /\ HasSession(profile') => HasSession(c.auth.jar)
      PROVE  CookieInv'
  BY <1>1, <1>3, <1>5, CookieCall
<1>6. CASE Open(a)
  <2> DEFINE names == IF call[a].op = "force" THEN NoJar ELSE call[a].auth.jar
             seeds == IF call[a].auth.records = <<>> THEN call[a].auth.jar
                      ELSE Head(call[a].auth.records)
             c == [call[a] EXCEPT !.pc = "session", !.names = names]
  <2>1. /\ Become(a, c) /\ call[a].pc = "open"
        /\ profile' = (CASE call[a].op = "force" -> NoJar
                         [] OTHER -> Overlay(Without(profile, names), seeds))
    BY <1>6 DEF Open
  <2>2. Clean(call[a].auth.jar)
    BY <1>1, <2>1 DEF Kept
  <2>3. names \in Jars /\ Clean(names)
    BY <1>2, <2>2, NothingIsClean DEF NoJar, Jars
  <2>4. seeds \in Jars /\ Clean(seeds)
    <3>1. CASE call[a].auth.records = <<>>
      BY <1>2, <2>2, <3>1
    <3>2. CASE call[a].auth.records # <<>>
      <4>1. Head(call[a].auth.records) \in Jars /\ 1 \in DOMAIN call[a].auth.records
            /\ Head(call[a].auth.records) = call[a].auth.records[1]
        BY <1>2, <3>2, RecordTypes
      <4> QED  BY <1>1, <3>2, <4>1 DEF Kept, CleanRecords
    <3> QED  BY <3>1, <3>2
  <2> HIDE DEF names, seeds
  <2>5. c.pc = "session" /\ c.auth = call[a].auth /\ c.names = names
    BY <1>1 DEF Calls
  <2> HIDE DEF c
  <2>6. Kept(c)
    BY <1>1, <2>3, <2>5 DEF Kept
  <2>7. Clean(profile')
    <3>1. Without(profile, names) \in Jars /\ Clean(Without(profile, names))
      <4>1. Without(profile, names) \in Jars
        BY <1>1, <2>3 DEF Without, Jars
      <4> QED  BY <1>1, <2>3, <4>1, JarFacts
    <3>2. Clean(Overlay(Without(profile, names), seeds))
      BY <2>4, <3>1, JarFacts
    <3> QED  BY <2>1, <3>2, NothingIsClean
  <2> QED  BY <1>5, <2>1, <2>5, <2>6, <2>7
<1>7. CASE SignedIn(a)
  <2>1. issued < MaxSessions /\ issued' = issued + 1
    BY <1>7 DEF SignedIn
  <2>2. PICK jar \in AfterBrowser(profile, issued') :
          /\ profile' = Normalize(jar)
          /\ Become(a, [call[a] EXCEPT !.pc = "merge", !.ok = TRUE, !.told = issued',
                          !.auth = [access |-> issued', jar |-> Normalize(jar),
                                    records |-> <<Normalize(jar)>>]])
    BY <1>7 DEF SignedIn
  <2> DEFINE c == [call[a] EXCEPT !.pc = "merge", !.ok = TRUE, !.told = issued',
                     !.auth = [access |-> issued', jar |-> Normalize(jar),
                               records |-> <<Normalize(jar)>>]]
  <2>3. jar \in Jars /\ Clean(jar) /\ Clean(Normalize(jar))
    BY <1>1, <1>4, <2>1, <2>2, IssuedFacts, JarTypes
  <2>4. Whole(Normalize(jar))
    BY <2>3, JarFacts
  <2>5. /\ c.pc = "merge" /\ c.names = call[a].names /\ c.auth.jar = profile'
        /\ c.auth.records = <<profile'>>
    BY <1>1, <2>2 DEF Calls
  <2>6. Become(a, c)
    BY <2>2
  <2> HIDE DEF c
  <2>7. Kept(c)
    BY <1>1, <2>2, <2>3, <2>4, <2>5, NothingIsClean DEF Kept
  <2> QED  BY <1>5, <2>2, <2>3, <2>5, <2>6, <2>7
<1>8. CASE ClearSeeds(a)
  <2> DEFINE c == [call[a] EXCEPT !.cleared = TRUE]
  <2>1. /\ call[a].pc = "session" /\ Become(a, c)
        /\ profile' = Without(profile, call[a].names)
    BY <1>8 DEF ClearSeeds
  <2>2. c.pc = "session" /\ Kept(c)
    BY <1>1, <2>1 DEF Kept, Calls
  <2>3. Clean(profile')
    BY <1>1, <1>2, <2>1, JarFacts
  <2> HIDE DEF c
  <2> QED  BY <1>5, <2>1, <2>2, <2>3
<1>9. CASE Captured(a)
  <2> DEFINE c == [call[a] EXCEPT !.pc = "merge", !.ok = TRUE,
                                  !.auth.jar = Overlay(@, profile'),
                                  !.auth.records = <<profile'>>]
  <2>1. Become(a, c)
    BY <1>9 DEF Captured
  <2>2. profile' \in Jars /\ Clean(profile')
    <3>1. CASE UNCHANGED profile
      BY <1>1, <3>1
    <3>2. CASE /\ issued < MaxSessions /\ issued' = issued + 1
               /\ profile' \in AfterBrowser(profile, issued')
      BY <1>1, <1>4, <3>2, IssuedFacts, JarTypes
    <3> QED  BY <1>9, <3>1, <3>2 DEF Captured
  <2>3. /\ c.pc = "merge" /\ c.names = call[a].names
        /\ c.auth.jar = Overlay(call[a].auth.jar, profile')
        /\ c.auth.records = <<profile'>>
    BY <1>1, <1>2 DEF Calls, Auths
  <2>4. /\ Whole(Overlay(call[a].auth.jar, profile'))
        /\ HasSession(profile') => HasSession(Overlay(call[a].auth.jar, profile'))
    BY <1>1, <1>2, <2>2, JarFacts DEF Kept
  <2> HIDE DEF c
  <2>5. Kept(c)
    BY <1>1, <2>2, <2>3, <2>4, NothingIsClean DEF Kept
  <2> QED  BY <1>5, <2>1, <2>2, <2>3, <2>4, <2>5
<1> QED  BY <1>6, <1>7, <1>8, <1>9

\* So every step does.
LEMMA CookieStep ==
  ASSUME ~Shrinks, AuthInv, CookieInv, [Next]_vars
  PROVE  CookieInv'
<1>1. CASE UNCHANGED vars
  BY <1>1 DEF CookieInv, Kept, Carried, vars
<1>2. ASSUME NEW a \in Actors, Step(a) \/ Begin(a) \/ SignedIn(a) \/ BeginCapture(a)
      PROVE  CookieInv'
  BY ONLY <1>2, ~Shrinks, AuthInv, CookieInv, CookieSave, CookieMove, CookieBrowser DEF Step
<1>3. ASSUME NEW p \in Processes, Crash(p) PROVE CookieInv'
  <2> DEFINE gone == [Fresh("client") EXCEPT !.pc = "dead"]
  <2>1. UNCHANGED <<file, profile>> /\ \A a \in Actors : call'[a] \in {call[a], gone}
    BY <1>3 DEF Crash
  <2>2. Kept(gone) /\ gone.pc = "dead"
    BY NothingIsClean DEF Fresh, Kept
  <2> HIDE DEF gone, Kept, Clean, Whole, CleanRecords, HasSession
  <2>3. \A a \in Actors : Kept(call'[a]) /\ Carried(call[a])'
    BY <2>1, <2>2 DEF CookieInv, Carried
  <2> QED  BY <2>1, <2>3 DEF CookieInv, Kept, Carried, Clean, Whole, CleanRecords
<1>4. Age => CookieInv'
  BY DEF Age, CookieInv, Kept, Carried
<1> QED  BY <1>1, <1>2, <1>3, <1>4 DEF Next

-----------------------------------------------------------------------------
(* The theorems *)

\* Every variable of the clients, refreshes, logins and captures keeps its type,
\* for every number of sessions and crashes.
THEOREM TypeCorrect == Spec => []TypeOK
<1>1. AuthInv => TypeOK
  BY DEF AuthInv
<1> QED  BY <1>1, AuthInvHolds, PTL

\* However many threads and processes log in, capture and die, one browser at a
\* time runs on the profile (BrowserProfileLock, _browser_login_async,
\* ZendriverSentinelBundleProvider._acquire).
THEOREM ProfileIsExclusiveHolds == Spec => []ProfileIsExclusive
<1>1. AuthInv => ProfileIsExclusive
  BY DEF AuthInv, HolderInv, ProfileIsExclusive, UsesProfile, Uses
<1> QED  BY <1>1, AuthInvHolds, PTL

\* What a refresh or a login saves, a load takes: the session just issued, in the
\* plain cookie or in its chunks (refresh_auth_session, _finish_browser_login,
\* load_auth_data), unless the server goes back from chunks to the plain cookie.
THEOREM SavedSessionHolds ==
  ASSUME ~Shrinks
  PROVE  Spec => []SavedSession
<1>1. Init => SavedInv
  BY DEF Init, SavedInv, Fresh
<1>2. AuthInv /\ SavedInv /\ [Next]_vars => SavedInv'
  BY SavedStep
<1>3. AuthInv /\ SavedInv => SavedSession
  <2> SUFFICES ASSUME AuthInv, SavedInv, saved # 0
               PROVE  SessionOf(file) \in {[plain |-> saved, chunk |-> 0],
                                           [plain |-> 0, chunk |-> saved]}
    BY DEF SavedSession
  <2>1. Belongs(file.auth.jar, saved) /\ file.auth.jar \in Jars
    BY DEF SavedInv, AuthInv, TypeOK, Files, Auths
  <2>2. HasSession(file.auth.jar)
    BY <2>1 DEF Belongs, Normalize, HasSession, Jars
  <2> QED  BY <2>1, <2>2 DEF SessionOf, Seeded, Belongs
<1> QED  BY <1>1, <1>2, <1>3, AuthInvHolds, PTL DEF Spec

\* While the profile is signed in, no save leaves the file without a session,
\* whatever stale clients save over each other (persist_auth_data,
\* _sync_chatgpt_cookies), unless the server goes back to the plain cookie.
THEOREM SessionSurvivesHolds ==
  ASSUME ~Shrinks
  PROVE  Spec => SessionSurvives
<1>1. Init => SavedInv /\ CookieInv
  <2> SUFFICES ASSUME Init PROVE SavedInv /\ CookieInv
    OBVIOUS
  <2>1. SavedInv
    BY DEF Init, SavedInv, Fresh
  <2>2. Clean(profile) /\ Whole(file.auth.jar) /\ CleanRecords(file.auth.records)
    BY StartsAssumption DEF Init
  <2>3. \A a \in Actors : Kept(call[a]) /\ Carried(call[a])
    BY NothingIsClean DEF Init, Fresh, Kept, Carried
  <2> QED  BY <2>1, <2>2, <2>3 DEF CookieInv
<1>2. SavedInv /\ CookieInv /\ AuthInv /\ [Next]_vars => (SavedInv /\ CookieInv)'
  BY SavedStep, CookieStep
<1>3. SavedInv /\ CookieInv /\ AuthInv /\ [Next]_vars
        => [Usable(SessionOf(file)) /\ HasSession(profile) => Usable(SessionOf(file'))]_vars
  <2> SUFFICES ASSUME SavedInv, CookieInv, AuthInv, Next,
                      Usable(SessionOf(file)), HasSession(profile), file' # file
               PROVE  Usable(SessionOf(file'))
    BY DEF vars
  <2>1. PICK a \in Actors : EndSave(a)
    BY DEF Next, Step, Begin, Load, Seed, AskSession, BeginSave, AcquireProfile, ProfileBusy, Open,
           ClearSeeds, SignInTimesOut, Captured, CaptureFails, Close, SignedIn, BeginCapture,
           Crash, Age
  <2>2. /\ call[a] \in Calls /\ Ordered(call[a]) /\ Kept(call[a]) /\ Carried(call[a])
        /\ call[a].told # 0 => Belongs(call[a].auth.jar, call[a].told)
    BY DEF AuthInv, TypeOK, HolderInv, CookieInv, SavedInv
  <2>3. /\ call[a].auth \in Auths /\ call[a].auth.jar \in Jars
        /\ call[a].told \in Sessions \cup {0}
    BY <2>2 DEF Calls, Auths
  <2>4. file'.auth.jar = call[a].auth.jar /\ call[a].pc = "replace"
    BY <2>1, <2>3 DEF EndSave, Merged, Auths
  <2>5. HasSession(call[a].auth.jar)
    <3>1. CASE call[a].told # 0
      BY <2>2, <2>3, <3>1 DEF Belongs, Normalize, HasSession, Jars
    <3>2. CASE call[a].told = 0
      BY <2>2, <2>4, <3>2 DEF Ordered, Carried
    <3> QED  BY <3>1, <3>2
  <2>6. Usable(Normalize(call[a].auth.jar))
    BY <2>2, <2>3, <2>5, JarFacts DEF Kept
  <2> QED  BY <2>4, <2>5, <2>6 DEF SessionOf, Seeded
<1> QED  BY <1>1, <1>2, <1>3, AuthInvHolds, PTL DEF Spec, SessionSurvives

-----------------------------------------------------------------------------
(* The live gates: as long as a gate runs no write is in doubt, and while  *)
(* a turn is being sent there is one more attempt than there are writes.   *)

Allowed == IF stage = "sending" THEN 1 ELSE 0

Ledger ==
  /\ writes \in Seq(BOOLEAN)
  /\ plan.counts => /\ report \in [attempts : Nat, completions : Nat]
                    /\ report.completions <= Len(writes)
                    /\ Len(writes) + Allowed <= report.attempts

Certain ==
  /\ Running => \A i \in 1 .. Len(writes) : writes[i]
  /\ \A i \in 1 .. Len(writes) - 1 : writes[i]

GInv == Ledger /\ Certain

\* At first nothing was attempted and nothing written.
LEMMA GInvHolds == GateInit => GInv
  BY DEF GateInit, GInv, Ledger, Certain, Allowed, Running

\* A step that writes nothing and attempts nothing, and sends nothing that is not sent
\* already, keeps the invariant.
LEMMA Unwritten ==
  ASSUME GInv, UNCHANGED <<plan, report, writes>>,
         stage' = "sending" => stage = "sending",
         Running' => Running
  PROVE  GInv'
<1>1. Allowed' \in {0, 1} /\ Allowed \in {0, 1} /\ Allowed' <= Allowed
  BY DEF Allowed
<1>2. Ledger'
  BY <1>1 DEF GInv, Ledger
<1>3. Certain'
  BY DEF GInv, Certain, Running
<1> QED  BY <1>2, <1>3 DEF GInv

\* Appending one write to certain writes leaves every write but the last certain.
LEMMA OneMore ==
  ASSUME NEW s \in Seq(BOOLEAN), NEW b \in BOOLEAN, \A i \in 1 .. Len(s) : s[i]
  PROVE  /\ Append(s, b) \in Seq(BOOLEAN)
         /\ Len(Append(s, b)) = Len(s) + 1
         /\ \A i \in 1 .. Len(Append(s, b)) - 1 : Append(s, b)[i]
         /\ b => \A i \in 1 .. Len(Append(s, b)) : Append(s, b)[i]
<1>1. Append(s, b) \in Seq(BOOLEAN) /\ Len(Append(s, b)) = Len(s) + 1
  OBVIOUS
<1>2. \A i \in 1 .. Len(s) : Append(s, b)[i] = s[i]
  OBVIOUS
<1>3. Append(s, b)[Len(s) + 1] = b
  OBVIOUS
<1>4. ASSUME NEW i \in 1 .. Len(Append(s, b)) - 1  PROVE Append(s, b)[i]
  <2>1. i \in 1 .. Len(s)
    BY <1>1
  <2>2. Append(s, b)[i] = s[i]
    BY <1>2, <2>1
  <2>3. s[i]
    BY <2>1
  <2> QED  BY ONLY <2>2, <2>3
<1>5. ASSUME b, NEW i \in 1 .. Len(Append(s, b))  PROVE Append(s, b)[i]
  <2>1. CASE i \in 1 .. Len(s)
    <3>1. Append(s, b)[i] = s[i]
      BY <1>2, <2>1
    <3>2. s[i]
      BY <2>1
    <3> QED  BY ONLY <3>1, <3>2
  <2>2. CASE i = Len(s) + 1
    <3>1. Append(s, b)[i] = b
      BY <1>3, <2>2
    <3> QED  BY ONLY <3>1, <1>5
  <2> QED  BY <2>1, <2>2, <1>1
<1> QED  BY <1>1, <1>4, <1>5

\* The steps of a gate that are not about a turn, and everything around it.
LEMMA QuietStep ==
  ASSUME GInv, \/ Question \/ Support \/ LookStep \/ AwaitEnds \/ DisposalSeen \/ WaitExpires
               \/ RefusedStep \/ EndStep \/ CloseStep
  PROVE  GInv'
<1>1. stage = "step" /\ UNCHANGED <<plan, report, writes>>
  BY DEF Question, Support, LookStep, AwaitEnds, DisposalSeen, WaitExpires, RefusedStep,
         EndStep, CloseStep, At, Quit, Proceed, gateVars
<1>2. stage' \in {"step", "ok", "failed", "raised"}
  BY DEF Question, Support, LookStep, AwaitEnds, DisposalSeen, WaitExpires, RefusedStep,
         EndStep, CloseStep, At, Quit, Proceed, Advance, Fail
<1> QED  BY <1>1, <1>2, Unwritten DEF Running

LEMMA AroundStep ==
  ASSUME GInv, Dispose \/ DisposeFails \/ UserCloses \/ BridgeDrops \/ BridgeReturns
  PROVE  GInv'
<1>1. UNCHANGED <<plan, report, writes, stage>>
  BY DEF Dispose, DisposeFails, UserCloses, BridgeDrops, BridgeReturns, Around, gateVars
<1> QED  BY <1>1, Unwritten DEF Running

\* A turn that begins is one more attempt.
LEMMA BeginStep == GInv /\ TurnBegin => GInv'
<1> SUFFICES ASSUME GInv, TurnBegin PROVE GInv'
  OBVIOUS
<1>1. /\ stage = "step" /\ stage' = "sending" /\ UNCHANGED <<plan, writes>>
      /\ report' = IF plan.counts THEN [report EXCEPT !.attempts = @ + 1] ELSE report
  BY DEF TurnBegin, At, gateVars
<1>2. Allowed = 0 /\ Allowed' = 1
  BY <1>1 DEF Allowed
<1>3. Ledger'
  <2>1. writes' \in Seq(BOOLEAN)
    BY <1>1 DEF GInv, Ledger
  <2>2. ASSUME plan.counts
        PROVE  /\ report' \in [attempts : Nat, completions : Nat]
               /\ report'.completions <= Len(writes)
               /\ Len(writes) + 1 <= report'.attempts
    <3>1. /\ report \in [attempts : Nat, completions : Nat]
          /\ report.completions <= Len(writes) /\ Len(writes) + 0 <= report.attempts
      BY <2>2, <1>2 DEF GInv, Ledger
    <3>2. report' = [report EXCEPT !.attempts = @ + 1]
      BY <1>1, <2>2
    <3>3. Len(writes) \in Nat
      BY DEF GInv, Ledger
    <3> QED  BY <3>1, <3>2, <3>3
  <2> QED  BY <2>1, <2>2, <1>1, <1>2 DEF Ledger
<1>4. Certain'
  BY <1>1 DEF GInv, Certain, Running
<1> QED  BY <1>3, <1>4 DEF GInv

\* A turn that returns is a completion, and a write that is certain.
LEMMA ReturnStep ==
  ASSUME GInv, NEW dev \in Deviations, TurnReturns(dev)
  PROVE  GInv'
<1>1. /\ stage = "sending" /\ plan' = plan /\ writes' = Append(writes, TRUE)
      /\ stage' \in {"step", "ok", "failed", "raised"}
      /\ report' = IF plan.counts THEN [report EXCEPT !.completions = @ + 1] ELSE report
  BY DEF TurnReturns, gateVars, Advance, Fail
<1>2. Allowed = 1 /\ Allowed' = 0
  BY <1>1 DEF Allowed
<1>3. writes \in Seq(BOOLEAN) /\ Len(writes) \in Nat /\ \A i \in 1 .. Len(writes) : writes[i]
  BY <1>1 DEF GInv, Ledger, Certain, Running
<1>4. /\ writes' \in Seq(BOOLEAN) /\ Len(writes') = Len(writes) + 1
      /\ \A i \in 1 .. Len(writes') - 1 : writes'[i]
      /\ \A i \in 1 .. Len(writes') : writes'[i]
  BY <1>1, <1>3, OneMore
<1>5. Ledger'
  <2>1. ASSUME plan.counts
        PROVE  /\ report' \in [attempts : Nat, completions : Nat]
               /\ report'.completions <= Len(writes')
               /\ Len(writes') + 0 <= report'.attempts
    <3>1. /\ report \in [attempts : Nat, completions : Nat]
          /\ report.completions <= Len(writes) /\ Len(writes) + 1 <= report.attempts
      BY <2>1, <1>2 DEF GInv, Ledger
    <3>2. report' = [report EXCEPT !.completions = @ + 1]
      BY <1>1, <2>1
    <3> QED  BY <3>1, <3>2, <1>3, <1>4
  <2> QED  BY <2>1, <1>1, <1>2, <1>4 DEF Ledger
<1>6. Certain'
  BY <1>4 DEF Certain
<1> QED  BY <1>5, <1>6 DEF GInv

\* A turn that fails ends the gate; its write, if there was one, is the last.
LEMMA RaiseStep ==
  ASSUME GInv, NEW landed \in BOOLEAN, TurnRaises(landed)
  PROVE  GInv'
<1>1. /\ stage = "sending" /\ stage' \in {"failed", "raised"} /\ UNCHANGED <<plan, report>>
      /\ writes' = IF landed THEN Append(writes, FALSE) ELSE writes
  BY DEF TurnRaises, gateVars, Fail
<1>2. Allowed = 1 /\ Allowed' = 0 /\ ~Running'
  BY <1>1 DEF Allowed, Running
<1>3. writes \in Seq(BOOLEAN) /\ Len(writes) \in Nat /\ \A i \in 1 .. Len(writes) : writes[i]
  BY <1>1 DEF GInv, Ledger, Certain, Running
<1>4. CASE ~landed
  <2>1. UNCHANGED writes
    BY <1>1, <1>4
  <2> QED  BY <2>1, <1>1, <1>2, Unwritten
<1>5. CASE landed
  <2>1. /\ writes' \in Seq(BOOLEAN) /\ Len(writes') = Len(writes) + 1
        /\ \A i \in 1 .. Len(writes') - 1 : writes'[i]
    BY <1>1, <1>3, <1>5, OneMore
  <2>2. ASSUME plan.counts
        PROVE  /\ report \in [attempts : Nat, completions : Nat]
               /\ report.completions <= Len(writes')
               /\ Len(writes') + 0 <= report.attempts
    <3>1. /\ report \in [attempts : Nat, completions : Nat]
          /\ report.completions <= Len(writes) /\ Len(writes) + 1 <= report.attempts
      BY <2>2, <1>2 DEF GInv, Ledger
    <3> QED  BY <3>1, <2>1, <1>3
  <2>3. Ledger'
    BY <2>1, <2>2, <1>1, <1>2 DEF Ledger
  <2>4. Certain'
    BY <2>1, <1>2 DEF Certain
  <2> QED  BY <2>4, <2>3 DEF GInv
<1> QED  BY <1>4, <1>5

LEMMA GInvKept == GInv /\ [GateNext]_runVars => GInv'
<1> SUFFICES ASSUME GInv, [GateNext]_runVars PROVE GInv'
  OBVIOUS
<1>1. CASE UNCHANGED runVars
  <2>1. UNCHANGED <<plan, report, writes, stage>>
    BY <1>1 DEF runVars
  <2>2. Running' => Running
    BY <2>1 DEF Running
  <2> QED  BY <2>1, <2>2, Unwritten
<1>2. CASE GateStep
  <2>1. CASE TurnBegin
    BY <2>1, BeginStep
  <2>2. CASE \E dev \in Deviations : TurnReturns(dev)
    BY <2>2, ReturnStep
  <2>3. CASE \E landed \in BOOLEAN : TurnRaises(landed)
    BY <2>3, RaiseStep
  <2> QED  BY <1>2, <2>1, <2>2, <2>3, QuietStep DEF GateStep
<1> QED  BY <1>1, <1>2, AroundStep DEF GateNext, Ended

\* A gate never writes again once the result of a write is in doubt, and the attempts
\* and completions it counts enclose the writes it made, for every plan.
THEOREM NothingAfterDoubt == GateSpec => []NoWriteAfterDoubt
<1>1. GInv => NoWriteAfterDoubt
  <2> SUFFICES ASSUME GInv PROVE NoWriteAfterDoubt
    OBVIOUS
  <2>1. \A i \in 1 .. Len(writes) - 1 : writes[i]
    BY DEF GInv, Certain
  <2>2. ASSUME plan.counts
        PROVE  report.completions <= Len(writes) /\ Len(writes) <= report.attempts
    <3>1. /\ Len(writes) \in Nat /\ Allowed \in {0, 1} /\ report.attempts \in Nat
          /\ report.completions <= Len(writes) /\ Len(writes) + Allowed <= report.attempts
      BY <2>2 DEF GInv, Ledger, Allowed
    <3> QED  BY <3>1
  <2> QED  BY <2>1, <2>2 DEF NoWriteAfterDoubt
<1> QED  BY <1>1, GInvHolds, GInvKept, PTL DEF GateSpec


-----------------------------------------------------------------------------
(* The gates of rich input: the schemas, and recursion over them.  A       *)
(* recursive function is what its equation says it is, because every gate  *)
(* builds on an earlier one.                                               *)

\* The levels one by one.
LEMMA LevelIs ==
  /\ levels[7] = Schema7 /\ levels[8] = Schema8 /\ levels[9] = Schema9 /\ levels[10] = Schema10
  /\ levels[11] = Schema11 /\ levels[12] = Schema12 /\ levels[13] = Schema13 /\ levels[14] = Schema14
  /\ levels[15] = Schema15 /\ levels[16] = Schema16 /\ levels[17] = Schema17 /\ levels[18] = Schema18
  /\ levels[19] = Schema19 /\ levels[20] = Schema20 /\ levels[21] = Schema21 /\ levels[22] = Schema22
  /\ levels[23] = Schema23 /\ levels[24] = Schema24 /\ levels[25] = Schema25 /\ levels[26] = Schema26
  /\ levels[27] = Schema27 /\ levels[28] = Schema28 /\ levels[29] = Schema29
BY DEF levels, Schemas

\* Which gate each builds on.
LEMMA FromIs ==
  /\ Schema7.from = 7 /\ Schema8.from = 7 /\ Schema9.from = 8 /\ Schema10.from = 9
  /\ Schema11.from = 10 /\ Schema12.from = 11 /\ Schema13.from = 12 /\ Schema14.from = 13
  /\ Schema15.from = 14 /\ Schema16.from = 15 /\ Schema17.from = 16 /\ Schema18.from = 17
  /\ Schema19.from = 18 /\ Schema20.from = 19 /\ Schema21.from = 20 /\ Schema22.from = 21
  /\ Schema23.from = 21 /\ Schema24.from = 23 /\ Schema25.from = 24 /\ Schema26.from = 25
  /\ Schema27.from = 24 /\ Schema28.from = 27 /\ Schema29.from = 28
BY DEF Level, Schema7, Schema8, Schema9, Schema10, Schema11, Schema12, Schema13,
Schema14, Schema15, Schema16, Schema17, Schema18, Schema19, Schema20, Schema21,
Schema22, Schema23, Schema24, Schema25, Schema26, Schema27, Schema28, Schema29

WellFormed(l) ==
  /\ \A c \in DOMAIN l.named : l.named[c] # "other"
  /\ DOMAIN l.frozen \subseteq Claims(l)

LEMMA AllWellFormed == \A n \in Schemas : WellFormed(levels[n])
<1> USE DEF WellFormed, Level, Claims, NoClaims, Yes, Schema7, Schema8, Schema9,
Schema10, Schema11, Schema12, Schema13, Schema14, Schema15, Schema16, Schema17,
Schema18, Schema19, Schema20, Schema21, Schema22, Schema23, Schema24, Schema25,
Schema26, Schema27, Schema28, Schema29
<1>7. WellFormed(Schema7)
  OBVIOUS
<1>8. WellFormed(Schema8)
  OBVIOUS
<1>9. WellFormed(Schema9)
  OBVIOUS
<1>10. WellFormed(Schema10)
  OBVIOUS
<1>11. WellFormed(Schema11)
  OBVIOUS
<1>12. WellFormed(Schema12)
  OBVIOUS
<1>13. WellFormed(Schema13)
  OBVIOUS
<1>14. WellFormed(Schema14)
  OBVIOUS
<1>15. WellFormed(Schema15)
  OBVIOUS
<1>16. WellFormed(Schema16)
  OBVIOUS
<1>17. WellFormed(Schema17)
  OBVIOUS
<1>18. WellFormed(Schema18)
  OBVIOUS
<1>19. WellFormed(Schema19)
  OBVIOUS
<1>20. WellFormed(Schema20)
  OBVIOUS
<1>21. WellFormed(Schema21)
  OBVIOUS
<1>22. WellFormed(Schema22)
  OBVIOUS
<1>23. WellFormed(Schema23)
  OBVIOUS
<1>24. WellFormed(Schema24)
  OBVIOUS
<1>25. WellFormed(Schema25)
  OBVIOUS
<1>26. WellFormed(Schema26)
  OBVIOUS
<1>27. WellFormed(Schema27)
  OBVIOUS
<1>28. WellFormed(Schema28)
  OBVIOUS
<1>29. WellFormed(Schema29)
  OBVIOUS
<1> HIDE DEF WellFormed, Level, Claims, NoClaims, Yes, Schema7, Schema8, Schema9,
Schema10, Schema11, Schema12, Schema13, Schema14, Schema15, Schema16, Schema17,
Schema18, Schema19, Schema20, Schema21, Schema22, Schema23, Schema24, Schema25,
Schema26, Schema27, Schema28, Schema29
<1> QED
  BY <1>7, <1>8, <1>9, <1>10, <1>11, <1>12, <1>13, <1>14, <1>15, <1>16, <1>17, <1>18,
  <1>19, <1>20, <1>21, <1>22, <1>23, <1>24, <1>25, <1>26, <1>27, <1>28, <1>29, LevelIs
  DEF Schemas

\* A nonempty set of schemas has a least element.
LEMMA Earliest ==
  ASSUME NEW S \in SUBSET Schemas, S # {}
  PROVE  \E y \in S : \A z \in S : y <= z
<1>1. S \subseteq Nat
  BY DEF Schemas
<1>2. PICK y \in S : \A z \in S : ~ (<<z, y>> \in OpToRel(<, Nat))
  BY <1>1, NatLessThanWellFounded, WFMin
<1>3. \A z, w \in Nat : z < w => <<z, w>> \in OpToRel(<, Nat)
  BY DEF OpToRel
<1>4. y \in Nat /\ \A z \in S : z \in Nat /\ ~ (z < y)
  BY <1>1, <1>2, <1>3
<1> QED  BY <1>4

\* Every gate but the first builds on an earlier one.
LEMMA Earlier == \A n \in Schemas : n # 7 => levels[n].from \in 7 .. n - 1
<1> SUFFICES ASSUME NEW n \in Schemas, n # 7 PROVE levels[n].from \in 7 .. n - 1
  OBVIOUS
<1>1. n \in 8 .. 29
  BY DEF Schemas
<1> QED  BY <1>1, LevelIs, FromIs

\* What comes before schema k.
LEMMA Before ==
  ASSUME NEW k \in 8 .. 29, NEW n \in 7 .. k, n < k
  PROVE  n \in 7 .. k - 1 /\ n \in Schemas
BY DEF Schemas

\* A recursion over the schemas, from each to an earlier one, has a solution.
Solvable(R, base, f, p) ==
  \E u \in [Schemas -> R] :
     \A n \in Schemas : u[n] = IF n = 7 THEN base ELSE f[<<n, u[p[n]]>>]

LEMMA Recursion ==
  ASSUME NEW R, NEW base \in R, NEW f \in [Schemas \X R -> R], NEW p \in [Schemas -> Nat],
         \A n \in Schemas : n # 7 => p[n] \in 7 .. n - 1
  PROVE  Solvable(R, base, f, p)
<1> DEFINE Solves(g, k) ==
             g = [n \in 7 .. k |-> IF n = 7 THEN base ELSE f[<<n, g[p[n]]>>]]
           Missing == {k \in Schemas : ~ \E g \in [7 .. k -> R] : Solves(g, k)}
<1>1. Missing = {}
  <2> SUFFICES ASSUME Missing # {} PROVE FALSE
    OBVIOUS
  <2>1. PICK k \in Missing : \A z \in Missing : k <= z
    <3> HIDE DEF Missing
    <3>1. Missing \in SUBSET Schemas
      BY DEF Missing
    <3> QED  BY <3>1, Earliest
  <2>2. CASE k = 7
    <3> DEFINE g == [n \in 7 .. 7 |-> base]
    <3>1. Solves(g, 7) /\ g \in [7 .. 7 -> R]
      OBVIOUS
    <3> QED  BY <2>1, <2>2, <3>1
  <2>3. CASE k # 7
    <3>1. k \in Schemas /\ k \in 8 .. 29 /\ k - 1 \in Schemas
      <4>1. k \in Schemas
        OBVIOUS
      <4> HIDE DEF Missing
      <4> QED  BY <4>1, <2>3 DEF Schemas
    <3>2. k - 1 \notin Missing
      <4> HIDE DEF Missing
      <4> QED  BY <2>1, <3>1
    <3>3. PICK g \in [7 .. k - 1 -> R] : Solves(g, k - 1)
      <4> HIDE DEF Solves
      <4> QED  BY <3>1, <3>2
    <3> DEFINE h == [n \in 7 .. k |-> IF n < k THEN g[n] ELSE f[<<k, g[p[k]]>>]]
    <3>4. p[k] \in 7 .. k - 1 /\ p[k] \in 7 .. k /\ p[k] < k /\ k \in 7 .. k
      <4>1. p[k] \in 7 .. k - 1
        BY <3>1
      <4> HIDE DEF Missing
      <4> QED  BY <3>1, <4>1
    <3>5. f[<<k, g[p[k]]>>] \in R
      BY <3>1, <3>3, <3>4
    <3>6. h \in [7 .. k -> R]
      <4>1. \A n \in 7 .. k : n < k => n \in 7 .. k - 1 /\ g[n] \in R
        BY <3>1, <3>3
      <4> QED  BY <4>1, <3>5
    <3>7. ASSUME NEW n \in 7 .. k
          PROVE  h[n] = IF n = 7 THEN base ELSE f[<<n, h[p[n]]>>]
      <4>1. CASE n < k
        <5>1. n \in 7 .. k - 1 /\ h[n] = g[n] /\ n \in Schemas
          <6>1. n \in 7 .. k - 1 /\ n \in Schemas
            <7> HIDE DEF Missing, Solves, h
            <7>1. k \in 8 .. 29 /\ n \in 7 .. k /\ n < k
              BY <3>1, <4>1
            <7> QED  BY ONLY <7>1, Before, Zenon
          <6>2. h[n] = g[n]
            BY <4>1
          <6> QED  BY <6>1, <6>2
        <5>2. g[n] = IF n = 7 THEN base ELSE f[<<n, g[p[n]]>>]
          BY <3>3, <5>1
        <5>3. n # 7 => p[n] \in 7 .. n - 1
          BY <5>1
        <5>4. n # 7 => h[p[n]] = g[p[n]]
          BY <3>1, <5>3, <4>1
        <5> QED  BY <5>1, <5>2, <5>4
      <4>2. CASE n = k
        <5>1. h[k] = f[<<k, g[p[k]]>>] /\ h[p[k]] = g[p[k]]
          BY <3>1, <3>4
        <5> QED  BY <2>3, <4>2, <5>1
      <4>3. n < k \/ n = k
        <5> HIDE DEF Missing, h
        <5> QED  BY <3>1
      <4> QED  BY <4>1, <4>2, <4>3
    <3>8. Solves(h, k)
      <4> HIDE DEF h
      <4> QED  BY <3>6, <3>7
    <3> QED  BY <2>1, <3>6, <3>8
  <2> QED  BY <2>2, <2>3
<1>2. 29 \in Schemas /\ Schemas = 7 .. 29
  BY DEF Schemas
<1>3. \E g \in [7 .. 29 -> R] : Solves(g, 29)
  <2> HIDE DEF Solves
  <2> QED  BY <1>1, <1>2
<1> QED  BY <1>2, <1>3 DEF Solvable

\* What a gate requires is never something else, and known to all.
LEMMA RequiresTyped ==
  ASSUME NEW n \in Schemas
  PROVE  /\ DOMAIN Requires(levels[n]) = Claims(levels[n])
         /\ Claims(levels[n]) \subseteq AllClaims
         /\ \A c \in Claims(levels[n]) : /\ Requires(levels[n])[c] \in Values
                                       /\ Requires(levels[n])[c] # "other"
         /\ \A c \in DOMAIN levels[n].frozen : levels[n].frozen[c] \in Values
<1> DEFINE l == levels[n]
<1>1. WellFormed(l)
  BY AllWellFormed
<1> HIDE DEF l
<1>2. DOMAIN Requires(l) = Claims(l)
  BY DEF Requires, Claims, Yes, No, ++
<1>3. \A c \in Claims(l) : Requires(l)[c] # "other"
  BY <1>1 DEF Requires, Claims, Yes, No, ++, WellFormed
<1>4. Spoken(l) \subseteq Values /\ Claims(l) \subseteq AllClaims
  BY DEF Values, AllClaims, l
<1>5. /\ \A c \in Claims(l) : Requires(l)[c] \in Values
      /\ \A c \in DOMAIN l.frozen : l.frozen[c] \in Values
  BY <1>4 DEF Spoken
<1> QED  BY <1>2, <1>3, <1>4, <1>5 DEF l

\* What one gate, or several together, may ask for.
Askings == {r \in UNION {[D -> Values] : D \in SUBSET AllClaims} :
               \A c \in DOMAIN r : r[c] # "other"}

\* A record of requirements, spelled out,
LEMMA AskingsIs ==
  ASSUME NEW r
  PROVE  r \in Askings <=>
           /\ r = [c \in DOMAIN r |-> r[c]] /\ DOMAIN r \subseteq AllClaims
           /\ \A c \in DOMAIN r : r[c] \in Values /\ r[c] # "other"
BY DEF Askings

\* and with the requirements of a schema more.
LEMMA AskingMore ==
  ASSUME NEW n \in Schemas
  PROVE  /\ Requires(levels[n]) \in Askings
         /\ \A r \in Askings : Requires(levels[n]) ++ r \in Askings
<1> DEFINE q == Requires(levels[n])
<1>1. q = [c \in DOMAIN q |-> q[c]]
  BY DEF Requires, ++
<1>2. /\ DOMAIN q \subseteq AllClaims
      /\ \A c \in DOMAIN q : q[c] \in Values /\ q[c] # "other"
  BY RequiresTyped
<1> HIDE DEF q
<1>3. q \in Askings
  BY <1>1, <1>2, AskingsIs
<1>4. ASSUME NEW r \in Askings PROVE q ++ r \in Askings
  <2>1. /\ DOMAIN r \subseteq AllClaims
        /\ \A c \in DOMAIN r : r[c] \in Values /\ r[c] # "other"
    BY AskingsIs
  <2>2. /\ q ++ r = [c \in DOMAIN (q ++ r) |-> (q ++ r)[c]]
        /\ DOMAIN (q ++ r) = DOMAIN q \cup DOMAIN r
        /\ \A c \in DOMAIN q \cup DOMAIN r :
              (q ++ r)[c] = IF c \in DOMAIN q THEN q[c] ELSE r[c]
    BY DEF ++
  <2> QED  BY <1>2, <2>1, <2>2, AskingsIs
<1> QED  BY <1>3, <1>4 DEF q

\* The contract of a schema: what its gate requires, and what the contract says of
\* the rest that its gate builds on.
LEMMA ContractIs ==
  \A n \in Schemas :
     /\ contract[n] \in Askings
     /\ contract[n] = IF n = 7 THEN Requires(levels[7])
                     ELSE Requires(levels[n]) ++ contract[levels[n].from]
<1> DEFINE base == Requires(levels[7])
           f == [x \in Schemas \X Askings |-> Requires(levels[x[1]]) ++ x[2]]
           p == [n \in Schemas |-> levels[n].from]
           Rec(u) == u = [n \in Schemas |-> IF n = 7 THEN Requires(levels[7])
                                            ELSE Requires(levels[n]) ++ u[levels[n].from]]
<1>1. 7 \in Schemas
  BY DEF Schemas
<1>2. base \in Askings
  BY <1>1, AskingMore
<1>3. \A n \in Schemas : \A r \in Askings :
          f[<<n, r>>] = Requires(levels[n]) ++ r
  OBVIOUS
<1>4. \A n \in Schemas : n # 7 => p[n] = levels[n].from /\ p[n] \in 7 .. n - 1
  BY Earlier
<1>5. \A n \in Schemas : n # 7 => p[n] \in Schemas
  BY <1>4 DEF Schemas
<1>6. \E u \in [Schemas -> Askings] :
          \A n \in Schemas : u[n] = IF n = 7 THEN base ELSE f[<<n, u[p[n]]>>]
  <2>1. f \in [Schemas \X Askings -> Askings]
    BY AskingMore
  <2>2. p \in [Schemas -> Nat] /\ \A n \in Schemas : n # 7 => p[n] \in 7 .. n - 1
    BY <1>4, FromIs, LevelIs DEF Schemas
  <2> HIDE DEF base, f, p
  <2>3. Solvable(Askings, base, f, p)
    BY <1>2, <2>1, <2>2, Recursion
  <2> QED  BY <2>3 DEF Solvable
<1>7. ASSUME NEW u \in [Schemas -> Askings],
             \A n \in Schemas : u[n] = IF n = 7 THEN base ELSE f[<<n, u[p[n]]>>]
      PROVE  Rec(u)
  <2>1. \A n \in Schemas : (IF n = 7 THEN base ELSE f[<<n, u[p[n]]>>])
            = IF n = 7 THEN Requires(levels[7]) ELSE Requires(levels[n]) ++ u[levels[n].from]
    <3> HIDE DEF f, p
    <3> QED  BY <1>3, <1>4, <1>5
  <2> HIDE DEF base, f, p
  <2>2. \A n \in Schemas : u[n] = IF n = 7 THEN Requires(levels[7])
                               ELSE Requires(levels[n]) ++ u[levels[n].from]
    BY <1>7, <2>1
  <2> QED  BY <2>2
<1>8. \E u : Rec(u)
  <2> HIDE DEF Rec
  <2> QED  BY <1>6, <1>7
<1>9. Rec(contract)
  <2> HIDE DEF Rec
  <2> QED  BY <1>8 DEF contract, Rec
<1>10. \A n \in Schemas :
          contract[n] = IF n = 7 THEN Requires(levels[7])
                        ELSE Requires(levels[n]) ++ contract[levels[n].from]
  BY <1>9
<1>11. \A n \in Schemas : contract[n] \in Askings
  <2> DEFINE Bad == {k \in Schemas : contract[k] \notin Askings}
  <2>1. SUFFICES ASSUME Bad # {} PROVE FALSE
    OBVIOUS
  <2>2. PICK k \in Bad : \A z \in Bad : k <= z
    <3>1. Bad \in SUBSET Schemas
      OBVIOUS
    <3> HIDE DEF Bad
    <3> QED  BY <2>1, <3>1, Earliest
  <2>3. k \in Schemas /\ contract[k] \notin Askings /\ k # 7
    BY <2>2, <1>2, <1>10
  <2>4. levels[k].from \in Schemas /\ levels[k].from < k
    BY <2>3, Earlier DEF Schemas
  <2>5. levels[k].from \notin Bad
    <3> HIDE DEF Bad
    <3> QED  BY <2>2, <2>3, <2>4 DEF Schemas
  <2> QED  BY <2>3, <2>4, <2>5, <1>10, AskingMore
<1> QED  BY <1>10, <1>11

\* What the gate of a schema accepts.
LEMMA AcceptedIs ==
  \A n \in Schemas : \A s \in Answers :
     s \in accepted[n] <=> /\ Finds(Requires(levels[n]), s)
                           /\ n # 7 => levels[n].frozen ++ s \in accepted[levels[n].from]
<1> DEFINE base == {s \in Answers : Finds(Requires(levels[7]), s)}
           f == [x \in Schemas \X SUBSET Answers |->
                   {s \in Answers : /\ Finds(Requires(levels[x[1]]), s)
                                    /\ levels[x[1]].frozen ++ s \in x[2]}]
           p == [n \in Schemas |-> levels[n].from]
           Body(u, n) == {s \in Answers : /\ Finds(Requires(levels[n]), s)
                                          /\ n # 7 => levels[n].frozen ++ s \in u[levels[n].from]}
           Rec(u) == u = [n \in Schemas |-> Body(u, n)]
<1>1. base \in SUBSET Answers /\ f \in [Schemas \X SUBSET Answers -> SUBSET Answers]
  OBVIOUS
<1>2. p \in [Schemas -> Nat] /\ \A n \in Schemas : n # 7 => p[n] \in 7 .. n - 1
  BY Earlier, FromIs, LevelIs DEF Schemas
<1>3. \A n \in Schemas : n # 7 => p[n] = levels[n].from /\ p[n] \in Schemas
  BY <1>2 DEF Schemas
<1>4. Solvable(SUBSET Answers, base, f, p)
  <2> HIDE DEF base, f, p
  <2> QED  BY <1>1, <1>2, Recursion
<1>5. PICK u \in [Schemas -> SUBSET Answers] :
          \A n \in Schemas : u[n] = IF n = 7 THEN base ELSE f[<<n, u[p[n]]>>]
  <2> HIDE DEF base, f, p
  <2> QED  BY <1>4 DEF Solvable
<1>6. \A n \in Schemas : \A r \in SUBSET Answers :
          f[<<n, r>>] = {s \in Answers : /\ Finds(Requires(levels[n]), s)
                                         /\ levels[n].frozen ++ s \in r}
  OBVIOUS
<1>7. ASSUME NEW n \in Schemas PROVE u[n] = Body(u, n)
  <2>1. CASE n = 7
    BY <1>5, <2>1
  <2>2. CASE n # 7
    <3>1. u[n] = f[<<n, u[p[n]]>>] /\ u[p[n]] \in SUBSET Answers /\ p[n] = levels[n].from
      <4> HIDE DEF f, p, base
      <4> QED  BY <1>3, <1>5, <2>2
    <3> HIDE DEF f, p
    <3> QED  BY <1>6, <3>1, <2>2
  <2> QED  BY <2>1, <2>2
<1>8. Rec(u)
  <2> HIDE DEF Body
  <2> QED  BY <1>5, <1>7
<1>9. Rec(accepted)
  <2>1. \E w : Rec(w)
    <3> HIDE DEF Rec
    <3> QED  BY <1>8
  <2> HIDE DEF Rec
  <2> QED  BY <2>1 DEF accepted, Rec
<1>10. \A n \in Schemas : accepted[n] = Body(accepted, n)
  <2> HIDE DEF Body
  <2> QED  BY <1>9
<1> QED  BY <1>10

\* The extension gives an answer, whatever its schema.
LEMMA AnswerIs == \A n \in Schemas : answer[n] \in Answers
<1> DEFINE base == Requires(levels[7]) ++ Silent
           f == [x \in Schemas \X Answers |-> Requires(levels[x[1]]) ++ x[2]]
           p == [n \in Schemas |-> n - 1]
           Rec(u) == u = [n \in Schemas |-> Requires(levels[n])
                                              ++ (IF n = 7 THEN Silent ELSE u[n - 1])]
<1>1. ASSUME NEW n \in Schemas, NEW r \in Answers
      PROVE  Requires(levels[n]) ++ r \in Answers
  <2>1. /\ DOMAIN Requires(levels[n]) \subseteq AllClaims
        /\ \A c \in DOMAIN Requires(levels[n]) : Requires(levels[n])[c] \in Values
    BY RequiresTyped
  <2> DEFINE q == Requires(levels[n])
  <2> HIDE DEF q
  <2> QED  BY <2>1 DEF Answers, ++, q
<1>2. Silent \in Answers /\ 7 \in Schemas
  BY DEF Silent, Answers, Values, Schemas
<1>3. base \in Answers /\ f \in [Schemas \X Answers -> Answers]
  BY <1>1, <1>2
<1>4. p \in [Schemas -> Nat] /\ \A n \in Schemas : n # 7 => p[n] \in 7 .. n - 1
  BY DEF Schemas
<1>5. \A n \in Schemas : n # 7 => p[n] = n - 1 /\ n - 1 \in Schemas
  BY DEF Schemas
<1>6. Solvable(Answers, base, f, p)
  <2> HIDE DEF base, f, p
  <2> QED  BY <1>3, <1>4, Recursion
<1>7. PICK u \in [Schemas -> Answers] :
          \A n \in Schemas : u[n] = IF n = 7 THEN base ELSE f[<<n, u[p[n]]>>]
  <2> HIDE DEF base, f, p
  <2> QED  BY <1>6 DEF Solvable
<1>8. \A n \in Schemas : \A r \in Answers : f[<<n, r>>] = Requires(levels[n]) ++ r
  OBVIOUS
<1>9. ASSUME NEW n \in Schemas
      PROVE  u[n] = Requires(levels[n]) ++ (IF n = 7 THEN Silent ELSE u[n - 1])
  <2>1. CASE n = 7
    BY <1>7, <2>1
  <2>2. CASE n # 7
    <3>1. u[n] = f[<<n, u[p[n]]>>] /\ u[p[n]] \in Answers /\ p[n] = n - 1
      <4> HIDE DEF f, p, base
      <4> QED  BY <1>5, <1>7, <2>2
    <3> HIDE DEF f, p
    <3> QED  BY <1>8, <3>1, <2>2
  <2> QED  BY <2>1, <2>2
<1>10. Rec(answer)
  <2>1. Rec(u)
    BY <1>7, <1>9
  <2>2. \E w : Rec(w)
    <3> HIDE DEF Rec
    <3> QED  BY <2>1
  <2> HIDE DEF Rec
  <2> QED  BY <2>2 DEF answer, Rec
<1>11. \A n \in Schemas :
          answer[n] = Requires(levels[n]) ++ (IF n = 7 THEN Silent ELSE answer[n - 1])
  BY <1>10
<1> DEFINE Bad == {k \in Schemas : answer[k] \notin Answers}
<1>12. SUFFICES ASSUME Bad # {} PROVE FALSE
  OBVIOUS
<1>13. PICK k \in Bad : \A z \in Bad : k <= z
  <2>1. Bad \in SUBSET Schemas
    OBVIOUS
  <2> HIDE DEF Bad
  <2> QED  BY <1>12, <2>1, Earliest
<1>14. k \in Schemas /\ answer[k] \notin Answers /\ k # 7
  BY <1>13, <1>1, <1>2, <1>11
<1>15. k - 1 \in Schemas /\ k - 1 < k
  BY <1>14 DEF Schemas
<1>16. k - 1 \notin Bad
  <2> HIDE DEF Bad
  <2> QED  BY <1>13, <1>14, <1>15 DEF Schemas
<1> QED  BY <1>14, <1>15, <1>16, <1>1, <1>11


-----------------------------------------------------------------------------
(* What the tables say: a gate requires anew only what it freezes for the  *)
(* gates it builds on, or what they require as well.                       *)

Agrees(l, old) ==
  /\ \A c \in DOMAIN l.frozen : c \in DOMAIN old => l.frozen[c] = old[c]
  /\ \A c \in Claims(l) \cap DOMAIN old :
        c \in DOMAIN l.frozen \/ Requires(l)[c] = old[c]

\* Which claims a contract speaks of, and which not.
LEMMA ContractClaims ==
  /\ DOMAIN contract[7] = Claims(Schema7)
  /\ DOMAIN contract[8] = Claims(Schema8) \cup DOMAIN contract[7]
  /\ DOMAIN contract[9] = Claims(Schema9) \cup DOMAIN contract[8]
  /\ DOMAIN contract[10] = Claims(Schema10) \cup DOMAIN contract[9]
  /\ DOMAIN contract[11] = Claims(Schema11) \cup DOMAIN contract[10]
  /\ DOMAIN contract[12] = Claims(Schema12) \cup DOMAIN contract[11]
  /\ DOMAIN contract[13] = Claims(Schema13) \cup DOMAIN contract[12]
  /\ DOMAIN contract[14] = Claims(Schema14) \cup DOMAIN contract[13]
  /\ DOMAIN contract[15] = Claims(Schema15) \cup DOMAIN contract[14]
  /\ DOMAIN contract[16] = Claims(Schema16) \cup DOMAIN contract[15]
  /\ DOMAIN contract[17] = Claims(Schema17) \cup DOMAIN contract[16]
  /\ DOMAIN contract[18] = Claims(Schema18) \cup DOMAIN contract[17]
  /\ DOMAIN contract[19] = Claims(Schema19) \cup DOMAIN contract[18]
  /\ DOMAIN contract[20] = Claims(Schema20) \cup DOMAIN contract[19]
  /\ DOMAIN contract[21] = Claims(Schema21) \cup DOMAIN contract[20]
  /\ DOMAIN contract[22] = Claims(Schema22) \cup DOMAIN contract[21]
  /\ DOMAIN contract[23] = Claims(Schema23) \cup DOMAIN contract[21]
  /\ DOMAIN contract[24] = Claims(Schema24) \cup DOMAIN contract[23]
  /\ DOMAIN contract[25] = Claims(Schema25) \cup DOMAIN contract[24]
  /\ DOMAIN contract[26] = Claims(Schema26) \cup DOMAIN contract[25]
  /\ DOMAIN contract[27] = Claims(Schema27) \cup DOMAIN contract[24]
  /\ DOMAIN contract[28] = Claims(Schema28) \cup DOMAIN contract[27]
  /\ DOMAIN contract[29] = Claims(Schema29) \cup DOMAIN contract[28]
<1>1. ASSUME NEW n \in Schemas, n # 7
      PROVE  DOMAIN contract[n] = Claims(levels[n]) \cup DOMAIN contract[levels[n].from]
  <2>1. contract[n] = Requires(levels[n]) ++ contract[levels[n].from]
    BY <1>1, ContractIs
  <2>2. DOMAIN Requires(levels[n]) = Claims(levels[n])
    BY RequiresTyped
  <2>3. \A q, r : DOMAIN (q ++ r) = DOMAIN q \cup DOMAIN r
    BY DEF ++
  <2> QED  BY <2>1, <2>2, <2>3
<1>2. 7 \in Schemas /\ \A n \in 8 .. 29 : n \in Schemas /\ n # 7
  BY DEF Schemas
<1>3. DOMAIN contract[7] = Claims(levels[7])
  BY <1>2, ContractIs, RequiresTyped
<1>4. \A n \in 8 .. 29 :
         DOMAIN contract[n] = Claims(levels[n]) \cup DOMAIN contract[levels[n].from]
  BY <1>1, <1>2
<1> QED  BY <1>3, <1>4, LevelIs, FromIs, SMTT(40)

\* A gate that brings only new claims agrees with all the others.
LEMMA FreshAgrees ==
  ASSUME NEW l, NEW old, l.frozen = NoClaims, Claims(l) \cap DOMAIN old = {}
  PROVE  Agrees(l, old)
BY DEF Agrees, NoClaims, Yes

\* Most gates bring only new claims.
LEMMA MostAreFresh ==
  /\ Claims(Schema8) \cap DOMAIN contract[7] = {} /\ Schema8.frozen = NoClaims
  /\ Claims(Schema9) \cap DOMAIN contract[8] = {} /\ Schema9.frozen = NoClaims
  /\ Claims(Schema10) \cap DOMAIN contract[9] = {} /\ Schema10.frozen = NoClaims
  /\ Claims(Schema11) \cap DOMAIN contract[10] = {} /\ Schema11.frozen = NoClaims
  /\ Claims(Schema12) \cap DOMAIN contract[11] = {} /\ Schema12.frozen = NoClaims
  /\ Claims(Schema13) \cap DOMAIN contract[12] = {} /\ Schema13.frozen = NoClaims
  /\ Claims(Schema14) \cap DOMAIN contract[13] = {} /\ Schema14.frozen = NoClaims
  /\ Claims(Schema15) \cap DOMAIN contract[14] = {} /\ Schema15.frozen = NoClaims
  /\ Claims(Schema16) \cap DOMAIN contract[15] = {} /\ Schema16.frozen = NoClaims
  /\ Claims(Schema17) \cap DOMAIN contract[16] = {} /\ Schema17.frozen = NoClaims
  /\ Claims(Schema18) \cap DOMAIN contract[17] = {} /\ Schema18.frozen = NoClaims
  /\ Claims(Schema19) \cap DOMAIN contract[18] = {} /\ Schema19.frozen = NoClaims
  /\ Claims(Schema21) \cap DOMAIN contract[20] = {} /\ Schema21.frozen = NoClaims
  /\ Claims(Schema22) \cap DOMAIN contract[21] = {} /\ Schema22.frozen = NoClaims
  /\ Claims(Schema23) \cap DOMAIN contract[21] = {} /\ Schema23.frozen = NoClaims
  /\ Claims(Schema24) \cap DOMAIN contract[23] = {} /\ Schema24.frozen = NoClaims
  /\ Claims(Schema25) \cap DOMAIN contract[24] = {} /\ Schema25.frozen = NoClaims
  /\ Claims(Schema26) \cap DOMAIN contract[25] = {} /\ Schema26.frozen = NoClaims
  /\ Claims(Schema27) \cap DOMAIN contract[24] = {} /\ Schema27.frozen = NoClaims
<1> USE DEF Level, Claims, NoClaims, Yes, Schema7, Schema8, Schema9, Schema10, Schema11,
Schema12, Schema13, Schema14, Schema15, Schema16, Schema17, Schema18, Schema19,
Schema20, Schema21, Schema22, Schema23, Schema24, Schema25, Schema26, Schema27,
Schema28, Schema29
<1>8. Claims(Schema8) \cap DOMAIN contract[7] = {} /\ Schema8.frozen = NoClaims
  BY ContractClaims, ZenonT(40)
<1>9. Claims(Schema9) \cap DOMAIN contract[8] = {} /\ Schema9.frozen = NoClaims
  BY ContractClaims, ZenonT(40)
<1>10. Claims(Schema10) \cap DOMAIN contract[9] = {} /\ Schema10.frozen = NoClaims
  BY ContractClaims, ZenonT(40)
<1>11. Claims(Schema11) \cap DOMAIN contract[10] = {} /\ Schema11.frozen = NoClaims
  BY ContractClaims, ZenonT(40)
<1>12. Claims(Schema12) \cap DOMAIN contract[11] = {} /\ Schema12.frozen = NoClaims
  BY ContractClaims, ZenonT(40)
<1>13. Claims(Schema13) \cap DOMAIN contract[12] = {} /\ Schema13.frozen = NoClaims
  BY ContractClaims, ZenonT(40)
<1>14. Claims(Schema14) \cap DOMAIN contract[13] = {} /\ Schema14.frozen = NoClaims
  BY ContractClaims, ZenonT(40)
<1>15. Claims(Schema15) \cap DOMAIN contract[14] = {} /\ Schema15.frozen = NoClaims
  BY ContractClaims, ZenonT(40)
<1>16. Claims(Schema16) \cap DOMAIN contract[15] = {} /\ Schema16.frozen = NoClaims
  BY ContractClaims, ZenonT(40)
<1>17. Claims(Schema17) \cap DOMAIN contract[16] = {} /\ Schema17.frozen = NoClaims
  BY ContractClaims, ZenonT(40)
<1>18. Claims(Schema18) \cap DOMAIN contract[17] = {} /\ Schema18.frozen = NoClaims
  BY ContractClaims, ZenonT(40)
<1>19. Claims(Schema19) \cap DOMAIN contract[18] = {} /\ Schema19.frozen = NoClaims
  BY ContractClaims, ZenonT(40)
<1>21. Claims(Schema21) \cap DOMAIN contract[20] = {} /\ Schema21.frozen = NoClaims
  BY ContractClaims, ZenonT(40)
<1>22. Claims(Schema22) \cap DOMAIN contract[21] = {} /\ Schema22.frozen = NoClaims
  BY ContractClaims, ZenonT(40)
<1>23. Claims(Schema23) \cap DOMAIN contract[21] = {} /\ Schema23.frozen = NoClaims
  BY ContractClaims, ZenonT(40)
<1>24. Claims(Schema24) \cap DOMAIN contract[23] = {} /\ Schema24.frozen = NoClaims
  BY ContractClaims, ZenonT(40)
<1>25. Claims(Schema25) \cap DOMAIN contract[24] = {} /\ Schema25.frozen = NoClaims
  BY ContractClaims, ZenonT(40)
<1>26. Claims(Schema26) \cap DOMAIN contract[25] = {} /\ Schema26.frozen = NoClaims
  BY ContractClaims, ZenonT(40)
<1>27. Claims(Schema27) \cap DOMAIN contract[24] = {} /\ Schema27.frozen = NoClaims
  BY ContractClaims, ZenonT(40)
<1> HIDE DEF Level, Claims, NoClaims, Yes, Schema7, Schema8, Schema9, Schema10,
Schema11, Schema12, Schema13, Schema14, Schema15, Schema16, Schema17, Schema18,
Schema19, Schema20, Schema21, Schema22, Schema23, Schema24, Schema25, Schema26,
Schema27, Schema28, Schema29
<1> QED
  BY <1>8, <1>9, <1>10, <1>11, <1>12, <1>13, <1>14, <1>15, <1>16, <1>17, <1>18, <1>19,
  <1>21, <1>22, <1>23, <1>24, <1>25, <1>26, <1>27

\* What a contract says of a claim: what its gate requires, or what the one it builds
\* on said.
LEMMA ContractSays ==
  ASSUME NEW n \in Schemas, n # 7, NEW c
  PROVE  /\ c \in Claims(levels[n]) => contract[n][c] = Requires(levels[n])[c]
         /\ c \notin Claims(levels[n]) /\ c \in DOMAIN contract[levels[n].from]
              => contract[n][c] = contract[levels[n].from][c]
<1>1. contract[n] = Requires(levels[n]) ++ contract[levels[n].from]
  BY ContractIs
<1>2. DOMAIN Requires(levels[n]) = Claims(levels[n])
  BY RequiresTyped
<1>3. \A q, r : \A x \in DOMAIN q \cup DOMAIN r :
         (q ++ r)[x] = IF x \in DOMAIN q THEN q[x] ELSE r[x]
  BY DEF ++
<1> QED  BY <1>1, <1>2, <1>3

\* The claims that more than one gate of a chain speaks of.
IdentityAuthority == "new_chat_conversation_identity_authority"
RequestCorrelation == "protected_submit_request_correlation"
OneRequest == "exactly_one_post_arm_conversation_request_required"
AmbiguitySignals ==
  "ambiguous_post_arm_conversation_requests_signal_committed_readback_incomplete"
SubmitRetry == "automatic_write_retry_after_submit_correlation_failure"
RouteAuthority == "route_conversation_identity_authoritative"
IdentityRetry == "automatic_write_retry_after_causal_identity_failure"

\* Three schemas speak again of what older ones spoke of, and of nothing more than this.
LEMMA SpokenAgain ==
  /\ Claims(Schema20) \cap DOMAIN contract[19] \subseteq {IdentityAuthority}
  /\ Claims(Schema28) \cap DOMAIN contract[27] \subseteq {RouteAuthority, IdentityRetry}
  /\ Claims(Schema29) \cap DOMAIN contract[28]
       \subseteq {IdentityAuthority, RequestCorrelation, OneRequest, AmbiguitySignals,
                  SubmitRetry, RouteAuthority, IdentityRetry}
<1> USE DEF Level, Claims, NoClaims, Yes, IdentityAuthority, RequestCorrelation,
OneRequest, AmbiguitySignals, SubmitRetry, RouteAuthority, IdentityRetry, Schema7,
Schema8, Schema9, Schema10, Schema11, Schema12, Schema13, Schema14, Schema15, Schema16,
Schema17, Schema18, Schema19, Schema20, Schema21, Schema22, Schema23, Schema24,
Schema25, Schema26, Schema27, Schema28, Schema29
<1>1. Claims(Schema20) \cap DOMAIN contract[19] \subseteq {IdentityAuthority}
  BY ContractClaims, ZenonT(40)
<1>2. Claims(Schema28) \cap DOMAIN contract[27] \subseteq {RouteAuthority, IdentityRetry}
  BY ContractClaims, ZenonT(40)
<1>3. Claims(Schema29) \cap DOMAIN contract[28]
        \subseteq {IdentityAuthority, RequestCorrelation, OneRequest, AmbiguitySignals,
                   SubmitRetry, RouteAuthority, IdentityRetry}
  BY ContractClaims, SMTT(40)
<1> QED  BY <1>1, <1>2, <1>3

\* What the gates require that speak of them first and last.
LEMMA SpokenFirst ==
  /\ IdentityAuthority \in Claims(Schema19)
  /\ Requires(Schema19)[IdentityAuthority] = "NETWORK_REQUEST_BOUND_STREAM_HANDOFF"
  /\ RouteAuthority \in Claims(Schema19) /\ Requires(Schema19)[RouteAuthority] = "no"
  /\ IdentityRetry \in Claims(Schema19) /\ Requires(Schema19)[IdentityRetry] = "no"
  /\ IdentityAuthority \in Claims(Schema20)
  /\ Requires(Schema20)[IdentityAuthority] = "PROTECTED_SUBMIT_BOUND_REQUEST_STREAM_HANDOFF"
  /\ RequestCorrelation \in Claims(Schema20)
  /\ Requires(Schema20)[RequestCorrelation] = "PAGE_SIDE_ARMED_SINGLE_CONVERSATION_POST"
  /\ OneRequest \in Claims(Schema20) /\ Requires(Schema20)[OneRequest] = "yes"
  /\ AmbiguitySignals \in Claims(Schema20) /\ Requires(Schema20)[AmbiguitySignals] = "yes"
  /\ SubmitRetry \in Claims(Schema20) /\ Requires(Schema20)[SubmitRetry] = "no"
BY DEF Level, Claims, Requires, NoClaims, Yes, No, ++, IdentityAuthority,
RequestCorrelation, OneRequest, AmbiguitySignals, SubmitRetry, RouteAuthority,
IdentityRetry, Schema19, Schema20

\* What the later schemas say of it, and what they freeze.
LEMMA SpokenLast ==
  /\ RouteAuthority \in Claims(Schema28) /\ Requires(Schema28)[RouteAuthority] = "no"
  /\ IdentityRetry \in Claims(Schema28) /\ Requires(Schema28)[IdentityRetry] = "no"
  /\ Schema28.frozen = NoClaims
  /\ Requires(Schema29)[RouteAuthority] = "no"
  /\ Requires(Schema29)[IdentityRetry] = "no"
  /\ Requires(Schema29)[SubmitRetry] = "no"
  /\ DOMAIN Schema20.frozen = {IdentityAuthority}
  /\ Schema20.frozen[IdentityAuthority] = "NETWORK_REQUEST_BOUND_STREAM_HANDOFF"
  /\ DOMAIN Schema29.frozen
       = {IdentityAuthority, RequestCorrelation, OneRequest, AmbiguitySignals}
  /\ Schema29.frozen[IdentityAuthority] = "PROTECTED_SUBMIT_BOUND_REQUEST_STREAM_HANDOFF"
  /\ Schema29.frozen[RequestCorrelation] = "PAGE_SIDE_ARMED_SINGLE_CONVERSATION_POST"
  /\ Schema29.frozen[OneRequest] = "yes" /\ Schema29.frozen[AmbiguitySignals] = "yes"
BY DEF Level, Claims, Requires, NoClaims, Yes, No, ++, IdentityAuthority,
RequestCorrelation, OneRequest, AmbiguitySignals, SubmitRetry, RouteAuthority,
IdentityRetry, Schema28, Schema29, Schema20

\* The gates between say nothing of them.
LEMMA SpokenBetween ==
  /\ \A l \in {Schema20, Schema21, Schema23, Schema24, Schema27} :
        RouteAuthority \notin Claims(l) /\ IdentityRetry \notin Claims(l)
  /\ \A l \in {Schema21, Schema23, Schema24, Schema27, Schema28} :
        \A c \in {IdentityAuthority, RequestCorrelation, OneRequest, AmbiguitySignals,
                  SubmitRetry} : c \notin Claims(l)
BY DEF Level, Claims, NoClaims, Yes, IdentityAuthority, RequestCorrelation, OneRequest,
AmbiguitySignals, SubmitRetry, RouteAuthority, IdentityRetry, Schema20, Schema21,
Schema23, Schema24, Schema27, Schema28

\* What the contract of the older schemas still holds when they do.
LEMMA ContractKeeps ==
  /\ contract[19][IdentityAuthority] = "NETWORK_REQUEST_BOUND_STREAM_HANDOFF"
  /\ contract[27][RouteAuthority] = "no" /\ contract[27][IdentityRetry] = "no"
  /\ contract[28][RouteAuthority] = "no" /\ contract[28][IdentityRetry] = "no"
  /\ contract[28][IdentityAuthority] = "PROTECTED_SUBMIT_BOUND_REQUEST_STREAM_HANDOFF"
  /\ contract[28][RequestCorrelation] = "PAGE_SIDE_ARMED_SINGLE_CONVERSATION_POST"
  /\ contract[28][OneRequest] = "yes" /\ contract[28][AmbiguitySignals] = "yes"
  /\ contract[28][SubmitRetry] = "no"
<1> DEFINE Late == {IdentityAuthority, RequestCorrelation, OneRequest, AmbiguitySignals,
                    SubmitRetry}
           Early == {RouteAuthority, IdentityRetry}
<1>1. ASSUME NEW n \in 8 .. 29, NEW c, c \in Claims(levels[n])
      PROVE  contract[n][c] = Requires(levels[n])[c]
  BY <1>1, ContractSays DEF Schemas
<1>2. ASSUME NEW n \in 8 .. 29, NEW c, c \notin Claims(levels[n]),
             c \in DOMAIN contract[levels[n].from]
      PROVE  contract[n][c] = contract[levels[n].from][c]
  BY <1>2, ContractSays DEF Schemas
<1>3. \A c \in Early : /\ contract[19][c] = "no"
                       /\ c \in DOMAIN contract[19] /\ c \in DOMAIN contract[20]
                       /\ c \in DOMAIN contract[21] /\ c \in DOMAIN contract[23]
                       /\ c \in DOMAIN contract[24]
  BY <1>1, SpokenFirst, LevelIs, ContractClaims
<1>4. \A c \in Early : contract[20][c] = "no"
  BY <1>2, <1>3, SpokenBetween, LevelIs, FromIs
<1>5. \A c \in Early : contract[21][c] = "no"
  BY <1>2, <1>3, <1>4, SpokenBetween, LevelIs, FromIs
<1>6. \A c \in Early : contract[23][c] = "no"
  BY <1>2, <1>3, <1>5, SpokenBetween, LevelIs, FromIs
<1>7. \A c \in Early : contract[24][c] = "no"
  BY <1>2, <1>3, <1>6, SpokenBetween, LevelIs, FromIs
<1>8. \A c \in Early : contract[27][c] = "no"
  BY <1>2, <1>3, <1>7, SpokenBetween, LevelIs, FromIs
<1>9. \A c \in Early : contract[28][c] = "no"
  BY <1>1, SpokenLast, LevelIs
<1>10. \A c \in Late : /\ contract[20][c] = Requires(Schema20)[c]
                       /\ c \in DOMAIN contract[20] /\ c \in DOMAIN contract[21]
                       /\ c \in DOMAIN contract[23] /\ c \in DOMAIN contract[24]
                       /\ c \in DOMAIN contract[27]
  BY <1>1, SpokenFirst, LevelIs, ContractClaims
<1>11. \A c \in Late : contract[21][c] = Requires(Schema20)[c]
  BY <1>2, <1>10, SpokenBetween, LevelIs, FromIs
<1>12. \A c \in Late : contract[23][c] = Requires(Schema20)[c]
  BY <1>2, <1>10, <1>11, SpokenBetween, LevelIs, FromIs
<1>13. \A c \in Late : contract[24][c] = Requires(Schema20)[c]
  BY <1>2, <1>10, <1>12, SpokenBetween, LevelIs, FromIs
<1>14. \A c \in Late : contract[27][c] = Requires(Schema20)[c]
  BY <1>2, <1>10, <1>13, SpokenBetween, LevelIs, FromIs
<1>15. \A c \in Late : contract[28][c] = Requires(Schema20)[c]
  BY <1>2, <1>10, <1>14, SpokenBetween, LevelIs, FromIs
<1>16. contract[19][IdentityAuthority] = "NETWORK_REQUEST_BOUND_STREAM_HANDOFF"
  BY <1>1, SpokenFirst, LevelIs
<1> QED  BY <1>8, <1>9, <1>15, <1>16, SpokenFirst

\* No gate requires what the gates it builds on would refuse.
LEMMA TablesAgree ==
  ASSUME NEW n \in Schemas, n # 7
  PROVE  Agrees(levels[n], contract[levels[n].from])
<1>1. Agrees(Schema20, contract[19])
  BY SpokenAgain, SpokenLast, ContractKeeps DEF Agrees
<1>2. Agrees(Schema28, contract[27])
  BY SpokenAgain, SpokenLast, ContractKeeps DEF Agrees, NoClaims, Yes
<1>3. Agrees(Schema29, contract[28])
  BY SpokenAgain, SpokenLast, ContractKeeps DEF Agrees
<1>8. Agrees(Schema8, contract[7])
  BY MostAreFresh, FreshAgrees
<1>9. Agrees(Schema9, contract[8])
  BY MostAreFresh, FreshAgrees
<1>10. Agrees(Schema10, contract[9])
  BY MostAreFresh, FreshAgrees
<1>11. Agrees(Schema11, contract[10])
  BY MostAreFresh, FreshAgrees
<1>12. Agrees(Schema12, contract[11])
  BY MostAreFresh, FreshAgrees
<1>13. Agrees(Schema13, contract[12])
  BY MostAreFresh, FreshAgrees
<1>14. Agrees(Schema14, contract[13])
  BY MostAreFresh, FreshAgrees
<1>15. Agrees(Schema15, contract[14])
  BY MostAreFresh, FreshAgrees
<1>16. Agrees(Schema16, contract[15])
  BY MostAreFresh, FreshAgrees
<1>17. Agrees(Schema17, contract[16])
  BY MostAreFresh, FreshAgrees
<1>18. Agrees(Schema18, contract[17])
  BY MostAreFresh, FreshAgrees
<1>19. Agrees(Schema19, contract[18])
  BY MostAreFresh, FreshAgrees
<1>21. Agrees(Schema21, contract[20])
  BY MostAreFresh, FreshAgrees
<1>22. Agrees(Schema22, contract[21])
  BY MostAreFresh, FreshAgrees
<1>23. Agrees(Schema23, contract[21])
  BY MostAreFresh, FreshAgrees
<1>24. Agrees(Schema24, contract[23])
  BY MostAreFresh, FreshAgrees
<1>25. Agrees(Schema25, contract[24])
  BY MostAreFresh, FreshAgrees
<1>26. Agrees(Schema26, contract[25])
  BY MostAreFresh, FreshAgrees
<1>27. Agrees(Schema27, contract[24])
  BY MostAreFresh, FreshAgrees
<1> QED
  BY <1>1, <1>2, <1>3, <1>8, <1>9, <1>10, <1>11, <1>12, <1>13, <1>14, <1>15, <1>16,
  <1>17, <1>18, <1>19, <1>21, <1>22, <1>23, <1>24, <1>25, <1>26, <1>27, LevelIs, FromIs
  DEF Schemas

-----------------------------------------------------------------------------
(* The gate of a schema accepts exactly what meets the contract.           *)

\* The chain of gates from a schema down to the first, each relabelling the answer for
\* the next (_validate_support), accepts an answer exactly when it finds the contract of
\* the schema in it, whatever the extension says.
THEOREM AcceptsWhatMeets ==
  \A n \in Schemas : \A s \in Answers : s \in accepted[n] <=> Finds(contract[n], s)
<1> DEFINE Settled(n) == \A s \in Answers : s \in accepted[n] <=> Finds(contract[n], s)
           Bad == {n \in Schemas : ~ Settled(n)}
<1>1. SUFFICES ASSUME Bad # {} PROVE FALSE
  OBVIOUS
<1>2. PICK n \in Bad : \A z \in Bad : n <= z
  <2>1. Bad \in SUBSET Schemas
    OBVIOUS
  <2> HIDE DEF Bad
  <2> QED  BY <1>1, <2>1, Earliest
<1>3. n \in Schemas /\ ~ Settled(n)
  BY <1>2
<1>4. CASE n = 7
  <2> HIDE DEF Settled
  <2> QED  BY <1>3, <1>4, AcceptedIs, ContractIs DEF Settled
<1>5. CASE n # 7
  <2> DEFINE l == levels[n]
             old == contract[l.from]
             q == Requires(l)
  <2>1. l.from \in Schemas /\ l.from < n
    BY <1>3, <1>5, Earlier DEF Schemas
  <2>2. Settled(l.from)
    <3>1. l.from \notin Bad
      <4> HIDE DEF Bad
      <4> QED  BY <1>2, <1>3, <2>1 DEF Schemas
    <3> HIDE DEF Settled
    <3> QED  BY <2>1, <3>1
  <2>3. /\ Agrees(l, old) /\ WellFormed(l)
        /\ contract[n] = q ++ old
        /\ DOMAIN q = Claims(l) /\ Claims(l) \subseteq AllClaims
        /\ \A c \in DOMAIN l.frozen : l.frozen[c] \in Values
    BY <1>3, <1>5, TablesAgree, AllWellFormed, ContractIs, RequiresTyped
  <2>4. old \in Askings /\ DOMAIN old \subseteq AllClaims
    BY <2>1, ContractIs, AskingsIs
  <2>5. ASSUME NEW s \in Answers
        PROVE  s \in accepted[n] <=> Finds(contract[n], s)
    <3> DEFINE t == l.frozen ++ s
    <3>1. /\ DOMAIN s = AllClaims /\ DOMAIN l.frozen \subseteq AllClaims
          /\ \A c \in AllClaims : t[c] = IF c \in DOMAIN l.frozen THEN l.frozen[c] ELSE s[c]
          /\ t \in Answers
      <4>1. DOMAIN s = AllClaims /\ DOMAIN l.frozen \subseteq AllClaims
        BY <2>3 DEF Answers, WellFormed
      <4> HIDE DEF l
      <4> QED  BY <4>1, <2>3 DEF Answers, ++
    <3>2. s \in accepted[n] <=> Finds(q, s) /\ t \in accepted[l.from]
      BY <1>3, <1>5, AcceptedIs
    <3>3. t \in accepted[l.from] <=> Finds(old, t)
      BY <2>2, <3>1
    <3>4. Finds(q ++ old, s) <=> \A c \in DOMAIN q \cup DOMAIN old :
                                    s[c] = IF c \in DOMAIN q THEN q[c] ELSE old[c]
      BY DEF Finds, ++
    <3>5. /\ \A c \in DOMAIN l.frozen :
                c \in DOMAIN q /\ (c \in DOMAIN old => l.frozen[c] = old[c])
          /\ \A c \in DOMAIN q \cap DOMAIN old : c \in DOMAIN l.frozen \/ q[c] = old[c]
      BY <2>3 DEF Agrees, WellFormed
    <3> HIDE DEF l, q, old, t
    <3>6. Finds(old, t) <=> \A c \in DOMAIN old \ DOMAIN l.frozen : s[c] = old[c]
      BY <2>4, <3>1, <3>5 DEF Finds
    <3>7. Finds(q, s) <=> \A c \in DOMAIN q : s[c] = q[c]
      BY DEF Finds
    <3>8. Finds(q ++ old, s) <=> Finds(q, s) /\ Finds(old, t)
      BY <3>4, <3>5, <3>6, <3>7
    <3> QED  BY <2>3, <3>2, <3>3, <3>8
  <2> QED  BY <1>3, <2>5
<1> QED  BY <1>4, <1>5

-----------------------------------------------------------------------------
(* What a gate has proven.  The tab of a turn that was seen to be gone     *)
(* stays gone, since new tabs get new numbers; so what a step was passed   *)
(* for is true as long as the gate runs, and at its end.                   *)

\* The steps a gate has passed.
Passed == IF stage = "ok" THEN DOMAIN plan.steps ELSE 1 .. pc - 1

\* The tab of turn k is gone for good.
Gone(k) ==
  tab # turns[k].tab /\ \A i \in k + 1 .. Len(turns) : turns[i].tab # turns[k].tab

\* What step i was passed for is still true.
Upheld(i) ==
  LET s == plan.steps[i]
      k == Number(plan, i)
  IN  /\ s.op = "turn" => \A c \in s.checks : Shows(turns, k, c)
      /\ k # 0 /\ Absent(s) => Gone(k)
      /\ s.op = "disposal" => Gone(s.turn)
      /\ s.op = "close" => tab # FirstTab
      /\ s.op = "end" /\ k = Len(turns) => session = 0

\* New tabs get new numbers, only the last turn's tab is to be closed, and the tab that
\* was closed is gone.
Tabs ==
  /\ \E S : turns \in Seq(S)
  /\ lastTab \in Nat /\ FirstTab <= lastTab /\ tab \in 0 .. lastTab
  /\ \A i \in 1 .. Len(turns) : turns[i].tab \in 1 .. lastTab
  /\ armed \in {0, Len(turns)} /\ disposed \in 0 .. Len(turns)
  /\ disposed # 0 => Gone(disposed)

\* One turn and one write for every turn step behind; the odd answer lies ahead.
OnTheWay ==
  /\ pc \in DOMAIN plan.steps
  /\ stage = "sending" => step.op = "turn"
  /\ Len(turns) = Number(plan, pc - 1) /\ Len(writes) = Len(turns)
  /\ odd = Nothing \/ pc <= odd[1]

AtTheEnd ==
  LET last == plan.steps[Len(plan.steps)]
  IN  /\ odd = Nothing
      /\ Len(turns) = Total(plan)
      /\ last.op \in {"look", "await"} /\ last.tab # None => TabIs(last.tab, turns)

\* What a gate starts from.
Setting ==
  /\ \E g \in DOMAIN Gates : plan = Gates[g]
  /\ odd # Nothing => odd[1] \in DOMAIN plan.steps /\ odd[2] \in MayBeOdd(plan, odd[1])
  /\ Rich(plan) => build \in Schemas /\ (odd # Nothing => build = plan.steps[1].schema)

Proven ==
  /\ Running => OnTheWay
  /\ stage = "ok" => AtTheEnd
  /\ Running \/ stage = "ok" => Tabs /\ \A i \in Passed : Upheld(i)
  /\ writes \in Seq(BOOLEAN) /\ Len(writes) <= Total(plan)

\* Past the first step of a rich-input plan the contract is met; a gate that stopped
\* there over a bridge that is up found it broken.
Described ==
  Rich(plan) =>
    LET meets == Meets(plan.steps[1].schema, build, described)
    IN  /\ pc = 1 => stage \in {"step", "failed", "raised"}
        /\ pc # 1 => meets
        /\ pc = 1 /\ ~Running /\ bridge => ~meets

-----------------------------------------------------------------------------
(* Plans and turns *)

\* The plan of a gate is one of those that are assumed to be sound.
LEMMA PlanIsSound == Setting => Sound(plan)
BY LiveGateAssumption DEF Setting

\* The number of turns up to a step.
LEMMA NumberFacts ==
  ASSUME NEW p
  PROVE  /\ \A i \in Nat : Number(p, i) \in Nat
         /\ Number(p, 0) = 0
         /\ \A i \in Nat \ {0} :
               Number(p, i) = Number(p, i - 1) + IF p.steps[i].op = "turn" THEN 1 ELSE 0
         /\ \A i, j \in Nat : i <= j => Number(p, i) <= Number(p, j)
<1> DEFINE Made(i) == {j \in 1 .. i : p.steps[j].op = "turn"}
<1>1. \A i \in Nat : IsFiniteSet(Made(i)) /\ Cardinality(Made(i)) \in Nat
  <2> SUFFICES ASSUME NEW i \in Nat PROVE IsFiniteSet(Made(i)) /\ Cardinality(Made(i)) \in Nat
    OBVIOUS
  <2>1. IsFiniteSet(1 .. i)
    BY FS_Interval
  <2>2. Made(i) \subseteq 1 .. i
    OBVIOUS
  <2> HIDE DEF Made
  <2> QED  BY <2>1, <2>2, FS_Subset, FS_CardinalityType
<1>2. \A i \in Nat : Number(p, i) = Cardinality(Made(i))
  BY DEF Number
<1>3. Cardinality(Made(0)) = 0
  <2>1. Made(0) = {}
    OBVIOUS
  <2> QED  BY <2>1, FS_EmptySet
<1>4. ASSUME NEW i \in Nat \ {0}
      PROVE  Cardinality(Made(i))
               = Cardinality(Made(i - 1)) + IF p.steps[i].op = "turn" THEN 1 ELSE 0
  <2>1. CASE p.steps[i].op = "turn"
    <3>1. Made(i) = Made(i - 1) \cup {i} /\ i \notin Made(i - 1) /\ i - 1 \in Nat
      BY <2>1
    <3> HIDE DEF Made
    <3>2. Cardinality(Made(i)) = Cardinality(Made(i - 1)) + 1
      BY <1>1, <3>1, FS_AddElement
    <3> QED  BY <2>1, <3>2
  <2>2. CASE p.steps[i].op # "turn"
    <3>1. Made(i) = Made(i - 1) /\ i - 1 \in Nat
      BY <2>2
    <3>2. Cardinality(Made(i - 1)) \in Nat
      BY <1>1, <3>1
    <3> HIDE DEF Made
    <3> QED  BY <2>2, <3>1, <3>2
  <2> QED  BY <2>1, <2>2
<1>5. ASSUME NEW i \in Nat, NEW j \in Nat, i <= j
      PROVE  Cardinality(Made(i)) <= Cardinality(Made(j))
  <2>1. Made(i) \subseteq Made(j)
    BY <1>5
  <2> HIDE DEF Made
  <2> QED  BY <1>1, <2>1, FS_Subset
<1> HIDE DEF Made
<1> QED  BY <1>1, <1>2, <1>3, <1>4, <1>5

\* A turn more, after those there are.
LEMMA OneTurnMore ==
  ASSUME NEW s, \E S : s \in Seq(S), NEW t
  PROVE  /\ \E S : Append(s, t) \in Seq(S)
         /\ Len(s) \in Nat /\ Len(Append(s, t)) = Len(s) + 1
         /\ \A i \in 1 .. Len(s) : Append(s, t)[i] = s[i]
         /\ Append(s, t)[Len(s) + 1] = t
<1>1. PICK S : s \in Seq(S)
  OBVIOUS
<1>2. s \in Seq(S \cup {t}) /\ t \in S \cup {t}
  BY <1>1
<1>3. Append(s, t) \in Seq(S \cup {t})
  BY <1>2
<1> QED  BY <1>2, <1>3

\* What a turn showed it shows with a turn more.
LEMMA ShownStays ==
  ASSUME NEW s, \E S : s \in Seq(S), NEW t, NEW k \in 1 .. Len(s), NEW c, InOrder(k, c),
         Shows(s, k, c)
  PROVE  Shows(Append(s, t), k, c)
<1> DEFINE a == Append(s, t)
<1>1. Len(s) \in Nat /\ \A i \in 1 .. Len(s) : a[i] = s[i]
  BY OneTurnMore
<1> HIDE DEF a
<1>2. a[k] = s[k]
  BY <1>1
<1>3. c[1] \in {"reused", "otherTab"} => a[c[2]] = s[c[2]]
  BY <1>1 DEF InOrder
<1>4. c[1] \in {"same", "apart"} => Conversation(a, c[2]) = Conversation(s, c[2])
  BY <1>1 DEF InOrder, Conversation
<1>5. Shows(a, k, c)
  BY <1>2, <1>3, <1>4 DEF Shows
<1> QED  BY <1>5 DEF a

\* While a gate runs, every step behind it is about turns that were made.
LEMMA StepsBehind ==
  ASSUME Setting, Running, Proven, NEW i \in Passed
  PROVE  /\ i \in DOMAIN plan.steps /\ i \in Nat /\ i <= pc - 1 /\ Len(turns) \in Nat
         /\ Number(plan, i) \in 0 .. Len(turns)
         /\ plan.steps[i].op = "turn" =>
               /\ Number(plan, i) # 0
               /\ \A c \in plan.steps[i].checks : InOrder(Number(plan, i), c)
         /\ plan.steps[i].op = "disposal" => plan.steps[i].turn \in 1 .. Len(turns)
<1>1. Sound(plan) /\ stage # "ok"
  BY PlanIsSound DEF Running
<1>2. /\ pc \in DOMAIN plan.steps /\ Len(turns) = Number(plan, pc - 1)
      /\ DOMAIN plan.steps = 1 .. Len(plan.steps) /\ Len(plan.steps) \in Nat
  BY <1>1 DEF Proven, OnTheWay, Sound
<1>3. /\ i \in Nat \ {0} /\ i <= pc - 1 /\ pc - 1 \in Nat /\ i \in DOMAIN plan.steps
      /\ i - 1 \in Nat
  BY <1>1, <1>2 DEF Passed
<1>4. /\ Number(plan, i) \in Nat /\ Number(plan, i - 1) \in Nat
      /\ Number(plan, i) <= Number(plan, pc - 1) /\ Number(plan, pc - 1) \in Nat
      /\ Number(plan, i) = Number(plan, i - 1) + IF plan.steps[i].op = "turn" THEN 1 ELSE 0
  BY <1>3, NumberFacts
<1>5. /\ plan.steps[i].op = "turn" =>
            \A c \in plan.steps[i].checks : InOrder(Number(plan, i), c)
      /\ plan.steps[i].op = "disposal" => plan.steps[i].turn \in 1 .. Number(plan, i)
  BY <1>1, <1>3 DEF Sound
<1> QED  BY <1>2, <1>3, <1>4, <1>5

\* A tab that is gone stays gone when the runtime tab is closed,
LEMMA GoneStays ==
  ASSUME Tabs, UNCHANGED turns, tab' \in {tab, 0}, NEW k \in 1 .. Len(turns), Gone(k)
  PROVE  Gone(k)'
<1>1. turns[k].tab # 0
  BY DEF Tabs
<1> QED  BY <1>1 DEF Gone

\* and so does what the steps behind the gate were passed for.
LEMMA UpheldStays ==
  ASSUME Setting, Running, Proven, NEW i \in Passed,
         UNCHANGED <<plan, turns>>, tab' \in {tab, 0}, session' \in {session, 0}
  PROVE  Upheld(i)'
<1>1. Upheld(i) /\ Tabs
  BY DEF Proven
<1> DEFINE s == plan.steps[i]
           k == Number(plan, i)
<1>2. /\ k \in 0 .. Len(turns) /\ (s.op = "disposal" => s.turn \in 1 .. Len(turns))
      /\ Len(turns) \in Nat
  BY StepsBehind
<1>3. k # 0 /\ Absent(s) => Gone(k)'
  BY <1>1, <1>2, GoneStays DEF Upheld
<1>4. s.op = "disposal" => Gone(s.turn)'
  BY <1>1, <1>2, GoneStays DEF Upheld
<1>5. s.op = "turn" => \A c \in s.checks : Shows(turns', k, c)
  BY <1>1 DEF Upheld
<1>6. s.op = "close" => tab' # FirstTab
  BY <1>1 DEF Upheld, FirstTab
<1>7. s.op = "end" /\ k = Len(turns) => session' = 0
  BY <1>1 DEF Upheld
<1>8. plan'.steps[i] = s /\ Number(plan', i) = k
  OBVIOUS
<1> QED  BY <1>3, <1>4, <1>5, <1>6, <1>7, <1>8 DEF Upheld

\* A gate that has failed has only its writes to answer for.
LEMMA FailKeeps ==
  ASSUME stage' \in {"failed", "raised"}, writes' \in Seq(BOOLEAN),
         Len(writes') <= Total(plan')
  PROVE  Proven'
BY DEF Proven, Running

\* So does anything that leaves the gate where it is and at most closes its tab.
LEMMA StayKeeps ==
  ASSUME Setting, Proven, Running, stage' \in {"step", "sending"},
         UNCHANGED <<plan, odd, pc, turns, writes, lastTab>>,
         stage' = "sending" => step.op = "turn",
         tab' \in {tab, 0}, session' \in {session, 0},
         armed' \in {armed, 0},
         disposed' # disposed => disposed' \in 1 .. Len(turns) /\ Gone(disposed)'
  PROVE  Proven'
<1>1. OnTheWay'
  BY DEF Proven, OnTheWay, step
<1>2. Tabs'
  <2>1. Tabs /\ Len(turns) \in Nat
    BY OneTurnMore DEF Proven, Tabs
  <2>2. tab' \in 0 .. lastTab
    BY <2>1 DEF Tabs
  <2>3. \A k \in 1 .. Len(turns) : Gone(k) => Gone(k)'
    BY <2>1, GoneStays
  <2>4. disposed' # 0 => Gone(disposed)'
    BY <2>1, <2>3 DEF Tabs, Gone
  <2>5. disposed' \in 0 .. Len(turns) /\ armed' \in {0, Len(turns)}
    BY <2>1 DEF Tabs
  <2> QED  BY <2>1, <2>2, <2>4, <2>5 DEF Tabs
<1>3. Passed' = Passed
  BY DEF Passed, Running
<1>4. \A i \in Passed : Upheld(i)'
  BY UpheldStays
<1>5. Len(writes') <= Total(plan') /\ writes' \in Seq(BOOLEAN)
  BY DEF Proven
<1> QED  BY <1>1, <1>2, <1>3, <1>4, <1>5 DEF Proven, Running

\* A step that was passed leads to the next one, or to the end.
LEMMA ArriveKeeps ==
  ASSUME Setting, OnTheWay, stage = "step" \/ stage = "sending", Advance,
         UNCHANGED <<plan, odd>>, Tabs', \A i \in 1 .. pc : Upheld(i)',
         Len(turns') = Number(plan, pc), Len(writes') = Len(turns'),
         writes' \in Seq(BOOLEAN), odd[1] # pc,
         NEW s, s = step, s.op \in {"look", "await"} /\ s.tab # None => TabIs(s.tab, turns)'
  PROVE  Proven'
<1>1. Sound(plan)
  BY PlanIsSound
<1>2. /\ pc \in 1 .. Len(plan.steps) /\ DOMAIN plan.steps = 1 .. Len(plan.steps)
      /\ Len(plan.steps) \in Nat /\ pc \in Nat
  BY <1>1 DEF OnTheWay, Sound
<1>3. odd = Nothing \/ pc < odd[1]
  BY <1>2 DEF OnTheWay, Setting
<1>4. Len(writes') <= Total(plan')
  <2>1. pc <= Len(plan.steps) /\ pc \in Nat /\ Len(plan.steps) \in Nat
    BY <1>2
  <2>2. Number(plan, pc) <= Total(plan)
    BY <2>1, NumberFacts DEF Total
  <2> QED  BY <2>2
<1>5. CASE pc # Len(plan.steps)
  <2>1. stage' = "step" /\ pc' = pc + 1
    BY <1>5 DEF Advance
  <2>2. OnTheWay'
    <3>1. pc' \in DOMAIN plan'.steps /\ pc' - 1 = pc
      BY <1>2, <1>5, <2>1
    <3>2. odd = Nothing \/ pc' <= odd[1]
      BY <1>2, <1>3, <2>1 DEF Setting
    <3> QED  BY <2>1, <3>1, <3>2 DEF OnTheWay
  <2>3. Passed' = 1 .. pc
    BY <1>2, <2>1 DEF Passed
  <2> QED  BY <1>4, <2>1, <2>2, <2>3 DEF Proven, Running
<1>6. CASE pc = Len(plan.steps)
  <2>1. stage' = "ok" /\ pc' = pc
    BY <1>6 DEF Advance
  <2>2. odd = Nothing
    BY <1>2, <1>3, <1>6 DEF Setting
  <2>3. AtTheEnd'
    <3>1. Len(turns') = Total(plan')
      BY <1>6 DEF Total
    <3> DEFINE last == plan.steps[Len(plan.steps)]
    <3>2. last = s
      BY <1>6 DEF step
    <3> QED  BY <2>2, <3>1, <3>2 DEF AtTheEnd
  <2>4. Passed' = 1 .. pc
    BY <1>2, <1>6, <2>1 DEF Passed
  <2> QED  BY <1>4, <2>1, <2>3, <2>4 DEF Proven, Running
<1> QED  BY <1>5, <1>6

\* The gate passes a step that is not a turn.
LEMMA PassKeeps ==
  ASSUME Setting, Proven, stage = "step", Advance, step.op # "turn",
         UNCHANGED <<plan, odd, turns, writes, lastTab, armed, disposed>>,
         tab' \in {tab, 0}, session' \in {session, 0},
         NEW k, k = pc, Upheld(k)',
         odd[1] # pc, NEW s, s = step,
         s.op \in {"look", "await"} /\ s.tab # None => TabIs(s.tab, turns) /\ tab' = tab
  PROVE  Proven'
<1>1. Sound(plan) /\ Running /\ stage # "ok" /\ stage # "sending"
  BY PlanIsSound DEF Running
<1>2. /\ OnTheWay /\ Tabs /\ Len(turns) \in Nat
      /\ pc \in 1 .. Len(plan.steps) /\ DOMAIN plan.steps = 1 .. Len(plan.steps)
      /\ Len(plan.steps) \in Nat
  BY <1>1, OneTurnMore DEF Proven, OnTheWay, Tabs, Sound
<1>3. Tabs'
  <2>1. tab' \in 0 .. lastTab
    BY <1>2 DEF Tabs
  <2>2. \A j \in 1 .. Len(turns) : Gone(j) => Gone(j)'
    BY <1>2, GoneStays
  <2>3. disposed # 0 => Gone(disposed)'
    BY <1>2, <2>2 DEF Tabs, Gone
  <2> QED  BY <1>2, <2>1, <2>3 DEF Tabs
<1>4. Number(plan, pc) = Number(plan, pc - 1) /\ Len(turns) = Number(plan, pc)
  <2>1. pc \in Nat \ {0} /\ pc - 1 \in Nat
    BY <1>2
  <2>2. Number(plan, pc) = Number(plan, pc - 1) + 0 /\ Number(plan, pc - 1) \in Nat
    BY <2>1, NumberFacts DEF step
  <2> QED  BY <1>2, <2>2 DEF OnTheWay
<1>5. \A i \in 1 .. pc : Upheld(i)'
  <2>1. \A i \in 1 .. pc - 1 : Upheld(i)'
    BY <1>1, UpheldStays DEF Passed
  <2> QED  BY <2>1, <1>2
<1>6. writes' \in Seq(BOOLEAN) /\ Len(writes') = Len(turns') /\ Len(turns') = Number(plan, pc)
  BY <1>2, <1>4 DEF Proven, OnTheWay
<1>7. s.op \in {"look", "await"} /\ s.tab # None => TabIs(s.tab, turns)'
  BY DEF TabIs
<1> QED  BY <1>2, <1>3, <1>5, <1>6, <1>7, ArriveKeeps

-----------------------------------------------------------------------------
(* The steps of a gate keep what it has proven. *)

\* Where a gate that runs is in its plan.
LEMMA Ahead ==
  ASSUME Setting, Proven, Running
  PROVE  /\ Sound(plan) /\ OnTheWay /\ Tabs
         /\ writes \in Seq(BOOLEAN) /\ Len(writes) = Len(turns) /\ Len(turns) \in Nat
         /\ pc \in 1 .. Len(plan.steps) /\ Len(plan.steps) \in Nat
         /\ DOMAIN plan.steps = 1 .. Len(plan.steps)
         /\ Number(plan, pc) = Len(turns) + IF step.op = "turn" THEN 1 ELSE 0
         /\ Number(plan, pc) <= Total(plan) /\ Total(plan) \in Nat
<1>1. /\ Sound(plan) /\ OnTheWay /\ Tabs /\ writes \in Seq(BOOLEAN)
      /\ Len(turns) = Number(plan, pc - 1) /\ Len(writes) = Len(turns)
  BY PlanIsSound DEF Proven, OnTheWay
<1>2. /\ pc \in 1 .. Len(plan.steps) /\ Len(plan.steps) \in Nat
      /\ DOMAIN plan.steps = 1 .. Len(plan.steps) /\ Len(turns) \in Nat
  BY <1>1, OneTurnMore DEF OnTheWay, Tabs, Sound
<1>3. pc \in Nat \ {0} /\ pc - 1 \in Nat /\ pc \in Nat /\ pc <= Len(plan.steps)
  BY <1>2
<1>4. Number(plan, pc) = Number(plan, pc - 1) + IF step.op = "turn" THEN 1 ELSE 0
  BY <1>3, NumberFacts DEF step
<1>5. Number(plan, pc) <= Total(plan) /\ Total(plan) \in Nat
  BY <1>2, <1>3, NumberFacts DEF Total
<1> QED  BY <1>1, <1>2, <1>4, <1>5

\* Steps that ask for nothing get no odd answer.
LEMMA Unodd ==
  ASSUME Setting, Proven, Running, step.op \notin {"schema", "ask", "check", "read"}
  PROVE  odd[1] # pc
<1> SUFFICES ASSUME odd[1] = pc PROVE FALSE
  OBVIOUS
<1>1. pc \in Nat \ {0}
  BY Ahead
<1>2. odd # Nothing
  BY <1>1 DEF Nothing
<1>3. odd[2] \in MayBeOdd(plan, pc)
  BY <1>2 DEF Setting
<1>4. MayBeOdd(plan, pc) = {}
  BY DEF MayBeOdd, Asked, Promised, step
<1> QED  BY <1>3, <1>4

\* A question that is answered got no odd answer.
LEMMA QuestionKeeps == ASSUME Setting, Proven, Question PROVE Proven'
<1>1. stage = "step" /\ Running /\ step.op \in {"ask", "check", "read"}
  BY DEF Question, Running
<1>2. CASE Answered /\ Proceed
  <2>1. odd[1] # pc
    <3> SUFFICES ASSUME odd[1] = pc PROVE FALSE
      OBVIOUS
    <3>1. pc \in Nat \ {0} /\ Sound(plan) /\ pc \in DOMAIN plan.steps
      BY <1>1, Ahead
    <3>2. odd # Nothing
      BY <3>1 DEF Nothing
    <3>3. odd[2] \in MayBeOdd(plan, pc)
      BY <3>2 DEF Setting
    <3>4. MayBeOdd(plan, pc) \subseteq DOMAIN step.needs
      BY <1>1, <3>1 DEF MayBeOdd, Asked, Sound, step
    <3> QED  BY <1>2, <3>3, <3>4 DEF Answered
  <2>2. PICK k : k = pc
    OBVIOUS
  <2>3. PICK s : s = step
    OBVIOUS
  <2>4. Upheld(k)'
    BY <1>1, <1>2, <2>2 DEF Upheld, Absent, Proceed, gateVars, step
  <2> QED  BY <1>1, <1>2, <2>1, <2>2, <2>3, <2>4, PassKeeps DEF Proceed, gateVars, tabVars
<1>3. CASE Quit
  BY <1>1, <1>3, FailKeeps DEF Quit, Fail, Proven, gateVars
<1> QED  BY <1>2, <1>3 DEF Question

\* The extension that is accepted said nothing odd.
LEMMA SupportKeeps == ASSUME Setting, Proven, Support PROVE Proven'
<1>1. stage = "step" /\ Running /\ step.op = "schema"
  BY DEF Support, At, Running
<1>2. CASE Proceed /\ Accepts(step.schema, build, described)
  <2>1. odd[1] # pc
    <3> SUFFICES ASSUME odd[1] = pc PROVE FALSE
      OBVIOUS
    <3> DEFINE n == plan.steps[1].schema
    <3>1. Sound(plan) /\ pc \in DOMAIN plan.steps
      BY <1>1, Ahead
    <3>2. pc = 1 /\ Rich(plan) /\ n \in Schemas /\ step.schema = n
      BY <1>1, <3>1 DEF Sound, step, Rich
    <3>3. odd # Nothing
      BY <3>2 DEF Nothing
    <3>4. odd[2] \in DOMAIN contract[n] /\ build \in Schemas
      BY <1>1, <3>2, <3>3 DEF Setting, MayBeOdd, Rich
    <3>5. odd[2] \in AllClaims /\ contract[n][odd[2]] # "other"
      BY <3>2, <3>4, ContractIs, AskingsIs
    <3>6. described \in Answers /\ described[odd[2]] = "other"
      <4>1. answer[build] \in [AllClaims -> Values] /\ "other" \in Values
        BY <3>4, AnswerIs DEF Answers, Values
      <4>2. described = [answer[build] EXCEPT ![odd[2]] = "other"]
        BY <3>2 DEF described
      <4> QED  BY <3>5, <4>1, <4>2 DEF Answers
    <3>7. described \in accepted[n]
      BY <1>2, <3>2 DEF Accepts
    <3>8. Finds(contract[n], described)
      BY <3>2, <3>6, <3>7, AcceptsWhatMeets
    <3> QED  BY <3>4, <3>5, <3>6, <3>8 DEF Finds
  <2>2. PICK k : k = pc
    OBVIOUS
  <2>3. PICK s : s = step
    OBVIOUS
  <2>4. Upheld(k)'
    BY <1>1, <1>2, <2>2 DEF Upheld, Absent, Proceed, gateVars, step
  <2> QED  BY <1>1, <1>2, <2>1, <2>2, <2>3, <2>4, PassKeeps DEF Proceed, gateVars, tabVars
<1>3. CASE Quit
  BY <1>1, <1>3, FailKeeps DEF Quit, Fail, Proven, gateVars
<1> QED  BY <1>2, <1>3 DEF Support

\* Without a runtime tab the tab of the last turn is gone.
LEMMA NoTab ==
  ASSUME Tabs, tab = 0, Len(turns) \in Nat \ {0}
  PROVE  Gone(Len(turns))
<1>1. turns[Len(turns)].tab # 0
  BY DEF Tabs
<1>2. Len(turns) + 1 .. Len(turns) = {}
  OBVIOUS
<1> QED  BY <1>1, <1>2 DEF Gone

\* The tab is looked at, or waited for.
LEMMA SeenKeeps ==
  ASSUME Setting, Proven, stage = "step", step.op \in {"look", "await"}, Proceed,
         TabIs(step.tab, turns) \/ (step.op = "look" /\ ~step.strict /\ step.tab = None)
  PROVE  Proven'
<1>1. Running
  BY DEF Running
<1>2. odd[1] # pc
  BY <1>1, Unodd
<1>3. PICK k : k = pc
  OBVIOUS
<1>4. PICK s : s = step
  OBVIOUS
<1>5. Absent(s) => tab = 0
  <2>1. s.tab = None /\ TabIs(s.tab, turns) => tab = 0
    BY DEF TabIs, None, Given, Some
  <2> QED  BY <1>4, <2>1 DEF Absent
<1>6. Upheld(k)'
  <2>1. Number(plan, k) = Len(turns) /\ Len(turns) \in Nat /\ Tabs
    BY <1>1, <1>3, Ahead
  <2>2. Len(turns) # 0 /\ Absent(s) => Gone(Len(turns))
    BY <1>5, <2>1, NoTab
  <2>3. plan.steps[k] = s
    BY <1>3, <1>4 DEF step
  <2>4. Upheld(k)
    BY <1>4, <2>1, <2>2, <2>3 DEF Upheld
  <2> QED  BY <2>4 DEF Upheld, Gone, Proceed, gateVars, tabVars, Shows, Conversation
<1>7. s.op \in {"look", "await"} /\ s.tab # None => TabIs(s.tab, turns) /\ tab' = tab
  BY <1>4 DEF Proceed, tabVars
<1> QED  BY <1>1, <1>2, <1>3, <1>4, <1>6, <1>7, PassKeeps DEF Proceed, gateVars, tabVars

\* A look at the tab,
LEMMA LookKeeps == ASSUME Setting, Proven, LookStep PROVE Proven'
<1>1. CASE Quit
  BY <1>1, FailKeeps DEF Quit, Fail, Proven, gateVars, LookStep, At, Running
<1> QED  BY <1>1, SeenKeeps DEF LookStep, At

\* a wait for it,
LEMMA AwaitKeeps == ASSUME Setting, Proven, AwaitEnds PROVE Proven'
BY SeenKeeps DEF AwaitEnds, At

\* a disposal that is on record,
LEMMA DisposalKeeps == ASSUME Setting, Proven, DisposalSeen PROVE Proven'
<1>1. stage = "step" /\ Running /\ step.op = "disposal" /\ disposed = step.turn
  BY DEF DisposalSeen, At, Running
<1>2. CASE Proceed
  <2>1. odd[1] # pc
    BY <1>1, Unodd
  <2>2. PICK k : k = pc
    OBVIOUS
  <2>3. PICK s : s = step
    OBVIOUS
  <2>4. Gone(s.turn)
    <3>1. /\ Sound(plan) /\ Tabs /\ pc \in DOMAIN plan.steps /\ Number(plan, pc) = Len(turns)
          /\ Len(turns) \in Nat
      BY <1>1, Ahead
    <3>2. step.turn \in 1 .. Len(turns)
      BY <1>1, <3>1 DEF Sound, step
    <3> QED  BY <1>1, <2>3, <3>1, <3>2 DEF Tabs
  <2>5. Gone(s.turn)'
    BY <1>2, <2>4 DEF Gone, Proceed, tabVars
  <2>6. plan'.steps[k] = s
    BY <1>2, <2>2, <2>3 DEF step, Proceed, gateVars
  <2>7. Upheld(k)'
    BY <1>1, <2>3, <2>5, <2>6 DEF Upheld, Absent
  <2> QED  BY <1>1, <1>2, <2>1, <2>2, <2>3, <2>7, PassKeeps DEF Proceed, gateVars, tabVars
<1>3. CASE Quit
  BY <1>1, <1>3, FailKeeps DEF Quit, Fail, Proven, gateVars
<1> QED  BY <1>2, <1>3 DEF DisposalSeen

\* a turn that is refused,
LEMMA RefusedKeeps == ASSUME Setting, Proven, RefusedStep PROVE Proven'
<1>1. stage = "step" /\ Running /\ step.op = "refused"
  BY DEF RefusedStep, At, Running
<1>2. CASE Proceed
  <2>1. odd[1] # pc
    BY <1>1, Unodd
  <2>2. PICK k : k = pc
    OBVIOUS
  <2>3. PICK s : s = step
    OBVIOUS
  <2>4. Upheld(k)'
    BY <1>1, <1>2, <2>2 DEF Upheld, Absent, Proceed, gateVars, step
  <2> QED  BY <1>1, <1>2, <2>1, <2>2, <2>3, <2>4, PassKeeps DEF Proceed, gateVars, tabVars
<1>3. CASE Quit
  BY <1>1, <1>3, FailKeeps DEF Quit, Fail, Proven, gateVars
<1> QED  BY <1>2, <1>3 DEF RefusedStep

\* the end of a session,
LEMMA EndKeeps == ASSUME Setting, Proven, EndStep PROVE Proven'
<1>1. stage = "step" /\ Running /\ step.op = "end"
  BY DEF EndStep, At, Running
<1>2. CASE session' = 0 /\ tab' = 0 /\ Advance
           /\ UNCHANGED <<gateVars, report, writes, turns, lastTab, armed, disposed,
                          bridge, faults>>
  <2>1. odd[1] # pc
    BY <1>1, Unodd
  <2>2. PICK k : k = pc
    OBVIOUS
  <2>3. PICK s : s = step
    OBVIOUS
  <2>4. Upheld(k)'
    BY <1>1, <1>2, <2>2 DEF Upheld, Absent, gateVars, step
  <2> QED  BY <1>1, <1>2, <2>1, <2>2, <2>3, <2>4, PassKeeps DEF gateVars
<1>3. CASE Quit
  BY <1>1, <1>3, FailKeeps DEF Quit, Fail, Proven, gateVars
<1> QED  BY <1>2, <1>3 DEF EndStep

\* and the close of the first tab.
LEMMA CloseKeeps == ASSUME Setting, Proven, CloseStep PROVE Proven'
<1>1. stage = "step" /\ Running /\ step.op = "close"
  BY DEF CloseStep, At, Running
<1>2. CASE tab' = 0 /\ Advance
           /\ UNCHANGED <<gateVars, report, writes, turns, lastTab, armed, disposed, bridge,
                          session, faults>>
  <2>1. odd[1] # pc
    BY <1>1, Unodd
  <2>2. PICK k : k = pc
    OBVIOUS
  <2>3. PICK s : s = step
    OBVIOUS
  <2>4. Upheld(k)'
    BY <1>1, <1>2, <2>2 DEF Upheld, Absent, gateVars, step, FirstTab
  <2> QED  BY <1>1, <1>2, <2>1, <2>2, <2>3, <2>4, PassKeeps DEF gateVars
<1>3. CASE Quit
  BY <1>1, <1>3, FailKeeps DEF Quit, Fail, Proven, gateVars
<1> QED  BY <1>2, <1>3 DEF CloseStep

\* The gate gives up: a wait has expired.
LEMMA ExpiresKeeps == ASSUME Proven, WaitExpires PROVE Proven'
BY FailKeeps DEF WaitExpires, Quit, Fail, Proven, gateVars

\* A turn that begins leaves the gate where it is.
LEMMA BeginKeeps == ASSUME Setting, Proven, TurnBegin PROVE Proven'
<1>1. stage = "step" /\ Running /\ stage' = "sending" /\ step.op = "turn"
  BY DEF TurnBegin, At, Running
<1> QED  BY <1>1, StayKeeps DEF TurnBegin, gateVars

\* A turn that failed is one write more at most.
LEMMA RaisesKeeps ==
  ASSUME Setting, Proven, NEW landed \in BOOLEAN, TurnRaises(landed)
  PROVE  Proven'
<1>1. stage = "sending" /\ Running
  BY DEF TurnRaises, Running
<1>2. /\ writes \in Seq(BOOLEAN) /\ Len(writes) = Len(turns) /\ Len(turns) \in Nat
      /\ Len(turns) + 1 <= Total(plan) /\ Total(plan) \in Nat
  <2>1. step.op = "turn"
    BY <1>1, Ahead DEF OnTheWay
  <2> QED  BY <1>1, <2>1, Ahead
<1>3. writes' \in Seq(BOOLEAN) /\ Len(writes') <= Len(turns) + 1
  <2> DEFINE more == Append(writes, FALSE)
  <2>1. more \in Seq(BOOLEAN) /\ Len(more) = Len(writes) + 1
    BY <1>2
  <2>2. writes' = writes \/ writes' = more
    BY DEF TurnRaises
  <2> HIDE DEF more
  <2> QED  BY <1>2, <2>1, <2>2
<1>4. plan' = plan /\ stage' \in {"failed", "raised"}
  BY DEF TurnRaises, gateVars, Fail
<1> QED  BY <1>2, <1>3, <1>4, FailKeeps

\* What happens around the gate closes its tab at most, and a tab that is disposed of
\* is the tab of the last turn.
LEMMA DisposeKeeps == ASSUME Setting, Proven, Dispose PROVE Proven'
<1>1. Running /\ stage' \in {"step", "sending"}
  BY DEF Dispose, Around, Running
<1>2. Tabs /\ Len(turns) \in Nat /\ armed = Len(turns) /\ armed # 0
  BY <1>1, Ahead DEF Dispose, Tabs
<1>3. disposed' \in 1 .. Len(turns) /\ disposed' = Len(turns)
  BY <1>2 DEF Dispose
<1>4. tab' # turns[Len(turns)].tab
  BY <1>2 DEF Dispose, Tabs
<1>5. Len(turns) + 1 .. Len(turns) = {} /\ turns' = turns
  BY <1>2 DEF Dispose, Around
<1>6. Gone(disposed)'
  BY <1>3, <1>4, <1>5 DEF Gone
<1>7. stage' = "sending" => step.op = "turn"
  BY <1>1, Ahead DEF OnTheWay, Dispose, Around
<1> QED  BY <1>1, <1>2, <1>3, <1>6, <1>7, StayKeeps DEF Dispose, Around, gateVars

\* Nothing else around the gate disposes of a tab.
LEMMA AroundKeeps ==
  ASSUME Setting, Proven, DisposeFails \/ UserCloses \/ BridgeDrops \/ BridgeReturns
  PROVE  Proven'
<1>1. Around /\ UNCHANGED disposed /\ armed' \in {armed, 0} /\ tab' \in {tab, 0}
  BY DEF DisposeFails, UserCloses, BridgeDrops, BridgeReturns
<1>2. Running /\ stage' \in {"step", "sending"}
  BY <1>1 DEF Around, Running
<1>3. stage' = "sending" => step.op = "turn"
  BY <1>1, <1>2, Ahead DEF OnTheWay, Around
<1> QED  BY <1>1, <1>2, <1>3, StayKeeps DEF Around, gateVars

-----------------------------------------------------------------------------
(* A turn that returns. *)

\* However a turn deviates, it is in its tab.
LEMMA DeviatingTab ==
  ASSUME NEW now, NEW dev \in Deviations
  PROVE  Deviating(Executed(now), dev).tab = now
<1>1. Executed(now) = [x \in {"tab", "created", "continued", "conv", "policy", "attached",
                             "proven", "recorded"} |-> Executed(now)[x]]
  BY DEF Executed
<1>2. Executed(now).tab = now
  BY DEF Executed
<1>3. dev # "tab"
  BY DEF Deviations, Amiss
<1> QED  BY <1>1, <1>2, <1>3 DEF Deviating

\* A turn that returns is in the runtime tab, or in a new one.
LEMMA ReturnedTurn ==
  ASSUME Setting, Proven, NEW dev \in Deviations, TurnReturns(dev)
  PROVE  \E now, t :
            /\ now \in Nat
            /\ turns' = Append(turns, t) /\ t.tab = now /\ tab' = now
            /\ lastTab' \in Nat /\ lastTab <= lastTab' /\ now \in 1 .. lastTab'
            /\ now = tab \/ (now = lastTab + 1)
            /\ armed' \in {0, Len(turns) + 1} /\ writes' = Append(writes, TRUE)
            /\ UNCHANGED <<plan, odd, disposed>>
            /\ \/ Advance /\ \A c \in step.checks : Shows(turns', Len(turns) + 1, c)
               \/ Fail
<1> DEFINE now == IF tab = 0 THEN lastTab + 1 ELSE tab
           t == Deviating(Executed(now), dev)
<1>1. /\ tab' = now /\ turns' = Append(turns, t)
      /\ lastTab' = IF tab = 0 THEN now ELSE lastTab
      /\ armed' = IF t.policy \in Closing THEN TurnNo ELSE 0
      /\ writes' = Append(writes, TRUE)
      /\ UNCHANGED <<plan, odd, disposed>>
      /\ IF \A c \in step.checks : Shows(Append(turns, t), TurnNo, c) THEN Advance ELSE Fail
  BY DEF TurnReturns, gateVars
<1>2. t.tab = now
  BY DeviatingTab
<1>3. lastTab \in Nat /\ tab \in 0 .. lastTab
  BY Ahead DEF TurnReturns, Running, Tabs
<1>4. now \in Nat /\ lastTab' \in Nat /\ lastTab <= lastTab' /\ now \in 1 .. lastTab'
  BY <1>1, <1>3
<1> HIDE DEF t
<1>5. now = tab \/ now = lastTab + 1
  OBVIOUS
<1> HIDE DEF now
<1> QED  BY <1>1, <1>2, <1>4, <1>5 DEF TurnNo

\* It is one turn more, in a tab that is not one of those that are gone.
LEMMA GoneAppends ==
  ASSUME Tabs, NEW t, NEW now \in Nat, turns' = Append(turns, t), t.tab = now, tab' = now,
         now = tab \/ now = lastTab + 1, NEW k \in 1 .. Len(turns), Gone(k)
  PROVE  Gone(k)'
<1>1. /\ Len(turns) \in Nat /\ Len(turns') = Len(turns) + 1
      /\ \A i \in 1 .. Len(turns) : turns'[i] = turns[i]
      /\ turns'[Len(turns) + 1] = t
  BY OneTurnMore DEF Tabs
<1>2. lastTab \in Nat /\ turns[k].tab \in 1 .. lastTab
  BY DEF Tabs
<1>3. now # turns[k].tab
  BY <1>2 DEF Gone
<1>4. ASSUME NEW i \in k + 1 .. Len(turns')  PROVE turns'[i].tab # turns'[k].tab
  <2>1. CASE i \in 1 .. Len(turns)
    BY <1>1, <2>1 DEF Gone
  <2>2. CASE i = Len(turns) + 1
    BY <1>1, <1>3, <2>2
  <2> QED  BY <1>1, <2>1, <2>2
<1> QED  BY <1>1, <1>3, <1>4 DEF Gone

\* The turn that returns is the one the plan has at this step.
LEMMA ReturnKeeps ==
  ASSUME Setting, Proven, NEW dev \in Deviations, TurnReturns(dev)
  PROVE  Proven'
<1> DEFINE n == Len(turns) + 1
<1>1. PICK now, t :
            /\ now \in Nat
            /\ turns' = Append(turns, t) /\ t.tab = now /\ tab' = now
            /\ lastTab' \in Nat /\ lastTab <= lastTab' /\ now \in 1 .. lastTab'
            /\ now = tab \/ (now = lastTab + 1)
            /\ armed' \in {0, n} /\ writes' = Append(writes, TRUE)
            /\ UNCHANGED <<plan, odd, disposed>>
            /\ \/ Advance /\ \A c \in step.checks : Shows(turns', n, c)
               \/ Fail
  BY ReturnedTurn
<1>2. stage = "sending" /\ Running /\ stage # "ok"
  BY DEF TurnReturns, Running
<1>3. step.op = "turn"
  BY <1>2, Ahead DEF OnTheWay
<1>4. /\ OnTheWay /\ Tabs
      /\ writes \in Seq(BOOLEAN) /\ Len(writes) = Len(turns) /\ Len(turns) \in Nat
      /\ Number(plan, pc) = n /\ n <= Total(plan) /\ Total(plan) \in Nat /\ pc \in Nat \ {0}
  BY <1>2, <1>3, Ahead
<1>5. writes' \in Seq(BOOLEAN) /\ Len(writes') = n
  BY <1>1, <1>4
<1>6. /\ \E S : turns' \in Seq(S)
      /\ Len(turns') = n
      /\ \A i \in 1 .. Len(turns) : turns'[i] = turns[i]
      /\ turns'[n] = t
  <2>1. \E S : turns \in Seq(S)
    BY <1>4 DEF Tabs
  <2>2. /\ \E S : Append(turns, t) \in Seq(S)
        /\ Len(turns) \in Nat /\ Len(Append(turns, t)) = Len(turns) + 1
        /\ \A i \in 1 .. Len(turns) : Append(turns, t)[i] = turns[i]
        /\ Append(turns, t)[Len(turns) + 1] = t
    BY <2>1, OneTurnMore, Zenon
  <2>3. turns' = Append(turns, t)
    BY <1>1
  <2> QED  BY <2>2, <2>3, Zenon
<1>7. CASE Fail
  <2>1. stage' \in {"failed", "raised"}
    BY <1>7 DEF Fail
  <2>2. Len(writes') <= Total(plan')
    BY <1>1, <1>4, <1>5
  <2> QED  BY <1>5, <2>1, <2>2, FailKeeps
<1>8. CASE Advance /\ \A c \in step.checks : Shows(turns', n, c)
  <2>1. Tabs'
    <3>1. FirstTab <= lastTab' /\ tab' \in 0 .. lastTab'
      BY <1>1, <1>4 DEF Tabs, FirstTab
    <3>2. ASSUME NEW i \in 1 .. Len(turns')  PROVE turns'[i].tab \in 1 .. lastTab'
      <4>1. CASE i \in 1 .. Len(turns)
        BY <1>1, <1>4, <1>6, <4>1 DEF Tabs
      <4>2. CASE i = n
        BY <1>1, <1>6, <4>2
      <4> QED  BY <1>4, <1>6, <4>1, <4>2
    <3>3. disposed' \in 0 .. Len(turns')
      BY <1>1, <1>4, <1>6 DEF Tabs
    <3>4. disposed # 0 => Gone(disposed)'
      <4>1. ASSUME NEW k \in 1 .. Len(turns), Gone(k)  PROVE Gone(k)'
        BY <1>1, <1>4, <4>1, GoneAppends
      <4>2. disposed # 0 => disposed \in 1 .. Len(turns) /\ Gone(disposed)
        BY <1>4 DEF Tabs
      <4> QED  BY <1>1, <4>1, <4>2 DEF Gone
    <3> QED  BY <1>1, <1>6, <3>1, <3>2, <3>3, <3>4 DEF Tabs
  <2>2. ASSUME NEW i \in 1 .. pc - 1  PROVE Upheld(i)'
    <3> DEFINE s == plan.steps[i]
               k == Number(plan, i)
    <3>1. i \in Passed
      BY <1>2 DEF Passed
    <3>2. Upheld(i)
      BY <1>2, <3>1 DEF Proven
    <3>3. /\ k \in 0 .. Len(turns)
          /\ s.op = "turn" => k # 0 /\ \A c \in s.checks : InOrder(k, c)
          /\ s.op = "disposal" => s.turn \in 1 .. Len(turns)
      BY <1>2, <3>1, StepsBehind
    <3>4. s.op = "turn" => \A c \in s.checks : Shows(turns', k, c)
      <4> SUFFICES ASSUME s.op = "turn", NEW c \in s.checks PROVE Shows(turns', k, c)
        OBVIOUS
      <4>1. k \in 1 .. Len(turns) /\ InOrder(k, c) /\ Shows(turns, k, c)
        BY <1>4, <3>2, <3>3 DEF Upheld
      <4>2. Shows(Append(turns, t), k, c)
        BY <1>4, <4>1, ShownStays DEF Tabs
      <4> QED  BY <1>1, <4>2
    <3>5. k # 0 /\ Absent(s) => Gone(k)'
      BY <1>1, <1>4, <3>2, <3>3, GoneAppends DEF Upheld
    <3>6. s.op = "disposal" => Gone(s.turn)'
      BY <1>1, <1>4, <3>2, <3>3, GoneAppends DEF Upheld
    <3>7. s.op = "close" => tab' # FirstTab
      BY <1>1, <1>4, <3>2 DEF Upheld, Tabs, FirstTab
    <3>8. k # Len(turns')
      BY <1>4, <1>6, <3>3
    <3>9. plan'.steps[i] = s /\ Number(plan', i) = k
      BY <1>1
    <3> QED  BY <3>4, <3>5, <3>6, <3>7, <3>8, <3>9 DEF Upheld
  <2>3. ASSUME NEW i, i = pc  PROVE Upheld(i)'
    <3>1. plan'.steps[i].op = "turn" /\ Number(plan', i) = n /\ plan'.steps[i] = step
      BY <1>1, <1>3, <1>4, <2>3 DEF step
    <3> QED  BY <1>8, <3>1 DEF Upheld, Absent
  <2>4. \A i \in 1 .. pc : Upheld(i)'
    <3>1. \A i \in 1 .. pc : i \in 1 .. pc - 1 \/ i = pc
      BY <1>4
    <3> QED  BY <2>2, <2>3, <3>1
  <2>5. odd[1] # pc
    BY <1>2, <1>3, Unodd
  <2>6. PICK s : s = step
    OBVIOUS
  <2>7. s.op = "turn"
    BY <1>3, <2>6
  <2> QED  BY <1>1, <1>2, <1>4, <1>5, <1>6, <1>8, <2>1, <2>4, <2>5, <2>6, <2>7, ArriveKeeps
<1> QED  BY <1>1, <1>7, <1>8

\* Every step keeps what the gate has proven.
LEMMA ProvenKept == ASSUME Setting, Proven, GateNext PROVE Proven'
<1>1. CASE GateStep
  BY <1>1, QuestionKeeps, SupportKeeps, LookKeeps, AwaitKeeps, DisposalKeeps, ExpiresKeeps,
     BeginKeeps, RefusedKeeps, EndKeeps, CloseKeeps, ReturnKeeps, RaisesKeeps DEF GateStep
<1>2. CASE Ended
  BY <1>2 DEF Ended, runVars, Proven, OnTheWay, AtTheEnd, Tabs, Upheld, Gone, Passed,
     Running, Shows, Conversation, TabIs, step
<1> QED  BY <1>1, <1>2, DisposeKeeps, AroundKeeps DEF GateNext

-----------------------------------------------------------------------------
(* What a rich-input gate makes of the extension's description. *)

\* What a gate starts from stays as it is.
LEMMA SettingKept ==
  ASSUME GateNext
  PROVE  UNCHANGED <<plan, odd, build>>
BY DEF GateNext, GateStep, Question, Support, LookStep, AwaitEnds, DisposalSeen,
WaitExpires, TurnBegin, RefusedStep, EndStep, CloseStep, TurnReturns, TurnRaises, Proceed,
Quit, Dispose, DisposeFails, UserCloses, BridgeDrops, BridgeReturns, Around, Ended,
gateVars, runVars

\* The gate accepts a description exactly when it meets the contract.
LEMMA Exactly ==
  ASSUME Setting, Rich(plan), NEW n, n = plan.steps[1].schema
  PROVE  Accepts(n, build, described) <=> Meets(n, build, described)
<1>1. n \in Schemas /\ build \in Schemas
  BY PlanIsSound DEF Setting, Sound
<1>2. described \in Answers
  <2>1. answer[build] \in [AllClaims -> Values] /\ "other" \in Values
    BY <1>1, AnswerIs DEF Answers, Values
  <2>2. [answer[build] EXCEPT ![odd[2]] = "other"] \in [AllClaims -> Values]
    BY <2>1
  <2> QED  BY <2>1, <2>2 DEF described, Answers
<1> QED  BY <1>1, <1>2, AcceptsWhatMeets DEF Accepts, Meets

\* At the first step of its plan such a gate does nothing but ask for the description.
LEMMA FirstStep ==
  ASSUME Setting, Described, Rich(plan), pc = 1, GateNext
  PROVE  \/ Support
         \/ UNCHANGED <<pc, stage>> /\ Running
         \/ UNCHANGED <<pc, stage, bridge>>
<1>1. stage # "sending"
  BY DEF Described
<1>2. step.op = "schema"
  BY DEF Rich, step
<1> QED  BY <1>1, <1>2 DEF GateNext, GateStep, Question, LookStep, AwaitEnds,
         DisposalSeen, WaitExpires, TurnBegin, RefusedStep, EndStep, CloseStep,
         TurnReturns, TurnRaises, At, Dispose, DisposeFails, UserCloses, BridgeDrops,
         BridgeReturns, Around, Ended, runVars

\* Past its first step the gate knows that the contract is met.
LEMMA DescribedKept ==
  ASSUME Setting, Proven, Described, GateNext
  PROVE  Described'
<1> SUFFICES ASSUME Rich(plan) PROVE Described'
  BY SettingKept DEF Described, Rich
<1> DEFINE n == plan.steps[1].schema
<1>1. PICK meets \in BOOLEAN : meets = Meets(n, build, described)
  BY DEF Meets
<1>2. (Meets(plan.steps[1].schema, build, described))' = meets
  BY <1>1, SettingKept DEF described
<1>3. SUFFICES /\ pc' = 1 => stage' \in {"step", "failed", "raised"}
               /\ pc' # 1 => meets
               /\ pc' = 1 /\ ~Running' /\ bridge' => ~meets
  BY <1>2 DEF Described
<1>4. /\ pc = 1 => stage \in {"step", "failed", "raised"}
      /\ pc # 1 => meets
      /\ pc = 1 /\ ~Running /\ bridge => ~meets
  BY <1>1 DEF Described
<1>5. CASE pc # 1
  <2>1. meets
    BY <1>4, <1>5
  <2>2. pc' # 1
    <3>1. CASE Running
      <4>1. pc \in Nat \ {0}
        BY <3>1, Ahead
      <4>2. pc' \in {pc, pc + 1}
        BY DEF GateNext, GateStep, Question, Support, LookStep, AwaitEnds, DisposalSeen,
           WaitExpires, TurnBegin, RefusedStep, EndStep, CloseStep, TurnReturns,
           TurnRaises, Proceed, Quit, Advance, Fail, Dispose, DisposeFails, UserCloses,
           BridgeDrops, BridgeReturns, Around, Ended, runVars
      <4> QED  BY <1>5, <4>1, <4>2
    <3>2. CASE ~Running
      BY <1>5, <3>2 DEF GateNext, GateStep, Question, Support, LookStep, AwaitEnds,
         DisposalSeen, WaitExpires, TurnBegin, RefusedStep, EndStep, CloseStep,
         TurnReturns, TurnRaises, At, Running, Dispose, DisposeFails, UserCloses,
         BridgeDrops, BridgeReturns, Around, Ended, runVars
    <3> QED  BY <3>1, <3>2
  <2> QED  BY <2>1, <2>2
<1>6. CASE pc = 1
  <2>1. CASE Support
    <3>1. Accepts(step.schema, build, described) <=> meets
      BY <1>1, <1>6, Exactly DEF step
    <3>2. stage = "step" /\ Running
      BY <2>1 DEF Support, At, Running
    <3>3. CASE Proceed /\ bridge /\ Accepts(step.schema, build, described)
      <4>1. Len(plan.steps) > 1 /\ Len(plan.steps) \in Nat
        BY <3>2, Ahead, PlanIsSound DEF Sound
      <4>2. Advance
        BY <3>3 DEF Proceed
      <4>3. pc # Len(plan.steps)
        <5>1. PICK m : m = Len(plan.steps)
          OBVIOUS
        <5>2. m > 1 /\ m \in Nat
          BY <4>1, <5>1, Zenon
        <5>3. m # 1
          BY ONLY <5>2
        <5> QED  BY <1>6, <5>1, <5>3
      <4>4. pc' = pc + 1
        BY <4>2, <4>3 DEF Advance
      <4>5. pc' = 2
        BY <1>6, <4>4
      <4> QED  BY <3>1, <3>3, <4>5
    <3>4. CASE Quit /\ ~(bridge /\ Accepts(step.schema, build, described))
      BY <1>6, <3>1, <3>4 DEF Quit, Fail
    <3> QED  BY <2>1, <3>3, <3>4 DEF Support
  <2>2. CASE UNCHANGED <<pc, stage>> /\ Running
    BY <1>4, <1>6, <2>2 DEF Running
  <2>3. CASE UNCHANGED <<pc, stage, bridge>>
    BY <1>4, <1>6, <2>3 DEF Running
  <2> QED  BY <1>6, <2>1, <2>2, <2>3, FirstStep
<1> QED  BY <1>5, <1>6

-----------------------------------------------------------------------------
(* The invariant of the live gates. *)

GateInv == Setting /\ Proven /\ Described

\* The invariant holds at the start,
LEMMA GateInvInit == GateInit => GateInv
<1> SUFFICES ASSUME GateInit PROVE GateInv
  OBVIOUS
<1>1. /\ \E g \in DOMAIN Gates : plan = Gates[g]
      /\ odd \in {Nothing}
                \cup UNION {{<<i, c>> : c \in MayBeOdd(plan, i)} : i \in DOMAIN plan.steps}
      /\ build \in IF ~Rich(plan) THEN {0}
                   ELSE IF odd = Nothing THEN Schemas ELSE {plan.steps[1].schema}
  BY DEF GateInit
<1>2. Sound(plan)
  BY <1>1, LiveGateAssumption
<1>3. odd # Nothing => odd[1] \in DOMAIN plan.steps /\ odd[2] \in MayBeOdd(plan, odd[1])
  <2> SUFFICES ASSUME odd # Nothing
               PROVE  odd[1] \in DOMAIN plan.steps /\ odd[2] \in MayBeOdd(plan, odd[1])
    OBVIOUS
  <2>1. PICK i \in DOMAIN plan.steps : \E c \in MayBeOdd(plan, i) : odd = <<i, c>>
    BY <1>1
  <2> QED  BY <2>1
<1>4. Rich(plan) => build \in Schemas /\ (odd # Nothing => build = plan.steps[1].schema)
  BY <1>1, <1>2 DEF Sound
<1>5. Setting
  BY <1>1, <1>3, <1>4 DEF Setting
<1>6. /\ 1 \in DOMAIN plan.steps /\ DOMAIN plan.steps = 1 .. Len(plan.steps)
      /\ Len(plan.steps) \in Nat
  BY <1>2 DEF Sound
<1>7. Number(plan, 0) = 0 /\ Total(plan) \in Nat
  BY <1>6, NumberFacts DEF Total
<1>8. /\ pc = 1 /\ stage = "step" /\ turns = <<>> /\ writes = <<>> /\ lastTab = FirstTab
      /\ tab \in {0, FirstTab} /\ armed = 0 /\ disposed = 0
  BY DEF GateInit
<1>9. OnTheWay
  <2>1. odd = Nothing \/ 1 <= odd[1]
    BY <1>5, <1>6 DEF Setting
  <2> QED  BY <1>6, <1>7, <1>8, <2>1 DEF OnTheWay
<1>10. Tabs
  <2>1. turns \in Seq({})
    BY <1>8
  <2> QED  BY <1>8, <2>1 DEF Tabs, FirstTab
<1>11. Passed = {}
  BY <1>8 DEF Passed
<1>12. Proven
  BY <1>7, <1>8, <1>9, <1>10, <1>11 DEF Proven, Running
<1>13. Described
  BY <1>8 DEF Described, Running
<1> QED  BY <1>5, <1>12, <1>13 DEF GateInv

\* every step keeps it,
LEMMA GateInvKept == GateInv /\ [GateNext]_runVars => GateInv'
<1> SUFFICES ASSUME GateInv, [GateNext]_runVars PROVE GateInv'
  OBVIOUS
<1>1. CASE GateNext
  <2>1. Setting'
    BY <1>1, SettingKept DEF GateInv, Setting
  <2> QED  BY <1>1, <2>1, ProvenKept, DescribedKept DEF GateInv
<1>2. CASE UNCHANGED runVars
  <2>1. Setting'
    BY <1>2 DEF GateInv, Setting, runVars
  <2>2. Proven'
    BY <1>2 DEF GateInv, runVars, Proven, OnTheWay, AtTheEnd, Tabs, Upheld, Gone, Passed,
       Running, Shows, Conversation, TabIs, step
  <2>3. Described'
    BY <1>2 DEF GateInv, runVars, Described, Running, described
  <2> QED  BY <2>1, <2>2, <2>3 DEF GateInv
<1> QED  BY <1>1, <1>2

\* and so it always holds.
LEMMA GateInvHolds == GateSpec => []GateInv
BY GateInvInit, GateInvKept, PTL DEF GateSpec

\* The gate of a rich-input schema passes to its first turn exactly when the extension
\* meets the contract of the schema (the chain of _validate_support).
THEOREM ContractIsExactHolds == GateSpec => []ContractIsExact
<1>1. GateInv => ContractIsExact
  BY DEF GateInv, Described, ContractIsExact
<1> QED  BY <1>1, GateInvHolds, PTL

-----------------------------------------------------------------------------
(* What the summary of a passing gate claims. *)

\* A turn showed what was required of it.
LEMMA RequiredIsShown ==
  ASSUME \A i \in DOMAIN plan.steps : Upheld(i), NEW k, NEW check, Required(plan, k, check)
  PROVE  Shows(turns, k, check)
BY DEF Required, Upheld

\* A claim that is backed by steps that were passed is true at the end.
LEMMA BackedIsClaimed ==
  ASSUME AtTheEnd, \A i \in DOMAIN plan.steps : Upheld(i),
         NEW k, NEW claim, Backed(plan, k, claim)
  PROVE  Claimed(k, claim)
<1> DEFINE last == plan.steps[Len(plan.steps)]
           what == claim[1]
<1>1. CASE what = "gone" /\ k # 0
           /\ \/ \E i \in DOMAIN plan.steps : Absent(plan.steps[i]) /\ Number(plan, i) = k
              \/ \E i \in DOMAIN plan.steps :
                    plan.steps[i].op = "disposal" /\ plan.steps[i].turn = k
  <2>1. Gone(k)
    BY <1>1 DEF Upheld
  <2> QED  BY <1>1, <2>1 DEF Gone, Claimed
<1>2. CASE what = "gone" /\ k = 0 /\ \E i \in DOMAIN plan.steps : plan.steps[i].op = "close"
  BY <1>2 DEF Upheld, Claimed
<1>3. CASE what = "kept" /\ last.op \in {"look", "await"}
           /\ last.tab = IF k = 0 THEN Given ELSE Of(k)
  <2>1. last.tab # None
    BY <1>3 DEF None, Given, Of
  <2>2. TabIs(last.tab, turns)
    BY <1>3, <2>1 DEF AtTheEnd
  <2>3. tab = IF k = 0 THEN FirstTab ELSE turns[k].tab
    BY <1>3, <2>2 DEF TabIs, None, Given, Some, Of
  <2> QED  BY <1>3, <2>3 DEF Claimed
<1>4. CASE what = "ended"
           /\ \E i \in DOMAIN plan.steps : plan.steps[i].op = "end" /\ Number(plan, i) = Total(plan)
  BY <1>4 DEF Upheld, AtTheEnd, Claimed
<1>5. CASE k # 0 /\ Required(plan, k, claim)
  BY <1>5, RequiredIsShown DEF Claimed
<1>6. CASE k # 0 /\ claim = Same(k)
  BY <1>6 DEF Claimed, Shows, Same, Conversation
<1>7. CASE k # 0 /\ what = "reused"
           /\ \E j \in 1 .. k : Required(plan, k, Reused(j)) /\ Required(plan, j, claim)
  <2>1. PICK j \in 1 .. k : Required(plan, k, Reused(j)) /\ Required(plan, j, claim)
    BY <1>7
  <2>2. Shows(turns, k, Reused(j)) /\ Shows(turns, j, claim)
    BY <2>1, RequiredIsShown
  <2>3. ~turns[k].created /\ turns[k].tab = turns[j].tab
    BY <2>2 DEF Shows, Reused
  <2>4. turns[j].tab = turns[claim[2]].tab
    BY <1>7, <2>2 DEF Shows
  <2> QED  BY <1>7, <2>3, <2>4 DEF Shows, Claimed
<1> QED  BY <1>1, <1>2, <1>3, <1>4, <1>5, <1>6, <1>7 DEF Backed

\* A gate that passes got every answer it asked for, and what its summary claims is true
\* of the turns it made and the tabs they used, whatever happened around it on the way
\* (the summaries of scripts/*_live_gate*.py).
THEOREM PassIsProvenHolds == GateSpec => []PassIsProven
<1>1. GateInv => PassIsProven
  <2> SUFFICES ASSUME GateInv PROVE PassIsProven
    OBVIOUS
  <2>1. Sound(plan) /\ Proven
    BY PlanIsSound DEF GateInv
  <2>2. Len(writes) <= plan.budget
    <3>1. Total(plan) \in Nat /\ Total(plan) <= plan.budget /\ plan.budget \in Nat
      BY <2>1, NumberFacts DEF Sound, Total
    <3>2. Len(writes) \in Nat /\ Len(writes) <= Total(plan)
      BY <2>1 DEF Proven
    <3> QED  BY <3>1, <3>2
  <2>3. ASSUME stage = "ok"
        PROVE  odd = Nothing /\ \A c \in plan.claims : Claimed(c[1], c[2])
    <3>1. AtTheEnd /\ \A i \in DOMAIN plan.steps : Upheld(i)
      BY <2>1, <2>3 DEF Proven, Passed
    <3>2. \A c \in plan.claims : Backed(plan, c[1], c[2])
      BY <2>1 DEF Sound
    <3> QED  BY <3>1, <3>2, BackedIsClaimed DEF AtTheEnd
  <2> QED  BY <2>2, <2>3 DEF PassIsProven
<1> QED  BY <1>1, GateInvHolds, PTL

=============================================================================
