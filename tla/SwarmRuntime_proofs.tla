------------------------- MODULE SwarmRuntime_proofs -------------------------
(* Proofs about SwarmRuntime for every number of handlers, agents, certificates *)
(* and generated secrets, whatever fails.                                       *)
EXTENDS SwarmRuntime, FiniteSetTheorems, TLAPS

USE RuntimeAssumption

PC == {"idle", "secret", "create", "config", "create config", "write", "remove", "list",
       "wipe", "clean"}
Result == {"ok", "not_found", "refused", "error"}

\* The local variables of a handler.
Local == [pc : PC, agent : Agents \cup {None}, target : Agents \cup {None},
          config : Configs \cup {None}, scale : {0, 1}, cert : Certs \cup {None},
          n : 1 .. Len(Generated) + 1, refs : SUBSET Secret, old : SUBSET Secret,
          oldConfigs : SUBSET Config, result : Result]

(***************************************************************************)
(* A handler that is busy has an agent; while it works on secrets there is *)
(* one that comes next, and a handler that changes a service has found it. *)
(***************************************************************************)
Working ==
    \A h \in Handlers :
        /\ handler[h].pc # "idle" => handler[h].agent \in Agents /\ handler[h].cert \in Certs \cup {None}
        /\ handler[h].pc \in {"secret", "create"} => handler[h].n <= Len(Generated)
        /\ handler[h].pc \in {"config", "create config"} => handler[h].config \in Configs
        /\ handler[h].pc = "remove" => handler[h].target \in Agents

\* The certificate and key collected so far are those the CA has issued for this call.
OwnCert ==
    \A h \in Handlers : \A s \in handler[h].refs : s.kind \in Peer => s.data = handler[h].cert

Types ==
    /\ service \in [Agents -> Service \cup {None}]
    /\ secrets \subseteq Secret
    /\ configs \subseteq Config
    /\ handler \in [Handlers -> Local]
    /\ view \in [Handlers -> {"current", "changed", "gone"}]
    /\ alone \in [Handlers -> BOOLEAN]

IInv == Types /\ Working /\ OwnCert /\ KeyPair

-----------------------------------------------------------------------------
LEMMA IdleLocal == Idle \in Local
  <1>1. Len(Generated) \in Nat
    OBVIOUS
  <1> QED  BY <1>1 DEF Idle, Local, PC, Result

LEMMA GetServiceType == ASSUME NEW a PROVE GetService(a) \in Agents \cup {None}
<1>1. CASE Cardinality(Listed(a)) = 1
  <2>1. Cardinality({}) = 0
    BY FS_EmptySet, Zenon
  <2>2. ASSUME Listed(a) = {} PROVE FALSE
    <3>1. Cardinality(Listed(a)) = 0
      BY <2>1, <2>2, Zenon
    <3> QED  BY <1>1, <3>1
  <2> QED  BY <2>2 DEF GetService, Listed
<1>2. CASE Cardinality(Listed(a)) # 1
  BY <1>2 DEF GetService
<1> QED  BY <1>1, <1>2

LEMMA InitInv == Init => IInv
<1> SUFFICES ASSUME Init PROVE IInv
  OBVIOUS
<1>1. Types
  BY IdleLocal DEF Init, Types
<1>2. Working /\ OwnCert
  BY DEF Init, Working, OwnCert, Idle
<1>3. KeyPair
  BY DEF Init, KeyPair
<1> QED  BY <1>1, <1>2, <1>3 DEF IInv

-----------------------------------------------------------------------------
(* Steps of a handler that only change its own local variables.            *)

\* The frame of the invariant: a handler takes new local variables, and the service of an
\* agent, if it changes, becomes one with a pair.
LEMMA Frame ==
    ASSUME IInv, NEW h \in Handlers, NEW l \in Local,
           handler' = [handler EXCEPT ![h] = l],
           l.pc # "idle" => l.agent \in Agents,
           l.pc \in {"secret", "create"} => l.n <= Len(Generated),
           l.pc \in {"config", "create config"} => l.config \in Configs,
           l.pc = "remove" => l.target \in Agents,
           \A s \in l.refs : s.kind \in Peer => s.data = l.cert,
           service' \in [Agents -> Service \cup {None}], secrets' \subseteq Secret,
           configs' \subseteq Config,
           view' \in [Handlers -> {"current", "changed", "gone"}],
           alone' \in [Handlers -> BOOLEAN], KeyPair'
    PROVE  IInv'
<1> USE DEF IInv
<1>1. Types'
  BY DEF Types
<1>2. \A g \in Handlers : handler'[g] = IF g = h THEN l ELSE handler[g]
  BY DEF Types
<1>3. l.cert \in Certs \cup {None} /\ \A g \in Handlers : handler[g] \in Local
  BY DEF Types, Local
<1>4. Working'
  BY <1>2, <1>3 DEF Working
<1>5. OwnCert'
  BY <1>2 DEF OwnCert
<1> QED  BY <1>1, <1>4, <1>5

LEMMA SamePairs == ASSUME KeyPair, service' = service PROVE KeyPair'
  BY DEF KeyPair

\* A call ends.
LEMMA EndInv ==
    ASSUME IInv, NEW h \in Handlers, NEW r \in Result, End(h, r),
           service' \in [Agents -> Service \cup {None}], secrets' \subseteq Secret,
           configs' \subseteq Config, KeyPair'
    PROVE  IInv'
<1> DEFINE l == [Idle EXCEPT !.result = r]
<1>1. l \in Local
  BY IdleLocal DEF Local
<1>2. l.pc = "idle" /\ l.refs = {}
  BY DEF Idle
<1>3. /\ handler' = [handler EXCEPT ![h] = l]
      /\ view' \in [Handlers -> {"current", "changed", "gone"}]
      /\ alone' \in [Handlers -> BOOLEAN]
  BY DEF End, IInv, Types
<1> HIDE DEF l
<1> QED  BY <1>1, <1>2, <1>3, Frame

\* A call begins.
LEMMA BeginInv ==
    ASSUME IInv, NEW h \in Handlers, NEW a \in Agents, NEW l \in Local, Begin(h, a, l),
           l.agent = a, l.pc \in {"secret", "create"} => l.n <= Len(Generated),
           l.pc \in {"config", "create config"} => l.config \in Configs,
           l.pc = "remove" => l.target \in Agents, l.refs = {}
    PROVE  IInv'
<1>1. /\ handler' = [handler EXCEPT ![h] = l]
      /\ UNCHANGED <<service, secrets, configs, view>>
      /\ alone' \in [Handlers -> BOOLEAN]
  BY DEF Begin, IInv, Types
<1>2. /\ service' \in [Agents -> Service \cup {None}] /\ secrets' \subseteq Secret
      /\ configs' \subseteq Config /\ view' \in [Handlers -> {"current", "changed", "gone"}]
      /\ KeyPair'
  BY <1>1, SamePairs DEF IInv, Types
<1> QED  BY <1>1, <1>2, Frame

-----------------------------------------------------------------------------
(* Calls.                                                                  *)

LEMMA AfterPC ==
    ASSUME NEW n, NEW config PROVE
    /\ After(n, config) \in PC \ {"idle", "create", "create config", "remove"}
    /\ After(n, config) = "secret" => n < Len(Generated)
    /\ After(n, config) = "config" => config # None
  BY DEF After, PC

LEMMA UpdateInv ==
    ASSUME IInv, NEW h \in Handlers, NEW a \in Agents, NEW config \in Configs \cup {None},
           NEW s \in {0, 1}, Update(h, a, config, s)
    PROVE  IInv'
<1>1. PICK c \in Certs : Begin(h, a, [Idle EXCEPT
                !.pc = After(0, config), !.agent = a, !.target = GetService(a), !.cert = c,
                !.config = config,
                !.scale = IF GetService(a) = None \/ service[GetService(a)].replicas = 0
                          THEN s ELSE 1])
  BY DEF Update
<1> DEFINE scale == IF GetService(a) = None \/ service[GetService(a)].replicas = 0
                    THEN s ELSE 1
           l == [Idle EXCEPT !.pc = After(0, config), !.agent = a, !.target = GetService(a),
                             !.cert = c, !.config = config, !.scale = scale]
<1>2. After(0, config) \in PC /\ GetService(a) \in Agents \cup {None} /\ scale \in {0, 1}
  BY AfterPC, GetServiceType
<1> HIDE DEF scale
<1>3. l \in Local
  BY <1>2, IdleLocal DEF Local
<1>4. /\ l.agent = a /\ l.pc = After(0, config) /\ l.n = 1 /\ l.config = config /\ l.refs = {}
  BY DEF Idle
<1>5. Begin(h, a, l)
  BY <1>1 DEF scale
<1> HIDE DEF l
<1>6. l.pc \in {"secret", "create"} => l.n <= Len(Generated)
  <2>1. Len(Generated) \in Nat
    OBVIOUS
  <2>2. l.pc \in {"secret", "create"} => 0 < Len(Generated)
    BY <1>4, AfterPC
  <2> QED  BY <1>4, <2>1, <2>2
<1>7. l.pc \in {"config", "create config"} => l.config \in Configs
  BY <1>4, AfterPC
<1>8. l.pc # "remove"
  BY <1>4, AfterPC
<1> QED  BY <1>3, <1>4, <1>5, <1>6, <1>7, <1>8, BeginInv

LEMMA DestroyInv ==
    ASSUME IInv, NEW h \in Handlers, NEW a \in Agents, Destroy(h, a) PROVE IInv'
<1>1. CASE GetService(a) = None
  <2>1. End(h, "ok") /\ UNCHANGED <<service, secrets, configs>>
    BY <1>1 DEF Destroy
  <2> QED  BY <2>1, EndInv, SamePairs DEF IInv, Types, Result
<1>2. CASE GetService(a) # None
  <2> DEFINE l == [Idle EXCEPT !.pc = "remove", !.agent = a, !.target = GetService(a)]
  <2>1. Begin(h, a, l)
    BY <1>2 DEF Destroy
  <2>2. GetService(a) \in Agents
    BY <1>2, GetServiceType
  <2>3. l \in Local
    BY <2>2, IdleLocal DEF Local, PC
  <2>4. l.agent = a /\ l.pc = "remove" /\ l.target \in Agents /\ l.refs = {}
    BY <2>2 DEF Idle
  <2> HIDE DEF l
  <2> QED  BY <2>1, <2>3, <2>4, BeginInv
<1> QED  BY <1>1, <1>2

LEMMA CallInv == ASSUME IInv, NEW h \in Handlers, Call(h) PROVE IInv'
<1>1. PICK a \in Agents :
        \/ "update" \in Ops /\ \E c \in Configs \cup {None}, s \in {0, 1} : Update(h, a, c, s)
        \/ "update" \in Ops /\ UpdateInvalid(h)
        \/ "destroy" \in Ops /\ Destroy(h, a)
        \/ Create(h) \/ Sleep(h, a) \/ Wake(h, a) \/ Upgrade(h, a) \/ Renew(h, a)
  BY DEF Call
<1>2. ASSUME End(h, "error"), UNCHANGED <<service, secrets, configs>> PROVE IInv'
  BY <1>2, EndInv, SamePairs DEF IInv, Types, Result
<1>3. CASE UpdateInvalid(h) \/ Raises(h)
  BY <1>2, <1>3 DEF UpdateInvalid, Raises
<1> QED
  BY <1>1, <1>3, UpdateInv, DestroyInv DEF Create, Sleep, Wake, Upgrade, Renew

-----------------------------------------------------------------------------
(* update_agent.                                                           *)

LEMMA MineType ==
    ASSUME IInv, NEW h \in Handlers, handler[h].pc \in {"secret", "create"}
    PROVE  Mine(h) \in Secret /\ (Mine(h).kind \in Peer => Mine(h).data = handler[h].cert)
<1>1. handler[h].agent \in Agents /\ handler[h].n <= Len(Generated) /\ handler[h] \in Local
  BY DEF IInv, Working, Types
<1>2. handler[h].n \in 1 .. Len(Generated) + 1 /\ handler[h].cert \in Certs \cup {None}
  BY <1>1 DEF Local
<1>3. handler[h].n \in DOMAIN Generated
  BY <1>1, <1>2
<1>4. Generated[handler[h].n] \in Kinds
  BY <1>3 DEF Kinds
<1> QED  BY <1>1, <1>2, <1>4 DEF Mine, Secret

\* The secret that is next is used, whether it was there or is new.
LEMMA UseSecretInv ==
    ASSUME IInv, NEW h \in Handlers, handler[h].pc \in {"secret", "create"},
           NEW old \in SUBSET Secret, UseSecret(h, Mine(h), old),
           service' = service, secrets' \subseteq Secret, configs' = configs
    PROVE  IInv'
<1> DEFINE L == handler[h]
           l == [L EXCEPT !.pc = After(L.n, L.config), !.n = @ + 1, !.refs = @ \cup {Mine(h)},
                          !.old = old]
<1>1. L \in Local /\ L.agent \in Agents /\ L.n <= Len(Generated)
  BY DEF IInv, Working, Types
<1>2. After(L.n, L.config) \in PC
  BY AfterPC
<1>3. Mine(h) \in Secret /\ (Mine(h).kind \in Peer => Mine(h).data = L.cert)
  BY MineType
<1>4. L.n + 1 \in 1 .. Len(Generated) + 1
  BY <1>1 DEF Local
<1>5. l \in Local
  BY <1>1, <1>2, <1>3, <1>4 DEF Local
<1>6. /\ l.agent = L.agent /\ l.pc = After(L.n, L.config) /\ l.n = L.n + 1
      /\ l.config = L.config /\ l.cert = L.cert /\ l.refs = L.refs \cup {Mine(h)}
  BY <1>1 DEF Local
<1>7. handler' = [handler EXCEPT ![h] = l]
  BY DEF UseSecret, IInv, Types
<1>8. l.config \in Configs \cup {None}
  BY <1>1, <1>6 DEF Local
<1> HIDE DEF l
<1>9. l.pc \in {"secret", "create"} => l.n <= Len(Generated)
  <2>1. L.n \in Nat /\ Len(Generated) \in Nat
    BY <1>1 DEF Local
  <2>2. l.pc \in {"secret", "create"} => L.n < Len(Generated)
    BY <1>6, AfterPC
  <2> QED  BY <1>6, <2>1, <2>2
<1>10. l.pc \in {"config", "create config"} => l.config \in Configs
  BY <1>6, <1>8, AfterPC
<1>11. l.pc # "remove"
  BY <1>6, AfterPC
<1>12. \A s \in l.refs : s.kind \in Peer => s.data = l.cert
  BY <1>3, <1>6 DEF IInv, OwnCert
<1>13. /\ service' \in [Agents -> Service \cup {None}] /\ configs' \subseteq Config
       /\ view' \in [Handlers -> {"current", "changed", "gone"}]
       /\ alone' \in [Handlers -> BOOLEAN] /\ KeyPair'
  BY SamePairs DEF UseSecret, IInv, Types
<1> QED  BY <1>1, <1>5, <1>6, <1>7, <1>9, <1>10, <1>11, <1>12, <1>13, Frame

\* A handler goes on to its next request and keeps what it has collected.
LEMMA GoOn ==
    ASSUME IInv, NEW h \in Handlers, handler[h].pc # "idle",
           NEW pc \in PC, NEW old \in SUBSET Secret, NEW oldConfigs \in SUBSET Config,
           handler' = [handler EXCEPT ![h] =
                          [handler[h] EXCEPT !.pc = pc, !.old = old, !.oldConfigs = oldConfigs]],
           pc \in {"secret", "create"} => handler[h].pc \in {"secret", "create"},
           pc \in {"config", "create config"} => handler[h].pc \in {"config", "create config"},
           pc # "remove",
           service' \in [Agents -> Service \cup {None}], secrets' \subseteq Secret,
           configs' \subseteq Config,
           view' \in [Handlers -> {"current", "changed", "gone"}], alone' = alone, KeyPair'
    PROVE  IInv'
<1> DEFINE L == handler[h]
           l == [L EXCEPT !.pc = pc, !.old = old, !.oldConfigs = oldConfigs]
<1>1. L \in Local /\ L.agent \in Agents
  BY DEF IInv, Working, Types
<1>2. l \in Local
  BY <1>1 DEF Local
<1>3. /\ l.agent = L.agent /\ l.pc = pc /\ l.n = L.n /\ l.config = L.config
      /\ l.cert = L.cert /\ l.refs = L.refs
  BY <1>1 DEF Local
<1>4. handler' = [handler EXCEPT ![h] = l]
  OBVIOUS
<1> HIDE DEF l
<1>5. /\ l.pc \in {"secret", "create"} => l.n <= Len(Generated)
      /\ l.pc \in {"config", "create config"} => l.config \in Configs
      /\ l.pc # "remove"
      /\ \A s \in l.refs : s.kind \in Peer => s.data = l.cert
  BY <1>3 DEF IInv, Working, OwnCert
<1>6. alone' \in [Handlers -> BOOLEAN]
  BY DEF IInv, Types
<1> QED  BY <1>1, <1>2, <1>3, <1>4, <1>5, <1>6, Frame
\* What a handler knows of its own variables.
LEMMA LocalType ==
    ASSUME IInv, NEW h \in Handlers
    PROVE  /\ handler \in [Handlers -> Local] /\ handler[h] \in Local
           /\ handler[h].old \in SUBSET Secret /\ handler[h].oldConfigs \in SUBSET Config
  BY DEF IInv, Types, Local

LEMMA SetSecretInv == ASSUME IInv, NEW h \in Handlers, SetSecret(h) PROVE IInv'
<1> DEFINE mine == Mine(h)
           listed == {s \in SecretsOf(mine.agent) : s.kind = mine.kind}
           old == handler[h].old \cup (listed \ {mine})
<1>1. old \in SUBSET Secret
  BY LocalType DEF SecretsOf, IInv, Types
<1>2. handler[h].pc = "secret" /\ UNCHANGED <<service, secrets, configs>>
  BY DEF SetSecret
<1>3. CASE mine \in listed
  <2>1. UseSecret(h, Mine(h), old)
    BY <1>3 DEF SetSecret
  <2> HIDE DEF old
  <2> QED  BY <1>1, <1>2, <2>1, UseSecretInv DEF IInv, Types
<1>4. CASE mine \notin listed
  <2>1. /\ handler' = [handler EXCEPT ![h].pc = "create", ![h].old = old]
        /\ UNCHANGED <<view, alone>>
    BY <1>4 DEF SetSecret
  <2> HIDE DEF old
  <2>2. handler' = [handler EXCEPT ![h] = [handler[h] EXCEPT
                       !.pc = "create", !.old = old, !.oldConfigs = handler[h].oldConfigs]]
    BY <2>1, LocalType DEF Local
  <2> QED  BY <1>1, <1>2, <2>1, <2>2, GoOn, LocalType, SamePairs DEF IInv, Types, PC
<1> QED  BY <1>3, <1>4

LEMMA CreateSecretInv == ASSUME IInv, NEW h \in Handlers, CreateSecret(h) PROVE IInv'
<1>1. handler[h].pc = "create" /\ UNCHANGED <<service, configs>>
  BY DEF CreateSecret
<1>2. CASE Mine(h) \in secrets
  <2>1. End(h, "refused") /\ UNCHANGED secrets
    BY <1>2 DEF CreateSecret
  <2> QED  BY <1>1, <2>1, EndInv, SamePairs DEF IInv, Types, Result
<1>3. CASE Mine(h) \notin secrets
  <2>1. UseSecret(h, Mine(h), handler[h].old) /\ secrets' = secrets \cup {Mine(h)}
    BY <1>3 DEF CreateSecret
  <2>2. secrets' \subseteq Secret
    BY <1>1, <2>1, MineType DEF IInv, Types
  <2>3. handler[h].old \in SUBSET Secret
    BY LocalType
  <2>4. handler[h].pc \in {"secret", "create"} /\ service' = service /\ configs' = configs
    BY <1>1
  <2> QED  BY <2>1, <2>2, <2>3, <2>4, UseSecretInv, Zenon
<1> QED  BY <1>2, <1>3

LEMMA SetConfigInv == ASSUME IInv, NEW h \in Handlers, SetConfig(h) PROVE IInv'
<1> DEFINE pc == IF MyConfig(h) \in configs THEN "write" ELSE "create config"
           old == ConfigsOf(handler[h].agent) \ {MyConfig(h)}
<1>1. /\ handler[h].pc = "config"
      /\ handler' = [handler EXCEPT ![h].pc = pc, ![h].oldConfigs = old]
      /\ UNCHANGED <<service, secrets, configs, view, alone>>
  BY DEF SetConfig
<1>2. pc \in {"write", "create config"} /\ old \in SUBSET Config
  BY DEF ConfigsOf, IInv, Types
<1> HIDE DEF pc, old
<1>3. handler' = [handler EXCEPT ![h] = [handler[h] EXCEPT
                     !.pc = pc, !.old = handler[h].old, !.oldConfigs = old]]
  BY <1>1, LocalType DEF Local
<1> QED  BY <1>1, <1>2, <1>3, GoOn, LocalType, SamePairs DEF IInv, Types, PC

LEMMA CreateConfigInv == ASSUME IInv, NEW h \in Handlers, CreateConfig(h) PROVE IInv'
<1>1. handler[h].pc = "create config" /\ UNCHANGED <<service, secrets>>
  BY DEF CreateConfig
<1>2. CASE MyConfig(h) \in configs
  <2>1. End(h, "refused") /\ UNCHANGED configs
    BY <1>2 DEF CreateConfig
  <2> QED  BY <1>1, <2>1, EndInv, SamePairs DEF IInv, Types, Result
<1>3. CASE MyConfig(h) \notin configs
  <2>1. /\ configs' = configs \cup {MyConfig(h)}
        /\ handler' = [handler EXCEPT ![h].pc = "write"]
        /\ UNCHANGED <<view, alone>>
    BY <1>3 DEF CreateConfig
  <2>2. MyConfig(h) \in Config
    BY <1>1 DEF MyConfig, Config, IInv, Working
  <2>3. handler' = [handler EXCEPT ![h] = [handler[h] EXCEPT
                       !.pc = "write", !.old = handler[h].old, !.oldConfigs = handler[h].oldConfigs]]
    BY <2>1, LocalType DEF Local
  <2>4. /\ service' \in [Agents -> Service \cup {None}] /\ KeyPair'
        /\ secrets' \subseteq Secret /\ configs' \subseteq Config
        /\ view' \in [Handlers -> {"current", "changed", "gone"}] /\ alone' = alone
    BY <1>1, <2>1, <2>2, SamePairs DEF IInv, Types
  <2>5. handler[h].old \in SUBSET Secret /\ handler[h].oldConfigs \in SUBSET Config
    BY LocalType
  <2> QED  BY <1>1, <2>3, <2>4, <2>5, GoOn DEF PC
<1> QED  BY <1>2, <1>3

\* The service that is written has the pair of this call.
LEMMA NewPair ==
    ASSUME IInv, NEW h \in Handlers, NEW a, service' = [service EXCEPT ![a] = NewService(h)]
    PROVE  KeyPair' /\ service' \in [Agents -> Service \cup {None}]
<1>1. NewService(h) \in Service
  BY LocalType DEF NewService, Service, Local
<1>2. \A s \in NewService(h).refs : s.kind \in Peer => s.data = handler[h].cert
  BY DEF NewService, IInv, OwnCert
<1>3. \A b \in Agents : service'[b] = IF b = a THEN NewService(h) ELSE service[b]
  BY DEF IInv, Types
<1>4. KeyPair'
  BY <1>2, <1>3 DEF KeyPair, IInv
<1> QED  BY <1>1, <1>4 DEF IInv, Types
LEMMA CreateServiceInv == ASSUME IInv, NEW h \in Handlers, CreateService(h) PROVE IInv'
<1> DEFINE a == handler[h].agent
<1>1. UNCHANGED <<secrets, configs>>
  BY DEF CreateService
<1>2. CASE End(h, "ok") /\ service' = [service EXCEPT ![a] = NewService(h)]
  BY <1>1, <1>2, NewPair, EndInv DEF IInv, Types, Result
<1>3. CASE End(h, "refused") /\ UNCHANGED service
  BY <1>1, <1>3, SamePairs, EndInv DEF IInv, Types, Result
<1> QED  BY <1>2, <1>3 DEF CreateService

LEMMA OutdatesType ==
    ASSUME IInv, NEW h, NEW a, NEW v \in {"changed", "gone"}, Outdates(h, a, v)
    PROVE  view' \in [Handlers -> {"current", "changed", "gone"}]
  BY DEF Outdates, IInv, Types

LEMMA UpdateServiceInv == ASSUME IInv, NEW h \in Handlers, UpdateService(h) PROVE IInv'
<1> DEFINE a == handler[h].target
<1>1. handler[h].pc = "write" /\ UNCHANGED <<secrets, configs>>
  BY DEF UpdateService
<1>2. CASE Written(h, a)
  <2>1. /\ service' = [service EXCEPT ![a] = NewService(h)]
        /\ handler' = [handler EXCEPT ![h].pc = "clean"]
        /\ Outdates(h, a, "changed")
        /\ UNCHANGED alone
    BY <1>2 DEF Written
  <2>2. handler' = [handler EXCEPT ![h] = [handler[h] EXCEPT
                       !.pc = "clean", !.old = handler[h].old, !.oldConfigs = handler[h].oldConfigs]]
    BY <2>1, LocalType DEF Local
  <2>3. KeyPair' /\ service' \in [Agents -> Service \cup {None}]
    BY <2>1, NewPair
  <2>4. view' \in [Handlers -> {"current", "changed", "gone"}]
    BY <2>1, OutdatesType
  <2>5. /\ service' \in [Agents -> Service \cup {None}] /\ KeyPair'
        /\ secrets' \subseteq Secret /\ configs' \subseteq Config
        /\ view' \in [Handlers -> {"current", "changed", "gone"}] /\ alone' = alone
    BY <1>1, <2>1, <2>3, <2>4 DEF IInv, Types
  <2>6. handler[h].old \in SUBSET Secret /\ handler[h].oldConfigs \in SUBSET Config
    BY LocalType
  <2> QED  BY <1>1, <2>2, <2>5, <2>6, GoOn DEF PC
<1>3. CASE End(h, "not_found") /\ UNCHANGED service
  BY <1>1, <1>3, SamePairs, EndInv DEF IInv, Types, Result
<1>4. CASE End(h, "refused") /\ UNCHANGED service
  BY <1>1, <1>4, SamePairs, EndInv DEF IInv, Types, Result
<1> QED  BY <1>2, <1>3, <1>4 DEF UpdateService

-----------------------------------------------------------------------------
(* delete_agent.                                                           *)

LEMMA RemoveServiceInv == ASSUME IInv, NEW h \in Handlers, RemoveService(h) PROVE IInv'
<1> DEFINE a == handler[h].target
<1>1. handler[h].pc = "remove" /\ UNCHANGED <<secrets, configs>>
  BY DEF RemoveService
<1>2. CASE view[h] = "gone"
  <2>1. End(h, "error") /\ UNCHANGED service
    BY <1>2 DEF RemoveService
  <2> QED  BY <1>1, <2>1, SamePairs, EndInv DEF IInv, Types, Result
<1>3. CASE view[h] # "gone"
  <2>1. /\ service' = [service EXCEPT ![a] = None]
        /\ handler' = [handler EXCEPT ![h].pc = "list"]
        /\ Outdates(h, a, "gone")
        /\ UNCHANGED alone
    BY <1>3 DEF RemoveService
  <2>2. handler' = [handler EXCEPT ![h] = [handler[h] EXCEPT
                       !.pc = "list", !.old = handler[h].old, !.oldConfigs = handler[h].oldConfigs]]
    BY <2>1, LocalType DEF Local
  <2>3. KeyPair' /\ service' \in [Agents -> Service \cup {None}]
    BY <2>1 DEF IInv, Types, KeyPair
  <2>4. view' \in [Handlers -> {"current", "changed", "gone"}]
    BY <2>1, OutdatesType
  <2>5. /\ service' \in [Agents -> Service \cup {None}] /\ KeyPair'
        /\ secrets' \subseteq Secret /\ configs' \subseteq Config
        /\ view' \in [Handlers -> {"current", "changed", "gone"}] /\ alone' = alone
    BY <1>1, <2>1, <2>3, <2>4 DEF IInv, Types
  <2>6. handler[h].old \in SUBSET Secret /\ handler[h].oldConfigs \in SUBSET Config
    BY LocalType
  <2> QED  BY <1>1, <2>2, <2>5, <2>6, GoOn DEF PC
<1> QED  BY <1>2, <1>3

LEMMA ListInv == ASSUME IInv, NEW h \in Handlers, ListSecrets(h) \/ ListConfigs(h) PROVE IInv'
<1>1. CASE ListSecrets(h)
  <2> DEFINE old == SecretsOf(handler[h].agent)
  <2>1. /\ handler[h].pc = "list"
        /\ handler' = [handler EXCEPT ![h].pc = "wipe", ![h].old = old]
        /\ UNCHANGED <<service, secrets, configs, view, alone>>
    BY <1>1 DEF ListSecrets
  <2>2. old \in SUBSET Secret
    BY DEF SecretsOf, IInv, Types
  <2> HIDE DEF old
  <2>3. handler' = [handler EXCEPT ![h] = [handler[h] EXCEPT
                       !.pc = "wipe", !.old = old, !.oldConfigs = handler[h].oldConfigs]]
    BY <2>1, LocalType DEF Local
  <2>4. /\ service' \in [Agents -> Service \cup {None}] /\ KeyPair'
        /\ secrets' \subseteq Secret /\ configs' \subseteq Config
        /\ view' \in [Handlers -> {"current", "changed", "gone"}] /\ alone' = alone
    BY <2>1, SamePairs DEF IInv, Types
  <2>5. handler[h].old \in SUBSET Secret /\ handler[h].oldConfigs \in SUBSET Config
    BY LocalType
  <2>6. handler[h].pc \notin {"idle", "secret", "create"}
    BY <2>1
  <2> QED  BY <2>2, <2>3, <2>4, <2>5, <2>6, GoOn DEF PC
<1>2. CASE ListConfigs(h)
  <2> DEFINE old == ConfigsOf(handler[h].agent)
  <2>1. /\ handler[h].pc = "wipe"
        /\ handler' = [handler EXCEPT ![h].pc = "clean", ![h].oldConfigs = old]
        /\ UNCHANGED <<service, secrets, configs, view, alone>>
    BY <1>2 DEF ListConfigs
  <2>2. old \in SUBSET Config
    BY DEF ConfigsOf, IInv, Types
  <2> HIDE DEF old
  <2>3. handler' = [handler EXCEPT ![h] = [handler[h] EXCEPT
                       !.pc = "clean", !.old = handler[h].old, !.oldConfigs = old]]
    BY <2>1, LocalType DEF Local
  <2>4. /\ service' \in [Agents -> Service \cup {None}] /\ KeyPair'
        /\ secrets' \subseteq Secret /\ configs' \subseteq Config
        /\ view' \in [Handlers -> {"current", "changed", "gone"}] /\ alone' = alone
    BY <2>1, SamePairs DEF IInv, Types
  <2>5. handler[h].old \in SUBSET Secret /\ handler[h].oldConfigs \in SUBSET Config
    BY LocalType
  <2>6. handler[h].pc \notin {"idle", "secret", "create"}
    BY <2>1
  <2> QED  BY <2>2, <2>3, <2>4, <2>5, <2>6, GoOn DEF PC
<1> QED  BY <1>1, <1>2
\* One of the old secrets, or configurations, is removed.
LEMMA RemoveInv == ASSUME IInv, NEW h \in Handlers, RemoveSecret(h) \/ RemoveConfig(h) PROVE IInv'
<1>1. handler[h].pc \in {"wipe", "clean"} /\ service' = service
  BY DEF RemoveSecret, RemoveConfig
<1>2. secrets' \subseteq Secret /\ configs' \subseteq Config
  BY DEF RemoveSecret, RemoveConfig, IInv, Types
<1>3. ASSUME NEW r \in Result, End(h, r) PROVE IInv'
  BY <1>1, <1>2, <1>3, SamePairs, EndInv DEF IInv, Types
<1>4. ASSUME NEW old \in SUBSET Secret, NEW oldConfigs \in SUBSET Config,
             handler' = [handler EXCEPT ![h] = [handler[h] EXCEPT
                            !.pc = handler[h].pc, !.old = old, !.oldConfigs = oldConfigs]],
             UNCHANGED <<view, alone>>
      PROVE  IInv'
  <2>1. /\ service' \in [Agents -> Service \cup {None}] /\ KeyPair'
        /\ view' \in [Handlers -> {"current", "changed", "gone"}] /\ alone' = alone
    BY <1>1, <1>4, SamePairs DEF IInv, Types
  <2>2. handler[h].pc \in PC
    BY <1>1 DEF PC
  <2>3. handler[h].pc \notin {"idle", "secret", "create", "config", "create config", "remove"}
    BY <1>1
  <2> QED  BY <1>2, <1>4, <2>1, <2>2, <2>3, GoOn
<1>5. CASE RemoveSecret(h)
  <2>1. PICK s \in handler[h].old :
          \/ s \notin secrets /\ \E r \in {"error", "not_found"} : End(h, r)
          \/ End(h, "refused")
          \/ handler' = [handler EXCEPT ![h].old = @ \ {s}] /\ UNCHANGED <<view, alone>>
    BY <1>5 DEF RemoveSecret, Missing
  <2>2. CASE handler' = [handler EXCEPT ![h].old = @ \ {s}] /\ UNCHANGED <<view, alone>>
    <3> DEFINE old == handler[h].old \ {s}
    <3>1. old \in SUBSET Secret /\ handler[h].oldConfigs \in SUBSET Config
      BY LocalType
    <3>2. handler' = [handler EXCEPT ![h] = [handler[h] EXCEPT !.pc = handler[h].pc,
                         !.old = old, !.oldConfigs = handler[h].oldConfigs]]
      BY <2>2, LocalType DEF Local
    <3> HIDE DEF old
    <3> QED  BY <1>4, <2>2, <3>1, <3>2
  <2> QED  BY <1>3, <2>1, <2>2 DEF Result
<1>6. CASE RemoveConfig(h)
  <2>1. PICK c \in handler[h].oldConfigs :
          \/ \E r \in {"error", "not_found"} : End(h, r)
          \/ End(h, "refused")
          \/ handler' = [handler EXCEPT ![h].oldConfigs = @ \ {c}] /\ UNCHANGED <<view, alone>>
    BY <1>6 DEF RemoveConfig, Missing
  <2>2. CASE handler' = [handler EXCEPT ![h].oldConfigs = @ \ {c}] /\ UNCHANGED <<view, alone>>
    <3> DEFINE old == handler[h].oldConfigs \ {c}
    <3>1. handler[h].old \in SUBSET Secret /\ old \in SUBSET Config
      BY LocalType
    <3>2. handler' = [handler EXCEPT ![h] = [handler[h] EXCEPT !.pc = handler[h].pc,
                         !.old = handler[h].old, !.oldConfigs = old]]
      BY <2>2, LocalType DEF Local
    <3> HIDE DEF old
    <3> QED  BY <1>4, <2>2, <3>1, <3>2
  <2> QED  BY <1>3, <2>1, <2>2 DEF Result
<1> QED  BY <1>5, <1>6

-----------------------------------------------------------------------------
LEMMA StepInv == IInv /\ [Next]_vars => IInv'
<1> SUFFICES ASSUME IInv, [Next]_vars PROVE IInv'
  OBVIOUS
<1>1. CASE UNCHANGED vars
  BY <1>1 DEF vars, IInv, Types, Working, OwnCert, KeyPair
<1>2. ASSUME NEW h \in Handlers, Done(h) \/ Fails(h) PROVE IInv'
  <2>1. (End(h, "ok") \/ End(h, "error")) /\ UNCHANGED <<service, secrets, configs>>
    BY <1>2 DEF Done, Fails
  <2> QED  BY <2>1, SamePairs, EndInv DEF IInv, Types, Result
<1>3. ASSUME NEW h \in Handlers, Step(h) PROVE IInv'
  BY <1>2, <1>3, SetSecretInv, CreateSecretInv, SetConfigInv, CreateConfigInv, CreateServiceInv,
     UpdateServiceInv, RemoveServiceInv, ListInv, RemoveInv DEF Step
<1> QED  BY <1>1, <1>2, <1>3, CallInv DEF Next

\* The inductive invariant: what the swarm holds and what every handler has collected.
THEOREM InductiveInvariant == Spec => []IInv
  BY InitInv, StepInv, PTL DEF Spec

\* The swarm and the handlers hold what their types say, whatever fails.
THEOREM TypeCorrect == Spec => []TypeOK
<1>1. IInv => TypeOK
  <2> SUFFICES ASSUME IInv PROVE TypeOK
    OBVIOUS
  <2>1. \A h \in Handlers : handler[h] \in Local
    BY DEF IInv, Types
  <2> QED  BY <2>1 DEF IInv, Types, Local, PC, Result, TypeOK
<1> QED  BY <1>1, InductiveInvariant, PTL

\* The certificate and the key that a service references are of one pair, however many
\* handlers update and destroy agents at the same time and whatever request fails.
THEOREM KeyPairHolds == Spec => []KeyPair
<1>1. IInv => KeyPair
  BY DEF IInv
<1> QED  BY <1>1, InductiveInvariant, PTL

-----------------------------------------------------------------------------
(***************************************************************************)
(* What a step changes, and what it leaves alone.                          *)
(***************************************************************************)

\* The call of h goes on: what it was asked for and what it has found stay.
GoesOn(h) ==
    LET l == handler[h]
        m == handler'[h]
    IN  /\ m.agent = l.agent /\ m.target = l.target /\ m.config = l.config
        /\ m.scale = l.scale /\ m.cert = l.cert /\ m.result = l.result
        /\ l.pc # "idle" /\ m.pc # "idle"
        /\ alone' = alone

\* The part of a step that other handlers do not see.
Others(h) == \A g \in Handlers \ {h} : handler'[g] = handler[g]

\* The call of h goes on with these local variables.
Moved(h, pc, n, refs, old, oldConfigs) ==
    /\ GoesOn(h) /\ Others(h)
    /\ handler'[h].pc = pc /\ handler'[h].n = n /\ handler'[h].refs = refs
    /\ handler'[h].old = old /\ handler'[h].oldConfigs = oldConfigs

\* It keeps its number and secrets.
On(h, pc, old, oldConfigs) ==
    /\ GoesOn(h) /\ Others(h)
    /\ handler'[h].pc = pc /\ handler'[h].n = handler[h].n /\ handler'[h].refs = handler[h].refs
    /\ handler'[h].old = old /\ handler'[h].oldConfigs = oldConfigs

\* h takes the local variables that go and come back with the request.
LEMMA Moves ==
    ASSUME IInv, NEW h \in Handlers, NEW l,
           handler' = [handler EXCEPT ![h] = l]
    PROVE  handler'[h] = l /\ \A g \in Handlers \ {h} : handler'[g] = handler[g]
  BY DEF IInv, Types

LEMMA EndShape ==
    ASSUME IInv, NEW h \in Handlers, NEW r, End(h, r)
    PROVE  /\ handler'[h] = [Idle EXCEPT !.result = r]
           /\ view'[h] = "current" /\ alone'[h] = TRUE
           /\ \A g \in Handlers \ {h} : /\ handler'[g] = handler[g] /\ view'[g] = view[g]
                                        /\ alone'[g] = alone[g]
  BY DEF End, IInv, Types

LEMMA GoesOnShape ==
    ASSUME IInv, NEW h \in Handlers, handler[h].pc # "idle", alone' = alone,
           NEW pc, pc # "idle", NEW n, NEW refs, NEW old, NEW oldConfigs,
           handler' = [handler EXCEPT ![h] = [handler[h] EXCEPT
                          !.pc = pc, !.n = n, !.refs = refs, !.old = old,
                          !.oldConfigs = oldConfigs]]
    PROVE  Moved(h, pc, n, refs, old, oldConfigs)
<1> DEFINE l == [handler[h] EXCEPT !.pc = pc, !.n = n, !.refs = refs, !.old = old,
                                   !.oldConfigs = oldConfigs]
<1>1. handler[h] \in Local
  BY DEF IInv, Types
<1>2. /\ l.agent = handler[h].agent /\ l.target = handler[h].target
      /\ l.config = handler[h].config /\ l.scale = handler[h].scale
      /\ l.cert = handler[h].cert /\ l.result = handler[h].result
  BY <1>1 DEF Local
<1>3. /\ l.pc = pc /\ l.n = n /\ l.refs = refs /\ l.old = old /\ l.oldConfigs = oldConfigs
  BY <1>1 DEF Local
<1>4. handler' = [handler EXCEPT ![h] = l]
  OBVIOUS
<1> HIDE DEF l
<1>5. handler'[h] = l /\ Others(h)
  BY <1>4, Moves DEF Others
<1>6. GoesOn(h)
  BY <1>2, <1>3, <1>5 DEF GoesOn
<1> QED  BY <1>3, <1>5, <1>6 DEF Moved

LEMMA EndFields ==
    ASSUME IInv, NEW h \in Handlers, NEW r, End(h, r)
    PROVE  /\ handler'[h].pc = "idle" /\ handler'[h].agent = None /\ handler'[h].target = None
           /\ handler'[h].refs = {} /\ handler'[h].old = {} /\ handler'[h].oldConfigs = {}
           /\ handler'[h].result = r /\ handler'[h].config = None
           /\ view'[h] = "current" /\ alone'[h] = TRUE /\ Others(h)
           /\ \A g \in Handlers \ {h} : view'[g] = view[g] /\ alone'[g] = alone[g]
<1> DEFINE l == [Idle EXCEPT !.result = r]
<1>1. /\ l.pc = "idle" /\ l.agent = None /\ l.target = None /\ l.refs = {} /\ l.old = {}
      /\ l.oldConfigs = {} /\ l.result = r /\ l.config = None
  BY DEF Idle
<1>2. /\ handler'[h] = l /\ view'[h] = "current" /\ alone'[h] = TRUE
      /\ \A g \in Handlers \ {h} : /\ handler'[g] = handler[g] /\ view'[g] = view[g]
                                   /\ alone'[g] = alone[g]
  BY EndShape
<1> HIDE DEF l
<1> QED  BY <1>1, <1>2 DEF Others

\* A request that only moves the handler on and may change what it has listed.
LEMMA ListShape ==
    ASSUME IInv, NEW h \in Handlers, handler[h].pc # "idle", alone' = alone,
           NEW pc, pc # "idle", NEW old, NEW oldConfigs,
           handler' = [handler EXCEPT ![h].pc = pc, ![h].old = old, ![h].oldConfigs = oldConfigs]
    PROVE  On(h, pc, old, oldConfigs)
<1> DEFINE n == handler[h].n
           refs == handler[h].refs
<1>1. handler[h] \in Local /\ handler \in [Handlers -> Local]
  BY DEF IInv, Types
<1>2. handler' = [handler EXCEPT ![h] = [handler[h] EXCEPT !.pc = pc, !.n = n,
                     !.refs = refs, !.old = old, !.oldConfigs = oldConfigs]]
  <2> DEFINE l == [handler[h] EXCEPT !.pc = pc, !.old = old, !.oldConfigs = oldConfigs]
             m == [handler[h] EXCEPT !.pc = pc, !.n = n, !.refs = refs, !.old = old,
                                     !.oldConfigs = oldConfigs]
  <2>1. l = m
    BY <1>1 DEF Local
  <2>2. handler' = [handler EXCEPT ![h] = l]
    BY <1>1
  <2> HIDE DEF l, m
  <2>3. handler' = [handler EXCEPT ![h] = m]
    BY <2>1, <2>2
  <2> QED  BY <2>3 DEF m
<1> HIDE DEF n, refs
<1>3. Moved(h, pc, n, refs, old, oldConfigs)
  BY <1>2, GoesOnShape
<1> QED  BY <1>3 DEF Moved, On, n, refs

LEMMA UseSecretShape ==
    ASSUME IInv, NEW h \in Handlers, handler[h].pc # "idle", NEW s, NEW old,
           UseSecret(h, s, old)
    PROVE  /\ Moved(h, After(handler[h].n, handler[h].config), handler[h].n + 1,
                    handler[h].refs \cup {s}, old, handler[h].oldConfigs)
           /\ view' = view
<1> DEFINE pc == After(handler[h].n, handler[h].config)
           n == handler[h].n + 1
           refs == handler[h].refs \cup {s}
           oldConfigs == handler[h].oldConfigs
           l == [handler[h] EXCEPT !.pc = pc, !.n = n, !.refs = refs, !.old = old]
           m == [handler[h] EXCEPT !.pc = pc, !.n = n, !.refs = refs, !.old = old,
                                   !.oldConfigs = oldConfigs]
<1>1. handler[h] \in Local /\ handler \in [Handlers -> Local]
  BY DEF IInv, Types
<1>2. pc # "idle"
  BY AfterPC
<1>3. alone' = alone /\ view' = view
  BY DEF UseSecret
<1>4. handler' = [handler EXCEPT ![h] = l]
  BY <1>1 DEF UseSecret
<1>5. l = m
  BY <1>1 DEF Local
<1> HIDE DEF l, m
<1>6. handler' = [handler EXCEPT ![h] = m]
  BY <1>4, <1>5
<1> HIDE DEF pc, n, refs, oldConfigs
<1>7. Moved(h, pc, n, refs, old, oldConfigs)
  BY <1>2, <1>3, <1>6, GoesOnShape DEF m
<1> QED  BY <1>3, <1>7 DEF pc, n, refs, oldConfigs

\* The secrets of the agent that have the kind which is next.
ListedOf(h) == {s \in SecretsOf(handler[h].agent) : s.kind = Generated[handler[h].n]}

LEMMA SetSecretShape ==
    ASSUME IInv, NEW h \in Handlers, SetSecret(h)
    PROVE  /\ GoesOn(h) /\ Others(h) /\ UNCHANGED <<service, secrets, configs, view>>
           /\ handler[h].pc = "secret"
           /\ handler'[h].old = handler[h].old \cup (ListedOf(h) \ {Mine(h)})
           /\ handler'[h].oldConfigs = handler[h].oldConfigs
           /\ \/ /\ Mine(h) \in ListedOf(h)
                 /\ handler'[h].pc = After(handler[h].n, handler[h].config)
                 /\ handler'[h].n = handler[h].n + 1
                 /\ handler'[h].refs = handler[h].refs \cup {Mine(h)}
              \/ /\ Mine(h) \notin ListedOf(h)
                 /\ handler'[h].pc = "create"
                 /\ handler'[h].n = handler[h].n
                 /\ handler'[h].refs = handler[h].refs
<1> DEFINE L == handler[h]
           old == L.old \cup (ListedOf(h) \ {Mine(h)})
<1>1. L.pc = "secret" /\ UNCHANGED <<service, secrets, configs>> /\ L \in Local
  BY DEF SetSecret, IInv, Types
<1>2. /\ {s \in SecretsOf(Mine(h).agent) : s.kind = Mine(h).kind} = ListedOf(h)
  BY DEF Mine, ListedOf
<1>4. CASE Mine(h) \in ListedOf(h)
  <2>1. UseSecret(h, Mine(h), old)
    BY <1>2, <1>4 DEF SetSecret
  <2> HIDE DEF old
  <2>2. Moved(h, After(L.n, L.config), L.n + 1, L.refs \cup {Mine(h)}, old, L.oldConfigs)
        /\ view' = view
    BY <1>1, <2>1, UseSecretShape
  <2> QED  BY <1>1, <1>4, <2>2 DEF old, Moved
<1>5. CASE Mine(h) \notin ListedOf(h)
  <2>1. handler' = [handler EXCEPT ![h].pc = "create", ![h].old = old] /\ UNCHANGED <<view, alone>>
    BY <1>2, <1>5 DEF SetSecret
  <2> HIDE DEF old
  <2>2. handler' = [handler EXCEPT ![h].pc = "create", ![h].old = old,
                                   ![h].oldConfigs = L.oldConfigs]
    BY <2>1, LocalType DEF Local
  <2>3. On(h, "create", old, L.oldConfigs)
    BY <1>1, <2>1, <2>2, ListShape
  <2> QED  BY <1>1, <1>5, <2>1, <2>3 DEF old, On
<1> QED  BY <1>4, <1>5

LEMMA CreateSecretShape ==
    ASSUME IInv, NEW h \in Handlers, CreateSecret(h)
    PROVE  /\ handler[h].pc = "create" /\ UNCHANGED <<service, configs>>
           /\ \/ Mine(h) \in secrets /\ End(h, "refused") /\ secrets' = secrets
              \/ /\ Mine(h) \notin secrets /\ secrets' = secrets \cup {Mine(h)}
                 /\ GoesOn(h) /\ Others(h) /\ view' = view
                 /\ handler'[h].pc = After(handler[h].n, handler[h].config)
                 /\ handler'[h].n = handler[h].n + 1
                 /\ handler'[h].refs = handler[h].refs \cup {Mine(h)}
                 /\ handler'[h].old = handler[h].old
                 /\ handler'[h].oldConfigs = handler[h].oldConfigs
<1> DEFINE L == handler[h]
<1>1. L.pc = "create" /\ UNCHANGED <<service, configs>> /\ L \in Local
  BY DEF CreateSecret, IInv, Types
<1>2. CASE Mine(h) \in secrets
  BY <1>1, <1>2 DEF CreateSecret
<1>3. CASE Mine(h) \notin secrets
  <2>1. UseSecret(h, Mine(h), L.old) /\ secrets' = secrets \cup {Mine(h)}
    BY <1>3 DEF CreateSecret
  <2>2. /\ Moved(h, After(L.n, L.config), L.n + 1, L.refs \cup {Mine(h)}, L.old, L.oldConfigs)
        /\ view' = view
    BY <1>1, <2>1, UseSecretShape
  <2> QED  BY <1>1, <1>3, <2>1, <2>2 DEF Moved
<1> QED  BY <1>2, <1>3

LEMMA SetConfigShape ==
    ASSUME IInv, NEW h \in Handlers, SetConfig(h)
    PROVE  /\ handler[h].pc = "config" /\ UNCHANGED <<service, secrets, configs, view>>
           /\ On(h, IF MyConfig(h) \in configs THEN "write" ELSE "create config",
                 handler[h].old, ConfigsOf(handler[h].agent) \ {MyConfig(h)})
<1> DEFINE pc == IF MyConfig(h) \in configs THEN "write" ELSE "create config"
           oldConfigs == ConfigsOf(handler[h].agent) \ {MyConfig(h)}
<1>1. /\ handler[h].pc = "config" /\ UNCHANGED <<service, secrets, configs, view, alone>>
      /\ handler' = [handler EXCEPT ![h].pc = pc, ![h].oldConfigs = oldConfigs]
  BY DEF SetConfig
<1>2. pc # "idle"
  OBVIOUS
<1> HIDE DEF pc, oldConfigs
<1>3. handler' = [handler EXCEPT ![h].pc = pc, ![h].old = handler[h].old,
                                 ![h].oldConfigs = oldConfigs]
  BY <1>1, LocalType DEF Local
<1>4. On(h, pc, handler[h].old, oldConfigs)
  BY <1>1, <1>2, <1>3, ListShape
<1> QED  BY <1>1, <1>4 DEF pc, oldConfigs

LEMMA CreateConfigShape ==
    ASSUME IInv, NEW h \in Handlers, CreateConfig(h)
    PROVE  /\ handler[h].pc = "create config" /\ UNCHANGED <<service, secrets>>
           /\ \/ MyConfig(h) \in configs /\ End(h, "refused") /\ configs' = configs
              \/ /\ MyConfig(h) \notin configs /\ configs' = configs \cup {MyConfig(h)}
                 /\ view' = view
                 /\ On(h, "write", handler[h].old, handler[h].oldConfigs)
<1>1. handler[h].pc = "create config" /\ UNCHANGED <<service, secrets>>
  BY DEF CreateConfig
<1>2. CASE MyConfig(h) \in configs
  BY <1>1, <1>2 DEF CreateConfig
<1>3. CASE MyConfig(h) \notin configs
  <2>1. /\ configs' = configs \cup {MyConfig(h)}
        /\ handler' = [handler EXCEPT ![h].pc = "write"]
        /\ view' = view /\ alone' = alone
    BY <1>3 DEF CreateConfig
  <2>2. handler' = [handler EXCEPT ![h].pc = "write", ![h].old = handler[h].old,
                                   ![h].oldConfigs = handler[h].oldConfigs]
    BY <2>1, LocalType DEF Local
  <2>3. "write" # "idle"
    OBVIOUS
  <2>4. On(h, "write", handler[h].old, handler[h].oldConfigs)
    BY <1>1, <2>1, <2>2, <2>3, ListShape
  <2> QED  BY <1>1, <1>3, <2>1, <2>4
<1> QED  BY <1>2, <1>3

LEMMA UpdateServiceShape ==
    ASSUME IInv, NEW h \in Handlers, UpdateService(h)
    PROVE  LET a == handler[h].target
           IN  /\ handler[h].pc = "write" /\ a # None /\ UNCHANGED <<secrets, configs>>
               /\ \/ /\ view[h] = "current" /\ a = handler[h].agent
                     /\ service' = [service EXCEPT ![a] = NewService(h)]
                     /\ Outdates(h, a, "changed")
                     /\ On(h, "clean", handler[h].old, handler[h].oldConfigs)
                  \/ view[h] = "gone" /\ End(h, "not_found") /\ service' = service
                  \/ /\ view[h] = "changed" \/ a # handler[h].agent \/ ~RefsExist(h)
                     /\ End(h, "refused") /\ service' = service
<1> DEFINE a == handler[h].target
<1>1. handler[h].pc = "write" /\ a # None /\ UNCHANGED <<secrets, configs>>
  BY DEF UpdateService
<1>2. CASE view[h] = "current" /\ a = handler[h].agent /\ Written(h, a)
  <2>1. /\ service' = [service EXCEPT ![a] = NewService(h)] /\ Outdates(h, a, "changed")
        /\ handler' = [handler EXCEPT ![h].pc = "clean"] /\ alone' = alone
    BY <1>2 DEF Written
  <2>2. handler' = [handler EXCEPT ![h].pc = "clean", ![h].old = handler[h].old,
                                   ![h].oldConfigs = handler[h].oldConfigs]
    BY <2>1, LocalType DEF Local
  <2>3. "clean" # "idle"
    OBVIOUS
  <2>4. On(h, "clean", handler[h].old, handler[h].oldConfigs)
    BY <1>1, <2>1, <2>2, <2>3, ListShape
  <2> QED  BY <1>1, <1>2, <2>1, <2>4
<1>3. CASE view[h] = "gone" /\ End(h, "not_found") /\ UNCHANGED service
  BY <1>1, <1>3
<1>4. CASE /\ view[h] = "changed" \/ a # handler[h].agent \/ ~RefsExist(h)
           /\ End(h, "refused") /\ UNCHANGED service
  BY <1>1, <1>4
<1> QED  BY <1>2, <1>3, <1>4 DEF UpdateService

LEMMA RemoveServiceShape ==
    ASSUME IInv, NEW h \in Handlers, RemoveService(h)
    PROVE  LET a == handler[h].target
           IN  /\ handler[h].pc = "remove" /\ UNCHANGED <<secrets, configs>>
               /\ \/ End(h, "error") /\ service' = service
                  \/ /\ service' = [service EXCEPT ![a] = None]
                     /\ Outdates(h, a, "gone")
                     /\ On(h, "list", handler[h].old, handler[h].oldConfigs)
<1> DEFINE a == handler[h].target
<1>1. handler[h].pc = "remove" /\ UNCHANGED <<secrets, configs>>
  BY DEF RemoveService
<1>2. CASE view[h] = "gone"
  BY <1>1, <1>2 DEF RemoveService
<1>3. CASE view[h] # "gone"
  <2>1. /\ service' = [service EXCEPT ![a] = None] /\ Outdates(h, a, "gone")
        /\ handler' = [handler EXCEPT ![h].pc = "list"] /\ alone' = alone
    BY <1>3 DEF RemoveService
  <2>2. handler' = [handler EXCEPT ![h].pc = "list", ![h].old = handler[h].old,
                                   ![h].oldConfigs = handler[h].oldConfigs]
    BY <2>1, LocalType DEF Local
  <2>3. "list" # "idle"
    OBVIOUS
  <2>4. On(h, "list", handler[h].old, handler[h].oldConfigs)
    BY <1>1, <2>1, <2>2, <2>3, ListShape
  <2> QED  BY <1>1, <2>1, <2>4
<1> QED  BY <1>2, <1>3

LEMMA ListSecretsShape ==
    ASSUME IInv, NEW h \in Handlers, ListSecrets(h)
    PROVE  /\ handler[h].pc = "list" /\ UNCHANGED <<service, secrets, configs, view>>
           /\ On(h, "wipe", SecretsOf(handler[h].agent), handler[h].oldConfigs)
<1> DEFINE old == SecretsOf(handler[h].agent)
<1>1. /\ handler[h].pc = "list" /\ UNCHANGED <<service, secrets, configs, view, alone>>
      /\ handler' = [handler EXCEPT ![h].pc = "wipe", ![h].old = old]
  BY DEF ListSecrets
<1>2. "wipe" # "idle"
  OBVIOUS
<1> HIDE DEF old
<1>3. handler' = [handler EXCEPT ![h].pc = "wipe", ![h].old = old,
                                 ![h].oldConfigs = handler[h].oldConfigs]
  BY <1>1, LocalType DEF Local
<1>4. On(h, "wipe", old, handler[h].oldConfigs)
  BY <1>1, <1>2, <1>3, ListShape
<1> QED  BY <1>1, <1>4 DEF old

LEMMA ListConfigsShape ==
    ASSUME IInv, NEW h \in Handlers, ListConfigs(h)
    PROVE  /\ handler[h].pc = "wipe" /\ handler[h].old = {}
           /\ UNCHANGED <<service, secrets, configs, view>>
           /\ On(h, "clean", handler[h].old, ConfigsOf(handler[h].agent))
<1> DEFINE old == ConfigsOf(handler[h].agent)
<1>1. /\ handler[h].pc = "wipe" /\ handler[h].old = {}
      /\ UNCHANGED <<service, secrets, configs, view, alone>>
      /\ handler' = [handler EXCEPT ![h].pc = "clean", ![h].oldConfigs = old]
  BY DEF ListConfigs
<1>2. "clean" # "idle"
  OBVIOUS
<1> HIDE DEF old
<1>3. handler' = [handler EXCEPT ![h].pc = "clean", ![h].old = handler[h].old,
                                 ![h].oldConfigs = old]
  BY <1>1, LocalType DEF Local
<1>4. On(h, "clean", handler[h].old, old)
  BY <1>1, <1>2, <1>3, ListShape
<1> QED  BY <1>1, <1>4 DEF old

\* Whether a service references a secret.
Referenced(s) == \E a \in Agents : service[a] # None /\ s \in service[a].refs

LEMMA RemoveSecretShape ==
    ASSUME IInv, NEW h \in Handlers, RemoveSecret(h)
    PROVE  /\ handler[h].pc \in {"wipe", "clean"} /\ UNCHANGED <<service, configs>>
           /\ \E s \in handler[h].old :
                 \/ s \notin secrets /\ secrets' = secrets /\ \E r \in {"error", "not_found"} : End(h, r)
                 \/ Referenced(s) /\ secrets' = secrets /\ End(h, "refused")
                 \/ /\ s \in secrets /\ secrets' = secrets \ {s} /\ view' = view
                    /\ On(h, handler[h].pc, handler[h].old \ {s}, handler[h].oldConfigs)
<1>1. handler[h].pc \in {"wipe", "clean"} /\ UNCHANGED <<service, configs>>
  BY DEF RemoveSecret
<1>2. PICK s \in handler[h].old :
          \/ /\ s \notin secrets
             /\ \E r \in {"error", "not_found"} : End(h, r)
             /\ UNCHANGED secrets
          \/ /\ s \in secrets
             /\ IF Referenced(s)
                THEN End(h, "refused") /\ UNCHANGED secrets
                ELSE /\ secrets' = secrets \ {s}
                     /\ handler' = [handler EXCEPT ![h].old = @ \ {s}]
                     /\ UNCHANGED <<view, alone>>
  BY DEF RemoveSecret, Missing, Referenced
<1>3. CASE /\ s \in secrets /\ secrets' = secrets \ {s} /\ UNCHANGED <<view, alone>>
           /\ handler' = [handler EXCEPT ![h].old = @ \ {s}]
  <2> DEFINE pc == handler[h].pc
             old == handler[h].old \ {s}
  <2>1. handler' = [handler EXCEPT ![h].pc = pc, ![h].old = old,
                                   ![h].oldConfigs = handler[h].oldConfigs]
    BY <1>3, LocalType DEF Local
  <2>2. pc # "idle" /\ handler[h].pc # "idle"
    BY <1>1
  <2> HIDE DEF pc, old
  <2>3. On(h, pc, old, handler[h].oldConfigs)
    BY <1>3, <2>1, <2>2, ListShape
  <2> QED  BY <1>1, <1>3, <2>3 DEF pc, old
<1> QED  BY <1>1, <1>2, <1>3

LEMMA RemoveConfigShape ==
    ASSUME IInv, NEW h \in Handlers, RemoveConfig(h)
    PROVE  /\ handler[h].pc = "clean" /\ UNCHANGED <<service, secrets>>
           /\ \E c \in handler[h].oldConfigs :
                 \/ c \notin configs /\ configs' = configs /\ \E r \in {"error", "not_found"} : End(h, r)
                 \/ /\ service[c.agent] # None /\ service[c.agent].config = c.config
                    /\ configs' = configs /\ End(h, "refused")
                 \/ /\ c \in configs /\ configs' = configs \ {c} /\ view' = view
                    /\ On(h, "clean", handler[h].old, handler[h].oldConfigs \ {c})
<1>1. handler[h].pc = "clean" /\ UNCHANGED <<service, secrets>>
  BY DEF RemoveConfig
<1>2. PICK c \in handler[h].oldConfigs :
          \/ /\ c \notin configs /\ UNCHANGED configs
             /\ \E r \in {"error", "not_found"} : End(h, r)
          \/ /\ c \in configs
             /\ IF service[c.agent] # None /\ service[c.agent].config = c.config
                THEN End(h, "refused") /\ UNCHANGED configs
                ELSE /\ configs' = configs \ {c}
                     /\ handler' = [handler EXCEPT ![h].oldConfigs = @ \ {c}]
                     /\ UNCHANGED <<view, alone>>
  BY DEF RemoveConfig, Missing
<1>3. CASE /\ c \in configs /\ configs' = configs \ {c} /\ UNCHANGED <<view, alone>>
           /\ handler' = [handler EXCEPT ![h].oldConfigs = @ \ {c}]
  <2> DEFINE old == handler[h].oldConfigs \ {c}
  <2>1. handler' = [handler EXCEPT ![h].pc = "clean", ![h].old = handler[h].old,
                                   ![h].oldConfigs = old]
    BY <1>1, <1>3, LocalType DEF Local
  <2>2. "clean" # "idle" /\ handler[h].pc # "idle"
    BY <1>1
  <2> HIDE DEF old
  <2>3. On(h, "clean", handler[h].old, old)
    BY <1>3, <2>1, <2>2, ListShape
  <2> QED  BY <1>1, <1>3, <2>3 DEF old
<1> QED  BY <1>1, <1>2, <1>3

-----------------------------------------------------------------------------
(***************************************************************************)
(* Names.  When no name of an agent begins with that of another, a call    *)
(* only finds and lists what belongs to its own agent.                     *)
(***************************************************************************)
OwnLocal(l, v) ==
    /\ l.target \in {l.agent, None}
    /\ \A s \in l.refs \cup l.old : s.agent = l.agent
    /\ \A c \in l.oldConfigs : c.agent = l.agent
    /\ IF l.pc = "idle" THEN v = "current" /\ l.agent = None ELSE l.result = "ok"

OwnRefs == \A a \in Agents : service[a] # None => \A s \in service[a].refs : s.agent = a

OwnThings == OwnRefs /\ \A h \in Handlers : OwnLocal(handler[h], view[h])

LEMMA OwnService == ASSUME NEW a \in Agents, Longer = {}
                    PROVE  GetService(a) = IF service[a] = None THEN None ELSE a
<1>1. CASE service[a] = None
  <2>1. Listed(a) = {}
    BY <1>1 DEF Listed
  <2>2. Cardinality(Listed(a)) = 0
    BY <2>1, FS_EmptySet
  <2> QED  BY <1>1, <2>2 DEF GetService
<1>2. CASE service[a] # None
  <2>1. Listed(a) = {a}
    BY <1>2 DEF Listed
  <2>2. Cardinality(Listed(a)) = 1
    BY <2>1, FS_Singleton
  <2> QED  BY <1>2, <2>1, <2>2 DEF GetService
<1> QED  BY <1>1, <1>2

LEMMA InitOwn == Init => OwnThings
<1> SUFFICES ASSUME Init PROVE OwnThings
  OBVIOUS
<1> QED  BY DEF Init, OwnThings, OwnRefs, OwnLocal, Idle

\* What the step of h has to leave alone of the others.
LEMMA OwnFrame ==
    ASSUME IInv, OwnThings, NEW h \in Handlers, Others(h),
           OwnLocal(handler'[h], view'[h]), OwnRefs',
           \A g \in Handlers \ {h} : view'[g] = view[g] \/ handler[g].target \in Agents
    PROVE  OwnThings'
<1>1. ASSUME NEW g \in Handlers \ {h} PROVE OwnLocal(handler'[g], view'[g])
  <2>1. OwnLocal(handler[g], view[g]) /\ handler'[g] = handler[g]
    BY DEF OwnThings, Others
  <2>2. CASE view'[g] = view[g]
    BY <2>1, <2>2
  <2>3. CASE handler[g].target \in Agents
    <3>1. handler[g].pc # "idle"
      BY <2>1, <2>3 DEF OwnLocal
    <3> QED  BY <2>1, <3>1 DEF OwnLocal
  <2> QED  BY <2>2, <2>3
<1> QED  BY <1>1 DEF OwnThings

LEMMA OwnEnd ==
    ASSUME IInv, OwnThings, NEW h \in Handlers, NEW r, End(h, r), OwnRefs'
    PROVE  OwnThings'
<1>1. OwnLocal(handler'[h], view'[h])
  BY EndFields DEF OwnLocal
<1>2. Others(h) /\ \A g \in Handlers \ {h} : view'[g] = view[g] \/ handler[g].target \in Agents
  BY EndFields
<1> QED  BY <1>1, <1>2, OwnFrame

LEMMA OwnGoesOn ==
    ASSUME IInv, OwnThings, NEW h \in Handlers, GoesOn(h), Others(h), OwnRefs',
           \A s \in handler'[h].refs \cup handler'[h].old : s.agent = handler[h].agent,
           \A c \in handler'[h].oldConfigs : c.agent = handler[h].agent,
           \A g \in Handlers \ {h} : view'[g] = view[g] \/ handler[g].target \in Agents
    PROVE  OwnThings'
<1>1. OwnLocal(handler[h], view[h])
  BY DEF OwnThings
<1>2. OwnLocal(handler'[h], view'[h])
  BY <1>1 DEF OwnLocal, GoesOn
<1> QED  BY <1>2, OwnFrame

LEMMA OnOwn ==
    ASSUME IInv, OwnThings, NEW h \in Handlers, NEW pc, NEW old, NEW oldConfigs,
           On(h, pc, old, oldConfigs), OwnRefs',
           \A s \in old : s.agent = handler[h].agent,
           \A c \in oldConfigs : c.agent = handler[h].agent,
           \A g \in Handlers \ {h} : view'[g] = view[g] \/ handler[g].target \in Agents
    PROVE  OwnThings'
<1>1. \A s \in handler[h].refs : s.agent = handler[h].agent
  BY DEF OwnThings, OwnLocal
<1> QED  BY <1>1, OwnGoesOn DEF On

LEMMA SameRefs == ASSUME OwnRefs, service' = service PROVE OwnRefs'
  BY DEF OwnRefs

LEMMA NewRefs ==
    ASSUME IInv, OwnThings, NEW h \in Handlers,
           service' = [service EXCEPT ![handler[h].agent] = NewService(h)]
    PROVE  OwnRefs'
<1>1. \A s \in NewService(h).refs : s.agent = handler[h].agent
  BY DEF NewService, OwnThings, OwnLocal
<1> QED  BY <1>1 DEF OwnThings, OwnRefs, IInv, Types

LEMMA NoRefs ==
    ASSUME IInv, OwnRefs, NEW a, service' = [service EXCEPT ![a] = None]
    PROVE  OwnRefs'
  BY DEF OwnRefs, IInv, Types

\* The views of the others, when a service changes.
LEMMA OutdatesOthers ==
    ASSUME IInv, NEW h \in Handlers, NEW a \in Agents, NEW v, Outdates(h, a, v)
    PROVE  \A g \in Handlers \ {h} : view'[g] = view[g] \/ handler[g].target = a
  BY DEF Outdates, IInv, Types

LEMMA StepOwn ==
    ASSUME IInv, OwnThings, NEW h \in Handlers, Step(h) \/ Fails(h)
    PROVE  OwnThings'
<1> DEFINE L == handler[h]
<1>1. /\ \A s \in L.refs \cup L.old : s.agent = L.agent
      /\ \A c \in L.oldConfigs : c.agent = L.agent
      /\ OwnRefs
  BY DEF OwnThings, OwnLocal
<1>2. CASE SetSecret(h) \/ CreateSecret(h)
  <2>1. \A s \in ListedOf(h) \cup {Mine(h)} : s.agent = L.agent
    BY DEF ListedOf, SecretsOf, Mine
  <2>2. service' = service
    BY <1>2, SetSecretShape, CreateSecretShape
  <2>3. CASE GoesOn(h) /\ Others(h) /\ view' = view /\ handler'[h].oldConfigs = L.oldConfigs
             /\ \A s \in handler'[h].refs \cup handler'[h].old :
                    s \in L.refs \cup L.old \cup ListedOf(h) \cup {Mine(h)}
    <3>1. \A s \in handler'[h].refs \cup handler'[h].old : s.agent = L.agent
      BY <1>1, <2>1, <2>3
    <3> QED  BY <1>1, <2>2, <2>3, <3>1, SameRefs, OwnGoesOn
  <2>4. CASE End(h, "refused")
    BY <1>1, <2>2, <2>4, SameRefs, OwnEnd
  <2>5. CASE SetSecret(h)
    BY <2>3, <2>5, SetSecretShape
  <2>6. CASE CreateSecret(h)
    BY <2>3, <2>4, <2>6, CreateSecretShape
  <2> QED  BY <1>2, <2>5, <2>6
<1>3. CASE SetConfig(h) \/ CreateConfig(h) \/ ListSecrets(h) \/ ListConfigs(h)
           \/ RemoveSecret(h) \/ RemoveConfig(h)
  <2>1. service' = service
    BY <1>3, SetConfigShape, CreateConfigShape, ListSecretsShape, ListConfigsShape,
       RemoveSecretShape, RemoveConfigShape
  <2>2. OwnRefs'
    BY <1>1, <2>1, SameRefs
  <2>3. ASSUME NEW r, End(h, r) PROVE OwnThings'
    BY <2>2, <2>3, OwnEnd
  <2>4. ASSUME NEW pc, NEW old, NEW oldConfigs, On(h, pc, old, oldConfigs), view' = view,
               \A s \in old : s \in L.old \/ s \in SecretsOf(L.agent),
               \A c \in oldConfigs : c \in L.oldConfigs \/ c \in ConfigsOf(L.agent)
        PROVE  OwnThings'
    <3>1. (\A s \in old : s.agent = L.agent) /\ \A c \in oldConfigs : c.agent = L.agent
      BY <1>1, <2>4 DEF SecretsOf, ConfigsOf
    <3> QED  BY <2>2, <2>4, <3>1, OnOwn
  <2>5. CASE SetConfig(h)
    <3> DEFINE pc == IF MyConfig(h) \in configs THEN "write" ELSE "create config"
               oldConfigs == ConfigsOf(L.agent) \ {MyConfig(h)}
    <3>1. On(h, pc, L.old, oldConfigs) /\ view' = view
      BY <2>5, SetConfigShape
    <3>2. \A c \in oldConfigs : c \in ConfigsOf(L.agent)
      OBVIOUS
    <3> HIDE DEF pc, oldConfigs
    <3> QED  BY <2>4, <3>1, <3>2
  <2>6. CASE CreateConfig(h)
    BY <2>3, <2>4, <2>6, CreateConfigShape
  <2>7. CASE ListSecrets(h)
    BY <2>4, <2>7, ListSecretsShape
  <2>8. CASE ListConfigs(h)
    BY <2>4, <2>8, ListConfigsShape
  <2>9. CASE RemoveSecret(h)
    <3>1. CASE \E r : End(h, r)
      BY <2>3, <3>1
    <3>2. ASSUME NEW s, On(h, L.pc, L.old \ {s}, L.oldConfigs), view' = view PROVE OwnThings'
      BY <2>4, <3>2
    <3> QED  BY <2>9, <3>1, <3>2, RemoveSecretShape
  <2>10. CASE RemoveConfig(h)
    <3>1. CASE \E r : End(h, r)
      BY <2>3, <3>1
    <3>2. ASSUME NEW c, On(h, "clean", L.old, L.oldConfigs \ {c}), view' = view PROVE OwnThings'
      BY <2>4, <3>2
    <3> QED  BY <2>10, <3>1, <3>2, RemoveConfigShape
  <2> QED  BY <1>3, <2>5, <2>6, <2>7, <2>8, <2>9, <2>10
<1>4. CASE CreateService(h)
  <2>1. PICK r : End(h, r)
    BY <1>4 DEF CreateService
  <2>2. service' = service \/ service' = [service EXCEPT ![L.agent] = NewService(h)]
    BY <1>4 DEF CreateService
  <2>3. OwnRefs'
    BY <1>1, <2>2, SameRefs, NewRefs
  <2> QED  BY <2>1, <2>3, OwnEnd
<1>5. CASE UpdateService(h)
  <2>1. CASE service' = service /\ \E r : End(h, r)
    BY <1>1, <2>1, SameRefs, OwnEnd
  <2>2. CASE /\ L.target = L.agent /\ L.target # None
             /\ service' = [service EXCEPT ![L.target] = NewService(h)]
             /\ Outdates(h, L.target, "changed")
             /\ On(h, "clean", L.old, L.oldConfigs)
    <3>1. L.target \in Agents
      BY <2>2 DEF IInv, Types, Local
    <3>2. OwnRefs'
      BY <2>2, NewRefs
    <3>3. \A g \in Handlers \ {h} : view'[g] = view[g] \/ handler[g].target \in Agents
      BY <2>2, <3>1, OutdatesOthers
    <3> QED  BY <1>1, <2>2, <3>2, <3>3, OnOwn
  <2> QED  BY <1>5, <2>1, <2>2, UpdateServiceShape
<1>6. CASE RemoveService(h)
  <2>1. CASE service' = service /\ End(h, "error")
    BY <1>1, <2>1, SameRefs, OwnEnd
  <2>2. CASE /\ service' = [service EXCEPT ![L.target] = None]
             /\ Outdates(h, L.target, "gone")
             /\ On(h, "list", L.old, L.oldConfigs)
    <3>1. L.target \in Agents
      BY <1>6 DEF RemoveService, IInv, Working
    <3>2. OwnRefs'
      BY <1>1, <2>2, NoRefs
    <3>3. \A g \in Handlers \ {h} : view'[g] = view[g] \/ handler[g].target \in Agents
      BY <2>2, <3>1, OutdatesOthers
    <3> QED  BY <1>1, <2>2, <3>2, <3>3, OnOwn
  <2> QED  BY <1>6, <2>1, <2>2, RemoveServiceShape
<1>7. CASE Done(h) \/ Fails(h)
  <2>1. service' = service /\ \E r : End(h, r)
    BY <1>7 DEF Done, Fails
  <2> QED  BY <1>1, <2>1, SameRefs, OwnEnd
<1> QED  BY <1>2, <1>3, <1>4, <1>5, <1>6, <1>7 DEF Step

\* The local variables of a call that begins.
Beginning(a, l) ==
    /\ l.agent = a /\ l.target = GetService(a) /\ l.n = 1 /\ l.result = "ok"
    /\ l.refs = {} /\ l.old = {} /\ l.oldConfigs = {}
    /\ \/ /\ l.pc = After(0, l.config)
          /\ GetService(a) # None /\ service[GetService(a)].replicas # 0 => l.scale = 1
       \/ l.pc = "remove" /\ l.target # None /\ l.config = None

LEMMA CallShape ==
    ASSUME IInv, NEW h \in Handlers, Call(h)
    PROVE  /\ handler[h].pc = "idle" /\ UNCHANGED <<service, secrets, configs>>
           /\ \/ \E r : End(h, r)
              \/ \E a \in Agents, l \in Local : Begin(h, a, l) /\ Beginning(a, l)
<1> DEFINE Goal == /\ handler[h].pc = "idle" /\ UNCHANGED <<service, secrets, configs>>
                   /\ \/ \E r : End(h, r)
                      \/ \E a \in Agents, l \in Local : Begin(h, a, l) /\ Beginning(a, l)
<1>1. PICK a \in Agents :
        \/ \E c \in Configs \cup {None}, s \in {0, 1} : Update(h, a, c, s)
        \/ UpdateInvalid(h)
        \/ Destroy(h, a)
        \/ Create(h) \/ Sleep(h, a) \/ Wake(h, a) \/ Upgrade(h, a) \/ Renew(h, a)
  BY DEF Call
<1>2. ASSUME NEW config \in Configs \cup {None}, NEW s \in {0, 1}, Update(h, a, config, s)
      PROVE  Goal
  <2> DEFINE scale == IF GetService(a) = None \/ service[GetService(a)].replicas = 0
                      THEN s ELSE 1
  <2>1. PICK c \in Certs : Begin(h, a, [Idle EXCEPT
                  !.pc = After(0, config), !.agent = a, !.target = GetService(a), !.cert = c,
                  !.config = config, !.scale = scale])
    BY <1>2 DEF Update
  <2> DEFINE l == [Idle EXCEPT !.pc = After(0, config), !.agent = a, !.target = GetService(a),
                               !.cert = c, !.config = config, !.scale = scale]
  <2>2. After(0, config) \in PC /\ GetService(a) \in Agents \cup {None} /\ scale \in {0, 1}
    BY AfterPC, GetServiceType
  <2>3. GetService(a) # None /\ service[GetService(a)].replicas # 0 => scale = 1
    OBVIOUS
  <2> HIDE DEF scale
  <2>4. l \in Local
    BY <2>2, IdleLocal DEF Local
  <2>5. /\ l.agent = a /\ l.target = GetService(a) /\ l.n = 1 /\ l.result = "ok"
        /\ l.refs = {} /\ l.old = {} /\ l.oldConfigs = {} /\ l.config = config
        /\ l.pc = After(0, config) /\ l.scale = scale
    BY DEF Idle
  <2>6. Begin(h, a, l)
    BY <2>1
  <2> HIDE DEF l
  <2>7. Beginning(a, l)
    BY <2>3, <2>5 DEF Beginning
  <2>8. handler[h].pc = "idle" /\ UNCHANGED <<service, secrets, configs>>
    BY <1>2, <2>6 DEF Update, Begin, Busy
  <2> QED  BY <2>4, <2>6, <2>7, <2>8
<1>3. CASE Destroy(h, a)
  <2>1. CASE GetService(a) = None
    <3>1. End(h, "ok") /\ UNCHANGED <<service, secrets, configs>> /\ handler[h].pc = "idle"
      BY <1>3, <2>1 DEF Destroy, Busy
    <3> QED  BY <3>1
  <2>2. CASE GetService(a) # None
    <3> DEFINE l == [Idle EXCEPT !.pc = "remove", !.agent = a, !.target = GetService(a)]
    <3>1. Begin(h, a, l)
      BY <1>3, <2>2 DEF Destroy
    <3>2. l \in Local
      BY GetServiceType, IdleLocal DEF Local, PC
    <3>3. Beginning(a, l)
      BY <2>2 DEF Idle, Beginning
    <3> HIDE DEF l
    <3>4. handler[h].pc = "idle" /\ UNCHANGED <<service, secrets, configs>>
      BY <1>3, <3>1 DEF Destroy, Begin, Busy
    <3> QED  BY <3>1, <3>2, <3>3, <3>4
  <2> QED  BY <2>1, <2>2
<1>4. CASE UpdateInvalid(h) \/ Raises(h)
  BY <1>4 DEF UpdateInvalid, Raises, Busy
<1> QED
  BY <1>1, <1>2, <1>3, <1>4 DEF Create, Sleep, Wake, Upgrade, Renew

LEMMA BeginShape ==
    ASSUME IInv, NEW h \in Handlers, NEW a, NEW l, Begin(h, a, l)
    PROVE  /\ handler'[h] = l /\ Others(h)
           /\ service' = service /\ secrets' = secrets /\ configs' = configs /\ view' = view
<1>1. /\ handler' = [handler EXCEPT ![h] = l]
      /\ UNCHANGED <<service, secrets, configs, view>>
  BY DEF Begin
<1>2. handler'[h] = l /\ Others(h)
  BY <1>1, Moves DEF Others
<1> QED  BY <1>1, <1>2

\* Who else works on the agent, when a call begins.
LEMMA BeginAlone ==
    ASSUME IInv, NEW h \in Handlers, NEW a, NEW l, Begin(h, a, l)
    PROVE  /\ alone'[h] => \A g \in Handlers \ {h} : Busy(g) => handler[g].agent # a
           /\ \A g \in Handlers \ {h} :
                 /\ alone'[g] => alone[g]
                 /\ alone'[g] => ~(Busy(g) /\ handler[g].agent = a)
<1> DEFINE others == {g \in Handlers \ {h} : Busy(g) /\ handler[g].agent = a}
<1>1. alone' = [g \in Handlers |-> IF g = h THEN others = {} ELSE alone[g] /\ g \notin others]
  BY DEF Begin
<1>2. alone'[h] => others = {}
  BY <1>1, Zenon
<1>3. ASSUME NEW g \in Handlers \ {h}, alone'[g] PROVE alone[g] /\ g \notin others
  BY <1>1, <1>3, Zenon
<1> QED  BY <1>2, <1>3

LEMMA CallOwn ==
    ASSUME IInv, OwnThings, Longer = {}, NEW h \in Handlers, Call(h) PROVE OwnThings'
<1>1. service' = service /\ OwnRefs' /\ handler[h].pc = "idle"
  BY CallShape, SameRefs DEF OwnThings
<1>2. ASSUME NEW r, End(h, r) PROVE OwnThings'
  BY <1>1, <1>2, OwnEnd
<1>3. ASSUME NEW a \in Agents, NEW l \in Local, Begin(h, a, l), Beginning(a, l) PROVE OwnThings'
  <2>1. handler'[h] = l /\ Others(h) /\ view' = view
    BY <1>3, BeginShape
  <2>2. l.pc # "idle"
    BY <1>3, AfterPC DEF Beginning
  <2>3. OwnLocal(l, view'[h])
    BY <1>3, <2>2, OwnService DEF Beginning, OwnLocal
  <2> QED  BY <1>1, <2>1, <2>3, OwnFrame
<1> QED  BY <1>2, <1>3, CallShape

-----------------------------------------------------------------------------
(***************************************************************************)
(* Scale.  While what a handler has read of a service is current, it will  *)
(* not write that the service, which runs, shall not run.                  *)
(***************************************************************************)
Writing == {"secret", "create", "config", "create config", "write"}

CurrentLocal(l, v, services) ==
    l.pc \in Writing /\ l.target # None /\ v = "current" =>
        /\ services[l.target] # None
        /\ services[l.target].replicas # 0 => l.scale = 1

Current == \A h \in Handlers : CurrentLocal(handler[h], view[h], service)

LEMMA CurrentFrame ==
    ASSUME Current, NEW h \in Handlers, Others(h), service' = service,
           CurrentLocal(handler'[h], view'[h], service'), \A g \in Handlers \ {h} : view'[g] = view[g]
    PROVE  Current'
  BY DEF Current, CurrentLocal, Others

LEMMA CurrentEnd ==
    ASSUME IInv, Current, NEW h \in Handlers, NEW r, End(h, r), service' = service
    PROVE  Current'
<1>1. CurrentLocal(handler'[h], view'[h], service')
  BY EndFields DEF Writing, CurrentLocal
<1>2. Others(h) /\ \A g \in Handlers \ {h} : view'[g] = view[g]
  BY EndFields
<1> QED  BY <1>1, <1>2, CurrentFrame

LEMMA CurrentGoesOn ==
    ASSUME IInv, Current, NEW h \in Handlers, GoesOn(h), Others(h), service' = service,
           view' = view, handler'[h].pc \in Writing => handler[h].pc \in Writing
    PROVE  Current'
<1>1. CurrentLocal(handler[h], view[h], service)
  BY DEF Current
<1>2. CurrentLocal(handler'[h], view'[h], service')
  BY <1>1 DEF CurrentLocal, GoesOn
<1> QED  BY <1>2, CurrentFrame

\* Who has read the service that changes is told so.
LEMMA CurrentOutdates ==
    ASSUME IInv, Current, NEW h \in Handlers, NEW a \in Agents, NEW v \in {"changed", "gone"},
           NEW s, service' = [service EXCEPT ![a] = s], Outdates(h, a, v), Others(h),
           handler'[h].pc \notin Writing
    PROVE  Current'
<1>1. \A b \in Agents : b # a => service'[b] = service[b]
  BY DEF IInv, Types
<1>2. ASSUME NEW g \in Handlers PROVE CurrentLocal(handler'[g], view'[g], service')
  <2>1. CASE g = h
    BY <2>1 DEF CurrentLocal
  <2>2. CASE g # h /\ handler[g].target = a
    <3>1. view'[g] # "current"
      BY <2>2 DEF Outdates
    <3> QED  BY <3>1 DEF CurrentLocal
  <2>3. CASE g # h /\ handler[g].target # a
    <3>1. handler'[g] = handler[g] /\ view'[g] = view[g] /\ CurrentLocal(handler[g], view[g], service)
      BY <2>3 DEF Outdates, Others, Current
    <3>2. handler[g].target # None => handler[g].target \in Agents
      BY DEF IInv, Types, Local
    <3> QED  BY <1>1, <2>3, <3>1, <3>2 DEF CurrentLocal
  <2> QED  BY <2>1, <2>2, <2>3
<1> QED  BY <1>2 DEF Current

LEMMA CurrentCall == ASSUME IInv, Current, NEW h \in Handlers, Call(h) PROVE Current'
<1>1. service' = service
  BY CallShape
<1>2. ASSUME NEW r, End(h, r) PROVE Current'
  BY <1>1, <1>2, CurrentEnd
<1>3. ASSUME NEW a \in Agents, NEW l \in Local, Begin(h, a, l), Beginning(a, l) PROVE Current'
  <2>1. handler'[h] = l /\ Others(h) /\ view' = view
    BY <1>3, BeginShape
  <2>2. GetService(a) # None => GetService(a) \in Listed(a)
    <3>1. CASE Listed(a) = {}
      <4>1. Cardinality(Listed(a)) = 0
        BY <3>1, FS_EmptySet
      <4> QED  BY <4>1 DEF GetService
    <3>2. CASE Listed(a) # {}
      BY <3>2 DEF GetService
    <3> QED  BY <3>1, <3>2
  <2>3. l.target # None => service[l.target] # None
    BY <1>3, <2>2 DEF Beginning, Listed
  <2>4. l.pc \in Writing /\ l.target # None /\ service[l.target].replicas # 0 => l.scale = 1
    BY <1>3 DEF Beginning, Writing
  <2>5. CurrentLocal(l, view'[h], service')
    BY <1>1, <2>3, <2>4 DEF CurrentLocal
  <2> QED  BY <1>1, <2>1, <2>5, CurrentFrame
<1> QED  BY <1>2, <1>3, CallShape

LEMMA CurrentStep ==
    ASSUME IInv, Current, NEW h \in Handlers, Step(h) \/ Fails(h)
    PROVE  Current'
<1> DEFINE L == handler[h]
<1>1. ASSUME NEW r, End(h, r), service' = service PROVE Current'
  BY <1>1, CurrentEnd
<1>2. CASE SetSecret(h) \/ CreateSecret(h)
  BY <1>1, <1>2, SetSecretShape, CreateSecretShape, CurrentGoesOn DEF Writing
<1>3. CASE SetConfig(h) \/ CreateConfig(h)
  <2>1. ASSUME NEW pc, NEW old, NEW oldConfigs, On(h, pc, old, oldConfigs), view' = view
        PROVE  Current'
    <3>1. service' = service /\ L.pc \in Writing
      BY <1>3 DEF SetConfig, CreateConfig, Writing
    <3> QED  BY <2>1, <3>1, CurrentGoesOn DEF On
  <2> QED  BY <1>1, <1>3, <2>1, SetConfigShape, CreateConfigShape
<1>4. CASE ListSecrets(h) \/ ListConfigs(h) \/ RemoveSecret(h) \/ RemoveConfig(h)
  <2>1. service' = service
    BY <1>4 DEF ListSecrets, ListConfigs, RemoveSecret, RemoveConfig
  <2>2. ASSUME NEW pc \in {"wipe", "clean"}, NEW old, NEW oldConfigs,
               On(h, pc, old, oldConfigs), view' = view
        PROVE  Current'
    BY <2>1, <2>2, CurrentGoesOn DEF On, Writing
  <2>3. CASE ListSecrets(h) \/ ListConfigs(h)
    BY <2>2, <2>3, ListSecretsShape, ListConfigsShape
  <2>4. CASE RemoveSecret(h)
    BY <1>1, <2>1, <2>2, <2>4, RemoveSecretShape
  <2>5. CASE RemoveConfig(h)
    BY <1>1, <2>1, <2>2, <2>5, RemoveConfigShape
  <2> QED  BY <1>4, <2>3, <2>4, <2>5
<1>5. CASE CreateService(h)
  <2> DEFINE a == L.agent
  <2>1. CASE End(h, "refused") /\ service' = service
    BY <1>1, <2>1
  <2>2. CASE /\ service[a] = None /\ End(h, "ok")
             /\ service' = [service EXCEPT ![a] = NewService(h)]
    <3>1. \A b \in Agents : b # a => service'[b] = service[b]
      BY <2>2 DEF IInv, Types
    <3>2. handler'[h].pc \notin Writing
      BY <2>2, EndFields DEF Writing
    <3>3. ASSUME NEW g \in Handlers \ {h}
          PROVE  CurrentLocal(handler'[g], view'[g], service')
      <4>1. /\ handler'[g] = handler[g] /\ view'[g] = view[g]
            /\ CurrentLocal(handler[g], view[g], service)
        BY <2>2, EndShape DEF Current
      <4>2. handler[g].target # None => handler[g].target \in Agents
        BY DEF IInv, Types, Local
      <4> QED  BY <2>2, <3>1, <4>1, <4>2 DEF CurrentLocal
    <3> QED  BY <3>2, <3>3 DEF Current, CurrentLocal
  <2> QED  BY <1>5, <2>1, <2>2 DEF CreateService
<1>6. CASE UpdateService(h) \/ RemoveService(h)
  <2>1. L.target # None => L.target \in Agents
    BY DEF IInv, Types, Local
  <2>2. ASSUME L.target # None, NEW v \in {"changed", "gone"}, NEW s,
               NEW pc \in {"clean", "list"}, NEW old, NEW oldConfigs,
               service' = [service EXCEPT ![L.target] = s], Outdates(h, L.target, v),
               On(h, pc, old, oldConfigs)
        PROVE  Current'
    <3>1. handler'[h].pc \notin Writing /\ Others(h)
      BY <2>2 DEF On, Writing
    <3> QED  BY <2>1, <2>2, <3>1, CurrentOutdates
  <2>3. CASE UpdateService(h)
    BY <1>1, <2>2, <2>3, UpdateServiceShape
  <2>4. CASE RemoveService(h)
    <3>1. L.target # None
      BY <2>4 DEF RemoveService, IInv, Working
    <3> QED  BY <1>1, <2>2, <2>4, <3>1, RemoveServiceShape
  <2> QED  BY <1>6, <2>3, <2>4
<1>7. CASE Done(h) \/ Fails(h)
  BY <1>1, <1>7 DEF Done, Fails
<1> QED  BY <1>2, <1>3, <1>4, <1>5, <1>6, <1>7 DEF Step

CurrentInv == IInv /\ Current

LEMMA InitCurrent == Init => CurrentInv
<1>1. ASSUME Init PROVE Current
  <2>1. \A h \in Handlers : handler[h].pc = "idle"
    BY <1>1 DEF Init, Idle
  <2> QED  BY <2>1 DEF Current, CurrentLocal, Writing
<1> QED  BY <1>1, InitInv DEF CurrentInv

LEMMA StepCurrent == CurrentInv /\ [Next]_vars => CurrentInv'
<1> SUFFICES ASSUME CurrentInv, [Next]_vars PROVE Current'
  BY StepInv DEF CurrentInv
<1>1. CASE UNCHANGED vars
  BY <1>1 DEF vars, CurrentInv, Current, CurrentLocal
<1> QED  BY <1>1, CurrentCall, CurrentStep DEF Next, CurrentInv

\* Only a handler that writes changes a service, and the scale it writes is no smaller.
LEMMA ScaleStep ==
    ASSUME CurrentInv, Next, NEW a \in Agents, service[a] # None, service'[a] # None
    PROVE  service'[a].replicas >= service[a].replicas
<1>1. service[a].replicas \in {0, 1}
  BY DEF CurrentInv, IInv, Types, Service
<1>2. CASE service'[a] = service[a]
  BY <1>1, <1>2
<1>3. ASSUME NEW h \in Handlers, Call(h) PROVE service'[a] = service[a]
  BY <1>3, CallShape DEF CurrentInv
<1>4. ASSUME NEW h \in Handlers, CreateService(h) PROVE service'[a] = service[a]
  BY <1>4 DEF CreateService, CurrentInv, IInv, Types
<1>5. ASSUME NEW h \in Handlers, UpdateService(h)
      PROVE  service'[a].replicas >= service[a].replicas
  <2> DEFINE b == handler[h].target
  <2>1. CASE service' = service
    BY <1>1, <2>1
  <2>2. CASE /\ view[h] = "current" /\ handler[h].pc = "write" /\ b # None
             /\ service' = [service EXCEPT ![b] = NewService(h)]
    <3>1. CASE a # b
      BY <1>1, <2>2, <3>1 DEF CurrentInv, IInv, Types
    <3>2. CASE a = b
      <4>1. CurrentLocal(handler[h], view[h], service)
        BY DEF CurrentInv, Current
      <4>2. service[a].replicas # 0 => handler[h].scale = 1
        BY <2>2, <3>2, <4>1 DEF CurrentLocal, Writing
      <4>3. service'[a].replicas = handler[h].scale
        BY <2>2, <3>2 DEF NewService, CurrentInv, IInv, Types
      <4>4. handler[h].scale \in {0, 1}
        BY DEF CurrentInv, IInv, Types, Local
      <4> QED  BY <1>1, <4>2, <4>3, <4>4
    <3> QED  BY <3>1, <3>2
  <2> QED  BY <1>5, <2>1, <2>2, UpdateServiceShape DEF CurrentInv
<1>6. ASSUME NEW h \in Handlers, RemoveService(h) PROVE service'[a] = service[a]
  BY <1>6 DEF RemoveService, CurrentInv, IInv, Types
<1>7. ASSUME NEW h \in Handlers,
             \/ SetSecret(h) \/ CreateSecret(h) \/ SetConfig(h) \/ CreateConfig(h)
             \/ ListSecrets(h) \/ ListConfigs(h)
             \/ RemoveSecret(h) \/ RemoveConfig(h) \/ Done(h) \/ Fails(h)
      PROVE  service'[a] = service[a]
  BY <1>7 DEF SetSecret, CreateSecret, SetConfig, CreateConfig, ListSecrets, ListConfigs,
              RemoveSecret, RemoveConfig, Done, Fails
<1> QED  BY <1>2, <1>3, <1>4, <1>5, <1>6, <1>7 DEF Next, Step

\* An agent that runs is not put to sleep, however many updates of it overlap: what an
\* update has read of the scale is current whenever its write is accepted.
THEOREM NeverPutToSleepHolds == Spec => NeverPutToSleep
<1>1. CurrentInv /\ [Next]_vars =>
        [\A a \in Agents : service[a] # None /\ service'[a] # None
            => service'[a].replicas >= service[a].replicas]_vars
  BY ScaleStep
<1> QED  BY <1>1, InitCurrent, StepCurrent, PTL DEF Spec, NeverPutToSleep

-----------------------------------------------------------------------------
(* Calls for different agents do not meet.                                 *)

\* What belongs to agent a, and what the handlers that work on it have read.
SameAgent(a) ==
    /\ service'[a] = service[a]
    /\ SecretsOf(a)' = SecretsOf(a)
    /\ ConfigsOf(a)' = ConfigsOf(a)

LEMMA SecretsApart ==
    ASSUME NEW a, NEW s, s.agent # a,
           secrets' = secrets \cup {s} \/ secrets' = secrets \ {s}
    PROVE  SecretsOf(a)' = SecretsOf(a)
  BY DEF SecretsOf

LEMMA ConfigsApart ==
    ASSUME NEW a, NEW c, c.agent # a,
           configs' = configs \cup {c} \/ configs' = configs \ {c}
    PROVE  ConfigsOf(a)' = ConfigsOf(a)
  BY DEF ConfigsOf

LEMMA SameOf ==
    ASSUME NEW a
    PROVE  /\ secrets' = secrets => SecretsOf(a)' = SecretsOf(a)
           /\ configs' = configs => ConfigsOf(a)' = ConfigsOf(a)
  BY DEF SecretsOf, ConfigsOf

LEMMA StepApart ==
    ASSUME IInv, OwnThings, NEW h \in Handlers, Call(h) \/ Step(h) \/ Fails(h),
           NEW a \in Agents, handler[h].agent # a
    PROVE  SameAgent(a)
<1> DEFINE L == handler[h]
<1>1. /\ L.target \in {L.agent, None} /\ L.target # a
      /\ \A s \in L.refs \cup L.old : s.agent # a
      /\ \A c \in L.oldConfigs : c.agent # a
  BY DEF OwnThings, OwnLocal
<1>2. /\ Mine(h).agent # a /\ MyConfig(h).agent # a
  BY DEF Mine, MyConfig
<1>3. CASE UNCHANGED <<service, secrets, configs>>
  BY <1>3, SameOf DEF SameAgent
<1>4. CASE CreateSecret(h)
  BY <1>2, <1>4, SameOf, SecretsApart, CreateSecretShape DEF SameAgent
<1>5. CASE CreateConfig(h)
  BY <1>2, <1>5, SameOf, ConfigsApart, CreateConfigShape DEF SameAgent
<1>6. CASE RemoveSecret(h)
  <2>1. PICK s \in L.old : secrets' = secrets \/ secrets' = secrets \ {s}
    BY <1>6, RemoveSecretShape
  <2>2. SecretsOf(a)' = SecretsOf(a)
    BY <1>1, <2>1, SameOf, SecretsApart
  <2>3. UNCHANGED <<service, configs>>
    BY <1>6 DEF RemoveSecret
  <2> QED  BY <2>2, <2>3, SameOf DEF SameAgent
<1>7. CASE RemoveConfig(h)
  <2>1. PICK c \in L.oldConfigs : configs' = configs \/ configs' = configs \ {c}
    BY <1>7, RemoveConfigShape
  <2>2. ConfigsOf(a)' = ConfigsOf(a)
    BY <1>1, <2>1, SameOf, ConfigsApart
  <2>3. UNCHANGED <<service, secrets>>
    BY <1>7 DEF RemoveConfig
  <2> QED  BY <2>2, <2>3, SameOf DEF SameAgent
<1>8. CASE CreateService(h) \/ UpdateService(h) \/ RemoveService(h)
  <2>1. UNCHANGED <<secrets, configs>>
    BY <1>8 DEF CreateService, UpdateService, RemoveService
  <2>2. service'[a] = service[a]
    <3>1. CASE service' = service
      BY <3>1
    <3>2. ASSUME NEW b, NEW s, b # a, service' = [service EXCEPT ![b] = s]
          PROVE  service'[a] = service[a]
      BY <3>2 DEF IInv, Types
    <3>3. CASE CreateService(h)
      <4>1. service' = service \/ service' = [service EXCEPT ![L.agent] = NewService(h)]
        BY <3>3 DEF CreateService
      <4>2. CASE service' = [service EXCEPT ![L.agent] = NewService(h)]
        BY <4>2 DEF IInv, Types
      <4> QED  BY <3>1, <4>1, <4>2
    <3>4. CASE UpdateService(h)
      <4>1. service' = service \/ service' = [service EXCEPT ![L.target] = NewService(h)]
        BY <3>4, UpdateServiceShape
      <4>2. CASE service' = [service EXCEPT ![L.target] = NewService(h)]
        BY <1>1, <4>2 DEF IInv, Types
      <4> QED  BY <3>1, <4>1, <4>2
    <3>5. CASE RemoveService(h)
      <4>1. service' = service \/ service' = [service EXCEPT ![L.target] = None]
        BY <3>5, RemoveServiceShape
      <4>2. CASE service' = [service EXCEPT ![L.target] = None]
        BY <1>1, <4>2 DEF IInv, Types
      <4> QED  BY <3>1, <4>1, <4>2
    <3> QED  BY <1>8, <3>3, <3>4, <3>5
  <2> QED  BY <2>1, <2>2, SameOf DEF SameAgent
<1>9. CASE \/ Call(h) \/ SetSecret(h) \/ SetConfig(h) \/ ListSecrets(h) \/ ListConfigs(h)
           \/ Done(h) \/ Fails(h)
  <2>1. UNCHANGED <<service, secrets, configs>>
    BY <1>9, CallShape, SetSecretShape, SetConfigShape, ListSecretsShape, ListConfigsShape
       DEF Done, Fails
  <2> QED  BY <1>3, <2>1
<1> QED  BY <1>4, <1>5, <1>6, <1>7, <1>8, <1>9 DEF Step

\* A step of h ends its call, begins one or goes on.
LEMMA StepKinds ==
    ASSUME IInv, NEW h \in Handlers, Call(h) \/ Step(h) \/ Fails(h)
    PROVE  \/ \E r : End(h, r)
           \/ \E a \in Agents, l \in Local : /\ handler[h].pc = "idle"
                                             /\ Begin(h, a, l) /\ Beginning(a, l)
           \/ /\ GoesOn(h) /\ Others(h)
              /\ \/ view' = view
                 \/ \E v \in {"changed", "gone"} : /\ handler[h].target \in Agents
                                                   /\ Outdates(h, handler[h].target, v)
<1> DEFINE Goal == \/ \E r : End(h, r)
                   \/ /\ GoesOn(h) /\ Others(h)
                      /\ \/ view' = view
                         \/ \E v \in {"changed", "gone"} : /\ handler[h].target \in Agents
                                                           /\ Outdates(h, handler[h].target, v)
<1>1. handler[h].target # None => handler[h].target \in Agents
  BY DEF IInv, Types, Local
<1>2. CASE SetSecret(h) \/ CreateSecret(h)
  BY <1>2, SetSecretShape, CreateSecretShape
<1>3. CASE SetConfig(h) \/ CreateConfig(h) \/ ListSecrets(h) \/ ListConfigs(h)
  BY <1>3, SetConfigShape, CreateConfigShape, ListSecretsShape, ListConfigsShape DEF On
<1>4. CASE RemoveSecret(h)
  <2>1. (\E r : End(h, r)) \/ (GoesOn(h) /\ Others(h) /\ view' = view)
    BY <1>4, RemoveSecretShape DEF On
  <2> QED  BY <2>1
<1>5. CASE RemoveConfig(h)
  <2>1. (\E r : End(h, r)) \/ (GoesOn(h) /\ Others(h) /\ view' = view)
    BY <1>5, RemoveConfigShape DEF On
  <2> QED  BY <2>1
<1>6. CASE UpdateService(h)
  BY <1>1, <1>6, UpdateServiceShape DEF On
<1>7. CASE RemoveService(h)
  <2>1. handler[h].target \in Agents
    BY <1>7 DEF RemoveService, IInv, Working
  <2> QED  BY <1>7, <2>1, RemoveServiceShape DEF On
<1>8. CASE CreateService(h) \/ Done(h) \/ Fails(h)
  BY <1>8 DEF CreateService, Done, Fails
<1>9. CASE Call(h)
  BY <1>9, CallShape
<1> QED  BY <1>2, <1>3, <1>4, <1>5, <1>6, <1>7, <1>8, <1>9 DEF Step

-----------------------------------------------------------------------------
(***************************************************************************)
(* The call that is alone.  All it has listed is still there, it has seen  *)
(* all that is there of the kinds it has dealt with, and what it is going  *)
(* to create is not there.                                                 *)
(***************************************************************************)
\* The secret of a kind, and the configuration, that the call asks for.
Wanted(l, k) == [agent |-> l.agent, kind |-> k, data |-> IF k \in Peer THEN l.cert ELSE None]
Asked(l) == [agent |-> l.agent, config |-> l.config]

\* What l has listed of the secrets S and the configurations C of its agent.
Listing(l, S, C) ==
    /\ l.refs \subseteq S /\ l.old \subseteq S /\ l.oldConfigs \subseteq C
    /\ \A s \in l.refs : s = Wanted(l, s.kind)
    /\ \A c \in l.oldConfigs : c.config # l.config

\* While it prepares the description of the service.
Preparing(l, sv, S, C) ==
    /\ l.pc \in Writing =>
          /\ (l.target = None) <=> (sv = None)
          /\ \A s \in l.old : s # Wanted(l, s.kind)
          /\ \A i \in 1 .. l.n - 1 : \A s \in S : s.kind = Generated[i] => s \in l.refs \cup l.old
    /\ l.pc = "create" => \A s \in S : s.kind = Generated[l.n] => s \in l.old
    /\ l.pc \in {"config", "create config", "write"} => l.n = Len(Generated) + 1
    /\ l.pc = "create config" => Asked(l) \notin C
    /\ l.pc = "write" /\ l.config # None => Asked(l) \in C

\* While it removes the service or what is not needed any more.
Removing(l, sv, S) ==
    /\ l.pc \in {"remove", "list", "wipe"} => l.refs = {} /\ l.config = None
    /\ l.pc \in {"list", "wipe"} => sv = None
    /\ l.pc = "wipe" => l.old = S
    /\ l.pc = "clean" => /\ l.refs = IF sv = None THEN {} ELSE sv.refs
                         /\ sv # None => sv.config = l.config
                         /\ S \subseteq l.refs \cup l.old /\ l.refs \cap l.old = {}

Good(l, sv, S, C) == Listing(l, S, C) /\ Preparing(l, sv, S, C) /\ Removing(l, sv, S)

Undisturbed(h) ==
    LET a == handler[h].agent
    IN  /\ \A g \in Handlers \ {h} : handler[g].pc # "idle" => handler[g].agent # a
        /\ view[h] = "current"
        /\ Good(handler[h], service[a], SecretsOf(a), ConfigsOf(a))

AloneCalls == \A h \in Handlers : handler[h].pc # "idle" /\ alone[h] => Undisturbed(h)

\* The call of g stays alone and undisturbed when another handler takes a step.
LEMMA StepOthers ==
    ASSUME IInv, OwnThings, AloneCalls,
           NEW h \in Handlers, Call(h) \/ Step(h) \/ Fails(h),
           NEW g \in Handlers \ {h}, handler'[g].pc # "idle", alone'[g]
    PROVE  Undisturbed(g)'
<1>1. /\ handler'[g] = handler[g] /\ alone[g] /\ \A f \in Handlers \ {h} : handler'[f] = handler[f]
  <2>1. CASE \E r : End(h, r)
    BY <2>1, EndFields DEF Others
  <2>2. ASSUME NEW b \in Agents, NEW l \in Local, Begin(h, b, l) PROVE Others(h) /\ alone[g]
    BY <2>2, BeginShape, BeginAlone
  <2>3. CASE GoesOn(h) /\ Others(h)
    BY <2>3 DEF GoesOn, Others
  <2>4. CASE \E b \in Agents, l \in Local : Begin(h, b, l)
    BY <2>2, <2>4 DEF Others
  <2> QED  BY <2>1, <2>3, <2>4, StepKinds
<1>2. handler[g].pc # "idle" /\ Undisturbed(g) /\ handler[g].agent \in Agents
  BY <1>1 DEF AloneCalls, IInv, Working
<1>a. PICK a \in Agents : a = handler[g].agent
  BY <1>2
<1>3. handler[h].agent # a
  <2>1. CASE handler[h].pc = "idle"
    <3>1. handler[h].agent = None
      BY <1>a, <2>1 DEF OwnThings, OwnLocal
    <3> QED  BY <1>a, <1>2, <3>1
  <2>2. CASE handler[h].pc # "idle"
    BY <1>a, <1>2, <2>2 DEF Undisturbed
  <2> QED  BY <1>a, <2>1, <2>2
<1>4. SameAgent(a)
  BY <1>a, <1>2, <1>3, StepApart
<1>5. view'[g] = view[g]
  <2>1. ASSUME NEW v, handler[h].target \in Agents, Outdates(h, handler[h].target, v)
        PROVE  view'[g] = view[g]
    <3>1. handler[h].target = handler[h].agent
      BY <1>a, <2>1 DEF OwnThings, OwnLocal
    <3>2. handler[g].target \in {a, None}
      BY <1>a DEF OwnThings, OwnLocal
    <3>3. handler[g].target # handler[h].target
      BY <1>a, <1>3, <2>1, <3>1, <3>2
    <3> QED  BY <1>a, <2>1, <3>3, OutdatesOthers
  <2>2. CASE \E r : End(h, r)
    BY <2>2, EndFields
  <2>3. CASE \E b \in Agents, l \in Local : Begin(h, b, l)
    BY <2>3, BeginShape
  <2> QED  BY <2>1, <2>2, <2>3, StepKinds
<1>6. handler'[h].pc # "idle" => handler'[h].agent # a
  <2>1. ASSUME NEW r, End(h, r) PROVE handler'[h].pc = "idle"
    BY <2>1, EndFields
  <2>2. ASSUME NEW b \in Agents, NEW l \in Local, Begin(h, b, l), Beginning(b, l)
        PROVE  handler'[h].agent # a
    <3>1. handler'[h].agent = b
      BY <2>2, BeginShape DEF Beginning
    <3>2. b # a
      BY <1>a, <1>2, <2>2, BeginAlone DEF Busy
    <3> QED  BY <3>1, <3>2
  <2>3. CASE GoesOn(h)
    BY <1>a, <1>3, <2>3 DEF GoesOn
  <2> QED  BY <1>a, <2>1, <2>2, <2>3, StepKinds
<1>7. \A f \in Handlers \ {g} : handler'[f].pc # "idle" => handler'[f].agent # a
  BY <1>a, <1>1, <1>2, <1>6 DEF Undisturbed
<1>8. handler'[g].agent = a
  BY <1>a, <1>1
<1>9. Good(handler'[g], service'[a], SecretsOf(a)', ConfigsOf(a)')
  BY <1>a, <1>1, <1>2, <1>4 DEF Undisturbed, SameAgent
<1>10. view'[g] = "current"
  BY <1>a, <1>2, <1>5 DEF Undisturbed
<1> QED  BY <1>a, <1>7, <1>8, <1>9, <1>10 DEF Undisturbed, SecretsOf, ConfigsOf

\* The call of h itself goes on.
LEMMA UndisturbedFrame ==
    ASSUME NEW h \in Handlers, Undisturbed(h), GoesOn(h), Others(h), view'[h] = view[h],
           NEW a \in Agents, a = handler[h].agent,
           Good(handler'[h], service'[a], SecretsOf(a)', ConfigsOf(a)')
    PROVE  Undisturbed(h)'
<1>1. handler'[h].agent = a
  BY DEF GoesOn
<1>2. \A g \in Handlers \ {h} : handler'[g].pc # "idle" => handler'[g].agent # a
  BY DEF Others, Undisturbed
<1>3. view'[h] = "current"
  BY DEF Undisturbed
<1> QED  BY <1>1, <1>2, <1>3 DEF Undisturbed, SecretsOf, ConfigsOf

\* What the call asks for does not change while it goes on.
LEMMA SameWanted ==
    ASSUME NEW h \in Handlers, GoesOn(h)
    PROVE  /\ \A k : Wanted(handler'[h], k) = Wanted(handler[h], k)
           /\ Asked(handler'[h]) = Asked(handler[h])
           /\ handler'[h].config = handler[h].config /\ handler'[h].target = handler[h].target
  BY DEF GoesOn, Wanted, Asked

LEMMA MineWanted ==
    ASSUME NEW h \in Handlers
    PROVE  /\ Mine(h) = Wanted(handler[h], Generated[handler[h].n])
           /\ Mine(h).kind = Generated[handler[h].n] /\ Mine(h).agent = handler[h].agent
  BY DEF Mine, Wanted

\* The request after a secret.
LEMMA AfterSecret ==
    ASSUME IInv, NEW h \in Handlers, handler[h].pc \in {"secret", "create"},
           NEW pc, pc = After(handler[h].n, handler[h].config)
    PROVE  /\ pc \in {"secret", "config", "write"}
           /\ pc \in {"config", "write"} => handler[h].n = Len(Generated)
           /\ pc = "write" => handler[h].config = None
           /\ handler[h].n \in Nat /\ Len(Generated) \in Nat
<1>1. handler[h].n \in 1 .. Len(Generated) + 1 /\ handler[h].n <= Len(Generated)
  BY DEF IInv, Types, Local, Working
<1>2. Len(Generated) \in Nat
  OBVIOUS
<1> QED  BY <1>1, <1>2 DEF After

\* One more kind of secret has been dealt with: what is there of it is used or old.
LEMMA OneMoreKind ==
    ASSUME NEW n \in Nat, NEW S, NEW T, NEW U,
           \A i \in 1 .. n - 1 : \A s \in S : s.kind = Generated[i] => s \in T,
           T \subseteq U, \A s \in S : s.kind = Generated[n] => s \in U
    PROVE  \A i \in 1 .. (n + 1) - 1 : \A s \in S : s.kind = Generated[i] => s \in U
<1> SUFFICES ASSUME NEW i \in 1 .. (n + 1) - 1, NEW s \in S, s.kind = Generated[i] PROVE s \in U
  OBVIOUS
<1>1. i \in 1 .. n - 1 \/ i = n
  OBVIOUS
<1> QED  BY <1>1

LEMMA SetSecretGood ==
    ASSUME IInv, NEW h \in Handlers, SetSecret(h), Undisturbed(h), NEW a \in Agents,
           a = handler[h].agent
    PROVE  Good(handler'[h], service[a], SecretsOf(a), ConfigsOf(a))
<1> DEFINE L == handler[h]
           m == handler'[h]
           S == SecretsOf(a)
           C == ConfigsOf(a)
           sv == service[a]
           M == Mine(h)
           K == ListedOf(h)
<1>1. Listing(L, S, C) /\ Preparing(L, sv, S, C)
  BY DEF Undisturbed, Good
<1>2. /\ GoesOn(h) /\ L.pc = "secret" /\ m.old = L.old \cup (K \ {M})
      /\ m.oldConfigs = L.oldConfigs
      /\ \/ /\ M \in K /\ m.pc = After(L.n, L.config) /\ m.n = L.n + 1
            /\ m.refs = L.refs \cup {M}
         \/ M \notin K /\ m.pc = "create" /\ m.n = L.n /\ m.refs = L.refs
  BY SetSecretShape
<1>3. \A s : s \in K <=> s \in S /\ s.kind = Generated[L.n]
  BY DEF ListedOf
<1>4. /\ \A k : Wanted(m, k) = Wanted(L, k) 
      /\ m.config = L.config /\ m.target = L.target
      /\ M = Wanted(L, Generated[L.n]) /\ M.kind = Generated[L.n]
  BY <1>2, SameWanted, MineWanted
<1>5. /\ (L.target = None) <=> (sv = None)
      /\ \A s \in L.old : s # Wanted(L, s.kind)
      /\ \A i \in 1 .. L.n - 1 : \A s \in S : s.kind = Generated[i] => s \in L.refs \cup L.old
  BY <1>1, <1>2 DEF Preparing, Writing
<1>6. /\ L.refs \subseteq S /\ L.old \subseteq S /\ L.oldConfigs \subseteq C
      /\ \A s \in L.refs : s = Wanted(L, s.kind)
      /\ \A c \in L.oldConfigs : c.config # L.config
  BY <1>1 DEF Listing
<1> HIDE DEF L, m, S, C, sv, M, K
<1>7. Listing(m, S, C)
  <2>1. m.refs \subseteq S /\ m.old \subseteq S
    BY <1>2, <1>3, <1>6
  <2>2. \A s \in m.refs : s = Wanted(m, s.kind)
    BY <1>2, <1>4, <1>6
  <2>3. m.oldConfigs \subseteq C /\ \A c \in m.oldConfigs : c.config # m.config
    BY <1>2, <1>4, <1>6
  <2> QED  BY <2>1, <2>2, <2>3 DEF Listing
<1>8. \A s \in m.old : s # Wanted(m, s.kind)
  BY <1>2, <1>3, <1>4, <1>5
<1>9. \A i \in 1 .. m.n - 1 : \A s \in S : s.kind = Generated[i] => s \in m.refs \cup m.old
  <2>1. CASE M \in K
    <3>1. /\ m.n = L.n + 1 /\ m.refs = L.refs \cup {M}
      BY <1>2, <2>1
    <3>2. L.n \in Nat
      BY <1>2, AfterSecret DEF L
    <3>3. L.refs \cup L.old \subseteq m.refs \cup m.old
      BY <1>2, <3>1
    <3>4. \A s \in S : s.kind = Generated[L.n] => s \in m.refs \cup m.old
      BY <1>2, <1>3, <3>1
    <3> DEFINE T == L.refs \cup L.old
               U == m.refs \cup m.old
    <3>5. \A i \in 1 .. L.n - 1 : \A s \in S : s.kind = Generated[i] => s \in T
      BY <1>5
    <3>6. T \subseteq U /\ \A s \in S : s.kind = Generated[L.n] => s \in U
      BY <3>3, <3>4
    <3> HIDE DEF T, U
    <3>7. \A i \in 1 .. (L.n + 1) - 1 : \A s \in S : s.kind = Generated[i] => s \in U
      BY <3>2, <3>5, <3>6, OneMoreKind
    <3> QED  BY <3>1, <3>7 DEF U
  <2>2. CASE M \notin K
    BY <1>2, <1>5, <2>2
  <2> QED  BY <2>1, <2>2
<1>10. m.pc = "create" => \A s \in S : s.kind = Generated[m.n] => s \in m.old
  <2>1. CASE M \in K
    <3>1. m.pc # "create"
      BY <1>2, <2>1, AfterSecret DEF L
    <3> QED  BY <3>1
  <2>2. CASE M \notin K
    BY <1>2, <1>3, <2>2
  <2> QED  BY <2>1, <2>2
<1>11. /\ m.pc \in {"secret", "create", "config", "write"}
       /\ m.pc \in {"config", "write"} => m.n = Len(Generated) + 1
       /\ m.pc = "write" => m.config = None
  <2>1. CASE M \in K
    BY <1>2, <1>4, <2>1, AfterSecret DEF L
  <2>2. CASE M \notin K
    BY <1>2, <2>2
  <2> QED  BY <2>1, <2>2
<1>12. Preparing(m, sv, S, C)
  BY <1>4, <1>5, <1>8, <1>9, <1>10, <1>11 DEF Preparing
<1>13. Removing(m, sv, S)
  BY <1>11 DEF Removing
<1>14. Good(m, sv, S, C)
  BY <1>7, <1>12, <1>13 DEF Good
<1> QED  BY <1>14 DEF m, sv, S, C

LEMMA CreateSecretGood ==
    ASSUME IInv, NEW h \in Handlers, CreateSecret(h), Undisturbed(h), NEW a \in Agents,
           a = handler[h].agent, handler'[h].pc # "idle"
    PROVE  Good(handler'[h], service[a], SecretsOf(a)', ConfigsOf(a))
<1> DEFINE L == handler[h]
           m == handler'[h]
           S == SecretsOf(a)
           T == SecretsOf(a)'
           C == ConfigsOf(a)
           sv == service[a]
           M == Mine(h)
<1>1. Listing(L, S, C) /\ Preparing(L, sv, S, C)
  BY DEF Undisturbed, Good
<1>2. /\ L.pc = "create" /\ secrets' = secrets \cup {M}
      /\ GoesOn(h)
      /\ m.pc = After(L.n, L.config) /\ m.n = L.n + 1 /\ m.refs = L.refs \cup {M}
      /\ m.old = L.old /\ m.oldConfigs = L.oldConfigs
  <2>1. ~End(h, "refused")
    BY EndShape DEF Idle
  <2> QED  BY <2>1, CreateSecretShape
<1>3. /\ \A k : Wanted(m, k) = Wanted(L, k)
      /\ m.config = L.config /\ m.target = L.target
      /\ M = Wanted(L, Generated[L.n]) /\ M.kind = Generated[L.n] /\ M.agent = a
  BY <1>2, SameWanted, MineWanted
<1>4. T = S \cup {M}
  BY <1>2, <1>3 DEF SecretsOf
<1>5. /\ (L.target = None) <=> (sv = None)
      /\ \A s \in L.old : s # Wanted(L, s.kind)
      /\ \A i \in 1 .. L.n - 1 : \A s \in S : s.kind = Generated[i] => s \in L.refs \cup L.old
      /\ \A s \in S : s.kind = Generated[L.n] => s \in L.old
  BY <1>1, <1>2 DEF Preparing, Writing
<1>6. /\ L.refs \subseteq S /\ L.old \subseteq S /\ L.oldConfigs \subseteq C
      /\ \A s \in L.refs : s = Wanted(L, s.kind)
      /\ \A c \in L.oldConfigs : c.config # L.config
  BY <1>1 DEF Listing
<1>7. /\ m.pc \in {"secret", "config", "write"} /\ L.n \in Nat
      /\ m.pc \in {"config", "write"} => m.n = Len(Generated) + 1
      /\ m.pc = "write" => m.config = None
  BY <1>2, <1>3, AfterSecret
<1> HIDE DEF L, m, S, T, C, sv, M
<1>8. Listing(m, T, C)
  BY <1>2, <1>3, <1>4, <1>6 DEF Listing
<1>9. \A i \in 1 .. m.n - 1 : \A s \in T : s.kind = Generated[i] => s \in m.refs \cup m.old
  <2> DEFINE P == L.refs \cup L.old
             U == m.refs \cup m.old
  <2>1. \A i \in 1 .. L.n - 1 : \A s \in S : s.kind = Generated[i] => s \in P
    BY <1>5
  <2>2. P \subseteq U /\ \A s \in S : s.kind = Generated[L.n] => s \in U
    BY <1>2, <1>5
  <2>3. M \in U
    BY <1>2
  <2> HIDE DEF P, U
  <2>4. \A i \in 1 .. (L.n + 1) - 1 : \A s \in S : s.kind = Generated[i] => s \in U
    BY <1>7, <2>1, <2>2, OneMoreKind
  <2> QED  BY <1>2, <1>4, <2>3, <2>4 DEF U
<1>10. Preparing(m, sv, T, C)
  BY <1>2, <1>3, <1>5, <1>7, <1>9 DEF Preparing
<1>11. Removing(m, sv, T)
  BY <1>7 DEF Removing
<1>12. Good(m, sv, T, C)
  BY <1>8, <1>10, <1>11 DEF Good
<1> QED  BY <1>12 DEF m, sv, T, C

\* The secrets stay as they are; so does what the call has dealt with.
LEMMA OnSame ==
    ASSUME NEW h \in Handlers, NEW pc, NEW old, NEW oldConfigs, On(h, pc, old, oldConfigs)
    PROVE  LET L == handler[h]
               m == handler'[h]
           IN  /\ \A k : Wanted(m, k) = Wanted(L, k)
               /\ Asked(m) = Asked(L) /\ m.config = L.config /\ m.target = L.target
               /\ m.pc = pc /\ m.n = L.n /\ m.refs = L.refs /\ m.old = old
               /\ m.oldConfigs = oldConfigs
  BY SameWanted DEF On

LEMMA SetConfigGood ==
    ASSUME IInv, NEW h \in Handlers, SetConfig(h), Undisturbed(h), NEW a \in Agents,
           a = handler[h].agent
    PROVE  Good(handler'[h], service[a], SecretsOf(a), ConfigsOf(a))
<1> DEFINE L == handler[h]
           m == handler'[h]
           S == SecretsOf(a)
           C == ConfigsOf(a)
           sv == service[a]
           pc == IF MyConfig(h) \in configs THEN "write" ELSE "create config"
           other == C \ {MyConfig(h)}
<1>1. Listing(L, S, C) /\ Preparing(L, sv, S, C)
  BY DEF Undisturbed, Good
<1>2. L.pc = "config" /\ On(h, pc, L.old, other)
  BY SetConfigShape
<1>3. MyConfig(h) = Asked(L)
  BY DEF MyConfig, Asked
<1>4. /\ pc \in {"write", "create config"}
      /\ pc = "write" => Asked(L) \in C
      /\ pc = "create config" => Asked(L) \notin C
  BY <1>3 DEF ConfigsOf, Asked
<1>5. \A c \in other : c.config # L.config
  <2> SUFFICES ASSUME NEW c \in C, c.config = L.config PROVE c = Asked(L)
    BY <1>3
  <2>1. c \in Config /\ c.agent = L.agent
    BY DEF ConfigsOf, IInv, Types
  <2> QED  BY <2>1 DEF Config, Asked
<1>6. other \subseteq C
  OBVIOUS
<1> HIDE DEF pc, other
<1>7. /\ \A k : Wanted(m, k) = Wanted(L, k)
      /\ Asked(m) = Asked(L) /\ m.config = L.config /\ m.target = L.target
      /\ m.pc = pc /\ m.n = L.n /\ m.refs = L.refs /\ m.old = L.old
      /\ m.oldConfigs = other
  BY <1>2, OnSame
<1> HIDE DEF L, m, S, C, sv
<1>8. Listing(m, S, C)
  BY <1>1, <1>5, <1>6, <1>7 DEF Listing
<1>9. Preparing(m, sv, S, C)
  BY <1>1, <1>2, <1>4, <1>7 DEF Preparing, Writing
<1>10. Removing(m, sv, S)
  BY <1>4, <1>7 DEF Removing
<1>11. Good(m, sv, S, C)
  BY <1>8, <1>9, <1>10 DEF Good
<1> QED  BY <1>11 DEF m, sv, S, C

LEMMA CreateConfigGood ==
    ASSUME IInv, NEW h \in Handlers, CreateConfig(h), Undisturbed(h), NEW a \in Agents,
           a = handler[h].agent, handler'[h].pc # "idle"
    PROVE  Good(handler'[h], service[a], SecretsOf(a), ConfigsOf(a)')
<1> DEFINE L == handler[h]
           m == handler'[h]
           S == SecretsOf(a)
           C == ConfigsOf(a)
           D == ConfigsOf(a)'
           sv == service[a]
<1>1. Listing(L, S, C) /\ Preparing(L, sv, S, C)
  BY DEF Undisturbed, Good
<1>2. /\ L.pc = "create config" /\ On(h, "write", L.old, L.oldConfigs)
      /\ configs' = configs \cup {MyConfig(h)}
  <2>1. ~End(h, "refused")
    BY EndFields
  <2> QED  BY <2>1, CreateConfigShape
<1>3. D = C \cup {Asked(L)}
  <2>1. MyConfig(h) = Asked(L) /\ Asked(L).agent = a
    BY DEF MyConfig, Asked
  <2> QED  BY <1>2, <2>1 DEF ConfigsOf
<1>4. /\ \A k : Wanted(m, k) = Wanted(L, k)
      /\ Asked(m) = Asked(L) /\ m.config = L.config /\ m.target = L.target
      /\ m.pc = "write" /\ m.n = L.n /\ m.refs = L.refs /\ m.old = L.old
      /\ m.oldConfigs = L.oldConfigs
  BY <1>2, OnSame
<1> HIDE DEF L, m, S, C, D, sv
<1>5. Listing(m, S, D)
  BY <1>1, <1>3, <1>4 DEF Listing
<1>6. Preparing(m, sv, S, D)
  BY <1>1, <1>2, <1>3, <1>4 DEF Preparing, Writing
<1>7. Removing(m, sv, S)
  BY <1>4 DEF Removing
<1>8. Good(m, sv, S, D)
  BY <1>5, <1>6, <1>7 DEF Good
<1> QED  BY <1>8 DEF m, sv, S, D

\* The update has been accepted: every secret of the agent is used or old.
LEMMA UpdateServiceGood ==
    ASSUME IInv, NEW h \in Handlers, UpdateService(h), Undisturbed(h), NEW a \in Agents,
           a = handler[h].agent, handler'[h].pc # "idle"
    PROVE  Good(handler'[h], service'[a], SecretsOf(a), ConfigsOf(a))
<1> DEFINE L == handler[h]
           m == handler'[h]
           S == SecretsOf(a)
           C == ConfigsOf(a)
           sv == service[a]
           sw == service'[a]
<1>1. Listing(L, S, C) /\ Preparing(L, sv, S, C)
  BY DEF Undisturbed, Good
<1>2. /\ L.pc = "write" /\ On(h, "clean", L.old, L.oldConfigs)
      /\ service' = [service EXCEPT ![a] = NewService(h)]
  <2>1. \A r : ~End(h, r)
    BY EndFields
  <2> QED  BY <2>1, UpdateServiceShape
<1>3. sw = NewService(h) /\ sw.refs = L.refs /\ sw.config = L.config /\ sw # None
  <2>1. NewService(h) \in Service
    BY LocalType DEF NewService, Service, Local
  <2>2. sw = NewService(h)
    BY <1>2 DEF IInv, Types
  <2> QED  BY <2>1, <2>2, ServiceAssumption DEF NewService
<1>4. /\ \A k : Wanted(m, k) = Wanted(L, k)
      /\ m.config = L.config /\ m.pc = "clean" /\ m.refs = L.refs /\ m.old = L.old
      /\ m.oldConfigs = L.oldConfigs
  BY <1>2, OnSame
<1>5. S \subseteq L.refs \cup L.old
  <2>1. L.n = Len(Generated) + 1
    BY <1>1, <1>2 DEF Preparing
  <2> SUFFICES ASSUME NEW s \in S PROVE s \in L.refs \cup L.old
    OBVIOUS
  <2>2. s.kind \in Kinds
    BY DEF SecretsOf, IInv, Types, Secret
  <2>3. PICK i \in DOMAIN Generated : s.kind = Generated[i]
    BY <2>2 DEF Kinds
  <2>4. i \in 1 .. L.n - 1
    BY <2>1
  <2> QED  BY <1>1, <1>2, <2>3, <2>4 DEF Preparing, Writing
<1> HIDE DEF L, m, S, C, sv, sw
<1>6. L.refs \cap L.old = {}
  BY <1>1, <1>2 DEF Listing, Preparing, Writing
<1>7. Listing(m, S, C)
  BY <1>1, <1>4 DEF Listing
<1>8. Preparing(m, sw, S, C)
  BY <1>4 DEF Preparing, Writing
<1>9. Removing(m, sw, S)
  BY <1>3, <1>4, <1>5, <1>6 DEF Removing
<1>10. Good(m, sw, S, C)
  BY <1>7, <1>8, <1>9 DEF Good
<1> QED  BY <1>10 DEF m, sw, S, C

\* The service has been removed, or what belonged to it has been listed.
LEMMA DestroyGood ==
    ASSUME IInv, NEW h \in Handlers, RemoveService(h) \/ ListSecrets(h) \/ ListConfigs(h),
           OwnThings, Undisturbed(h), NEW a \in Agents, a = handler[h].agent,
           handler'[h].pc # "idle"
    PROVE  Good(handler'[h], service'[a], SecretsOf(a), ConfigsOf(a))
<1> DEFINE L == handler[h]
           m == handler'[h]
           S == SecretsOf(a)
           C == ConfigsOf(a)
           sv == service[a]
           sw == service'[a]
<1>1. Listing(L, S, C) /\ Removing(L, sv, S)
  BY DEF Undisturbed, Good
<1>2. \A c \in C : c.config # None
  BY DEF ConfigsOf, Config, IInv, Types
<1>3. \/ L.pc = "remove" /\ On(h, "list", L.old, L.oldConfigs) /\ sw = None
      \/ L.pc = "list" /\ On(h, "wipe", S, L.oldConfigs) /\ sw = sv
      \/ L.pc = "wipe" /\ L.old = {} /\ On(h, "clean", L.old, C) /\ sw = sv
  <2>1. CASE RemoveService(h)
    <3>1. ~End(h, "error")
      BY EndFields
    <3>2. L.target = a
      BY <2>1 DEF OwnThings, OwnLocal, RemoveService, IInv, Working
    <3>3. L.pc = "remove" /\ On(h, "list", L.old, L.oldConfigs)
          /\ service' = [service EXCEPT ![a] = None]
      BY <2>1, <3>1, <3>2, RemoveServiceShape
    <3>4. sw = None
      BY <3>3 DEF IInv, Types
    <3> QED  BY <3>3, <3>4
  <2>2. CASE ListSecrets(h)
    BY <2>2, ListSecretsShape
  <2>3. CASE ListConfigs(h)
    BY <2>3, ListConfigsShape
  <2> QED  BY <2>1, <2>2, <2>3
<1>4. ASSUME NEW pc, NEW old, NEW oldConfigs, On(h, pc, old, oldConfigs)
      PROVE  /\ m.config = L.config /\ m.pc = pc /\ m.refs = L.refs /\ m.old = old
             /\ m.oldConfigs = oldConfigs
  BY <1>4, OnSame
<1> HIDE DEF L, m, S, C, sv, sw
<1>5. L.refs = {} /\ L.config = None /\ (L.pc # "remove" => sv = None)
  BY <1>1, <1>3 DEF Removing
<1>6. /\ m.config = None /\ m.refs = {} /\ sw = None
      /\ \/ m.pc = "list" /\ m.old = L.old /\ m.oldConfigs = L.oldConfigs
         \/ m.pc = "wipe" /\ m.old = S /\ m.oldConfigs = L.oldConfigs
         \/ m.pc = "clean" /\ m.old = L.old /\ L.old = {} /\ L.pc = "wipe" /\ m.oldConfigs = C
  BY <1>3, <1>4, <1>5
<1>7. m.pc = "clean" => S = {}
  BY <1>1, <1>6 DEF Removing
<1>8. Listing(m, S, C)
  BY <1>1, <1>2, <1>6, <1>5 DEF Listing
<1>9. Preparing(m, sw, S, C)
  BY <1>6 DEF Preparing, Writing
<1>10. Removing(m, sw, S)
  BY <1>6, <1>7 DEF Removing
<1>11. Good(m, sw, S, C)
  BY <1>8, <1>9, <1>10 DEF Good
<1> QED  BY <1>11 DEF m, sw, S, C

LEMMA RemoveGood ==
    ASSUME IInv, NEW h \in Handlers, RemoveSecret(h) \/ RemoveConfig(h), OwnThings,
           Undisturbed(h), NEW a \in Agents, a = handler[h].agent, handler'[h].pc # "idle"
    PROVE  Good(handler'[h], service[a], SecretsOf(a)', ConfigsOf(a)')
<1> DEFINE L == handler[h]
           m == handler'[h]
           S == SecretsOf(a)
           T == SecretsOf(a)'
           C == ConfigsOf(a)
           D == ConfigsOf(a)'
           sv == service[a]
<1>1. Listing(L, S, C) /\ Removing(L, sv, S)
  BY DEF Undisturbed, Good
<1>2. \A r : ~End(h, r)
  BY EndFields
<1>3. \/ \E s \in L.old : /\ L.pc \in {"wipe", "clean"} /\ T = S \ {s} /\ D = C
                          /\ On(h, L.pc, L.old \ {s}, L.oldConfigs)
      \/ \E c \in L.oldConfigs : /\ L.pc = "clean" /\ T = S /\ D = C \ {c}
                                 /\ On(h, "clean", L.old, L.oldConfigs \ {c})
  <2>1. CASE RemoveSecret(h)
    <3>1. PICK s \in L.old : /\ secrets' = secrets \ {s}
                             /\ On(h, L.pc, L.old \ {s}, L.oldConfigs)
      BY <1>2, <2>1, RemoveSecretShape
    <3>2. L.pc \in {"wipe", "clean"} /\ configs' = configs
      BY <2>1, RemoveSecretShape
    <3>3. T = S \ {s} /\ D = C
      BY <3>1, <3>2 DEF SecretsOf, ConfigsOf
    <3> QED  BY <3>1, <3>2, <3>3
  <2>2. CASE RemoveConfig(h)
    <3>1. PICK c \in L.oldConfigs : /\ configs' = configs \ {c}
                                    /\ On(h, "clean", L.old, L.oldConfigs \ {c})
      BY <1>2, <2>2, RemoveConfigShape
    <3>2. L.pc = "clean" /\ secrets' = secrets
      BY <2>2, RemoveConfigShape
    <3>3. T = S /\ D = C \ {c}
      BY <3>1, <3>2 DEF SecretsOf, ConfigsOf
    <3> QED  BY <3>1, <3>2, <3>3
  <2> QED  BY <2>1, <2>2
<1>4. ASSUME NEW pc, NEW old, NEW oldConfigs, On(h, pc, old, oldConfigs)
      PROVE  /\ \A k : Wanted(m, k) = Wanted(L, k)
             /\ m.config = L.config /\ m.pc = pc /\ m.refs = L.refs /\ m.old = old
             /\ m.oldConfigs = oldConfigs
  BY <1>4, OnSame
<1>5. /\ \A k : Wanted(m, k) = Wanted(L, k)
      /\ m.config = L.config /\ m.pc = L.pc /\ m.refs = L.refs
      /\ L.pc \in {"wipe", "clean"}
      /\ \/ \E s \in L.old : /\ T = S \ {s} /\ D = C
                             /\ m.old = L.old \ {s} /\ m.oldConfigs = L.oldConfigs
         \/ \E c \in L.oldConfigs : /\ T = S /\ D = C \ {c} /\ m.old = L.old
                                    /\ m.oldConfigs = L.oldConfigs \ {c}
                                    /\ L.pc = "clean"
  BY <1>3, <1>4
<1> HIDE DEF L, m, S, T, C, D, sv
<1>6. \A s \in L.old : s \notin L.refs
  BY <1>1, <1>5 DEF Removing
<1>7. Listing(m, T, D)
  BY <1>1, <1>5, <1>6 DEF Listing
<1>8. Preparing(m, sv, T, D)
  BY <1>5 DEF Preparing, Writing
<1>9. Removing(m, sv, T)
  BY <1>1, <1>5 DEF Removing
<1>10. Good(m, sv, T, D)
  BY <1>7, <1>8, <1>9 DEF Good
<1> QED  BY <1>10 DEF m, sv, T, D

\* A call begins alone.
LEMMA BeginGood ==
    ASSUME IInv, OwnThings, Longer = {}, NEW h \in Handlers, NEW a \in Agents, NEW l \in Local,
           handler[h].pc = "idle", Begin(h, a, l), Beginning(a, l), alone'[h]
    PROVE  Undisturbed(h)'
<1>1. /\ handler'[h] = l /\ Others(h) /\ UNCHANGED <<service, secrets, configs, view>>
      /\ \A g \in Handlers \ {h} : Busy(g) => handler[g].agent # a
  BY BeginShape, BeginAlone
<1>2. \A g \in Handlers \ {h} : handler'[g].pc # "idle" => handler'[g].agent # a
  BY <1>1 DEF Others, Busy
<1>3. view'[h] = "current" /\ l.agent = a
  BY <1>1 DEF OwnThings, OwnLocal, Beginning
<1> DEFINE S == SecretsOf(a)
           C == ConfigsOf(a)
           sv == service[a]
<1> HIDE DEF S, C, sv
<1>4. /\ l.n = 1 /\ l.refs = {} /\ l.old = {} /\ l.oldConfigs = {}
      /\ (l.target = None) <=> (sv = None)
      /\ \/ l.pc = After(0, l.config)
         \/ l.pc = "remove" /\ l.config = None
  BY OwnService DEF Beginning, sv
<1>5. /\ l.pc \in {"secret", "config", "write", "remove"}
      /\ l.pc \in {"config", "write"} => Len(Generated) = 0
      /\ l.pc \in {"write", "remove"} => l.config = None
  <2>1. Len(Generated) \in Nat
    OBVIOUS
  <2> QED  BY <1>4, <2>1 DEF After
<1>6. Listing(l, S, C)
  BY <1>4 DEF Listing
<1>7. Preparing(l, sv, S, C)
  <2>1. 1 .. l.n - 1 = {}
    BY <1>4
  <2>2. Len(Generated) = 0 => l.n = Len(Generated) + 1
    <3>1. ASSUME Len(Generated) = 0 PROVE Len(Generated) + 1 = 1
      BY <3>1
    <3> QED  BY <1>4, <3>1, Zenon
  <2>3. l.pc \in {"config", "create config", "write"} => l.n = Len(Generated) + 1
    <3>1. l.pc # "create config"
      BY <1>5
    <3> QED  BY <1>5, <2>2, <3>1, Zenon
  <2>4. l.pc \in Writing => (l.target = None) <=> (sv = None)
    BY <1>4
  <2>5. l.pc # "create" /\ l.pc # "create config" /\ ~(l.pc = "write" /\ l.config # None)
    BY <1>5
  <2>6. /\ \A s \in l.old : s # Wanted(l, s.kind)
        /\ \A i \in 1 .. l.n - 1 : \A s \in S : s.kind = Generated[i] => s \in l.refs \cup l.old
    BY <1>4, <2>1, Zenon
  <2>7. /\ l.pc = "create" => \A s \in S : s.kind = Generated[l.n] => s \in l.old
        /\ l.pc = "create config" => Asked(l) \notin C
        /\ l.pc = "write" /\ l.config # None => Asked(l) \in C
    BY <2>5, Zenon
  <2> QED  BY <2>3, <2>4, <2>6, <2>7 DEF Preparing
<1>8. Removing(l, sv, S)
  <2>1. /\ l.pc \notin {"list", "wipe", "clean"} /\ l.refs = {}
        /\ l.pc = "remove" => l.config = None
    BY <1>4, <1>5
  <2> QED  BY <2>1 DEF Removing
<1>9. Good(l, service[a], SecretsOf(a), ConfigsOf(a))
  BY <1>6, <1>7, <1>8 DEF Good, S, C, sv
<1> QED  BY <1>1, <1>2, <1>3, <1>9 DEF Undisturbed, SecretsOf, ConfigsOf

LEMMA OwnStep ==
    ASSUME IInv, OwnThings, NEW h \in Handlers, Step(h) \/ Fails(h), Undisturbed(h),
           handler'[h].pc # "idle"
    PROVE  Undisturbed(h)'
<1>1. \A r : ~End(h, r)
  BY EndFields
<1>2. GoesOn(h) /\ Others(h) /\ view'[h] = view[h]
  <2>1. handler[h].pc # "idle"
    BY DEF Step, Fails, Busy, SetSecret, CreateSecret, SetConfig, CreateConfig, CreateService,
           UpdateService, RemoveService, ListSecrets, ListConfigs, RemoveSecret, RemoveConfig, Done
  <2>2. GoesOn(h) /\ Others(h)
    BY <1>1, <2>1, StepKinds
  <2>3. view' = view \/ \E a \in Agents, v \in {"changed", "gone"} : Outdates(h, a, v)
    BY <1>1, <2>1, StepKinds
  <2>4. view'[h] = view[h]
    BY <2>3 DEF Outdates
  <2> QED  BY <2>2, <2>4
<1>3. PICK a \in Agents : a = handler[h].agent
  BY <1>2 DEF GoesOn, IInv, Working
<1>4. CASE SetSecret(h)
  <2>1. UNCHANGED <<service, secrets, configs>>
    BY <1>4 DEF SetSecret
  <2> QED  BY <1>2, <1>3, <1>4, <2>1, SameOf, SetSecretGood, UndisturbedFrame
<1>5. CASE CreateSecret(h)
  <2>1. UNCHANGED <<service, configs>>
    BY <1>5 DEF CreateSecret
  <2> QED  BY <1>2, <1>3, <1>5, <2>1, SameOf, CreateSecretGood, UndisturbedFrame
<1>6. CASE SetConfig(h)
  <2>1. UNCHANGED <<service, secrets, configs>>
    BY <1>6 DEF SetConfig
  <2> QED  BY <1>2, <1>3, <1>6, <2>1, SameOf, SetConfigGood, UndisturbedFrame
<1>7. CASE CreateConfig(h)
  <2>1. UNCHANGED <<service, secrets>>
    BY <1>7 DEF CreateConfig
  <2> QED  BY <1>2, <1>3, <1>7, <2>1, SameOf, CreateConfigGood, UndisturbedFrame
<1>8. CASE UpdateService(h)
  <2>1. UNCHANGED <<secrets, configs>>
    BY <1>8 DEF UpdateService
  <2> QED  BY <1>2, <1>3, <1>8, <2>1, SameOf, UpdateServiceGood, UndisturbedFrame
<1>9. CASE RemoveService(h) \/ ListSecrets(h) \/ ListConfigs(h)
  <2>1. UNCHANGED <<secrets, configs>>
    BY <1>9 DEF RemoveService, ListSecrets, ListConfigs
  <2> QED  BY <1>2, <1>3, <1>9, <2>1, SameOf, DestroyGood, UndisturbedFrame
<1>10. CASE RemoveSecret(h) \/ RemoveConfig(h)
  <2>1. service' = service
    BY <1>10 DEF RemoveSecret, RemoveConfig
  <2> QED  BY <1>2, <1>3, <1>10, <2>1, RemoveGood, UndisturbedFrame
<1>11. CASE CreateService(h) \/ Done(h) \/ Fails(h)
  BY <1>1, <1>11 DEF CreateService, Done, Fails
<1> QED  BY <1>4, <1>5, <1>6, <1>7, <1>8, <1>9, <1>10, <1>11 DEF Step

AloneInv == IInv /\ OwnThings /\ AloneCalls

LEMMA InitAlone == Init => AloneInv
<1>1. Init => AloneCalls
  BY DEF Init, AloneCalls, Idle
<1> QED  BY <1>1, InitInv, InitOwn DEF AloneInv

LEMMA StepAlone == ASSUME Longer = {}, AloneInv, [Next]_vars PROVE AloneInv'
<1> USE DEF AloneInv
<1>1. IInv'
  BY StepInv
<1>2. CASE UNCHANGED vars
  BY <1>1, <1>2 DEF vars, OwnThings, OwnRefs, AloneCalls, Undisturbed, SecretsOf, ConfigsOf
<1>3. ASSUME NEW h \in Handlers, Call(h) \/ Step(h) \/ Fails(h) PROVE AloneInv'
  <2>1. OwnThings'
    BY <1>3, CallOwn, StepOwn
  <2>2. ASSUME NEW g \in Handlers, handler'[g].pc # "idle", alone'[g] PROVE Undisturbed(g)'
    <3>1. CASE g # h
      BY <1>3, <2>2, <3>1, StepOthers
    <3>2. CASE g = h /\ Call(h)
      <4>1. ASSUME NEW r, End(h, r) PROVE FALSE
        BY <2>2, <3>2, <4>1, EndFields
      <4> QED  BY <2>2, <3>2, <4>1, CallShape, BeginGood
    <3>3. CASE g = h /\ (Step(h) \/ Fails(h))
      <4>1. ASSUME NEW r, End(h, r) PROVE FALSE
        BY <2>2, <3>3, <4>1, EndFields
      <4>2. handler[h].pc # "idle"
        BY <3>3
           DEF Step, Fails, Busy, SetSecret, CreateSecret, SetConfig, CreateConfig, CreateService,
           UpdateService, RemoveService, ListSecrets, ListConfigs, RemoveSecret, RemoveConfig, Done
      <4>3. alone[h]
        BY <1>3, <2>2, <3>3, <4>1, <4>2, StepKinds DEF GoesOn
      <4>4. Undisturbed(h)
        BY <4>2, <4>3 DEF AloneCalls
      <4> QED  BY <2>2, <3>3, <4>4, OwnStep
    <3> QED  BY <1>3, <3>1, <3>2, <3>3
  <2>3. AloneCalls'
    BY <2>2 DEF AloneCalls
  <2> QED  BY <1>1, <2>1, <2>3
<1> QED  BY <1>2, <1>3 DEF Next

\* A step of another handler leaves the local variables of h alone.
LEMMA OthersStay ==
    ASSUME IInv, NEW g \in Handlers, Call(g) \/ Step(g) \/ Fails(g)
    PROVE  Others(g)
<1>1. CASE \E r : End(g, r)
  BY <1>1, EndFields
<1>2. CASE \E a \in Agents, l \in Local : Begin(g, a, l)
  BY <1>2, BeginShape
<1> QED  BY <1>1, <1>2, StepKinds

\* No request of a call that is alone is refused, and all it removes is there.
LEMMA AloneNotRefused ==
    ASSUME AloneInv, NEW h \in Handlers, Step(h) \/ Fails(h), alone[h]
    PROVE  handler'[h].result \notin {"refused", "not_found"}
<1> USE DEF AloneInv
<1> DEFINE L == handler[h]
<1>1. L.pc # "idle"
  BY DEF Step, Fails, Busy, SetSecret, CreateSecret, SetConfig, CreateConfig, CreateService,
         UpdateService, RemoveService, ListSecrets, ListConfigs, RemoveSecret, RemoveConfig, Done
<1>2. Undisturbed(h) /\ L.result = "ok"
  BY <1>1 DEF AloneCalls, OwnThings, OwnLocal
<1>3. PICK a \in Agents : a = L.agent
  BY <1>1 DEF IInv, Working
<1>4. /\ Listing(L, SecretsOf(a), ConfigsOf(a))
      /\ Preparing(L, service[a], SecretsOf(a), ConfigsOf(a))
      /\ Removing(L, service[a], SecretsOf(a))
      /\ view[h] = "current"
  BY <1>2, <1>3 DEF Undisturbed, Good
<1>5. CASE GoesOn(h)
  BY <1>2, <1>5 DEF GoesOn
<1>6. ASSUME NEW r, r \notin {"refused", "not_found"}, End(h, r)
      PROVE  handler'[h].result \notin {"refused", "not_found"}
  BY <1>6, EndFields
<1>7. L.target \in {a, None}
  BY <1>3 DEF OwnThings, OwnLocal
<1>8. CASE CreateSecret(h)
  <2>1. Mine(h) \notin secrets
    <3> SUFFICES ASSUME Mine(h) \in secrets PROVE FALSE
      OBVIOUS
    <3>1. L.pc = "create" /\ Mine(h) \in SecretsOf(a) /\ Mine(h).kind = Generated[L.n]
      BY <1>3, <1>8, MineWanted DEF CreateSecret, SecretsOf
    <3>2. Mine(h) \in L.old
      BY <1>4, <3>1 DEF Preparing
    <3>3. Mine(h) # Wanted(L, Mine(h).kind)
      BY <1>4, <3>1, <3>2 DEF Preparing, Writing
    <3> QED  BY <3>1, <3>3, MineWanted
  <2> QED  BY <1>5, <1>8, <2>1, CreateSecretShape
<1>9. CASE CreateConfig(h)
  <2>1. MyConfig(h) \notin configs
    <3>1. Asked(L) = MyConfig(h) /\ MyConfig(h).agent = a
      BY <1>3 DEF Asked, MyConfig
    <3> QED  BY <1>4, <1>9, <3>1 DEF Preparing, CreateConfig, ConfigsOf
  <2> QED  BY <1>5, <1>9, <2>1, CreateConfigShape DEF On
<1>10. L.pc = "write" => RefsExist(h)
  BY <1>4 DEF Listing, Preparing, RefsExist, SecretsOf, ConfigsOf, Asked, MyConfig
<1>11. CASE CreateService(h)
  <2>1. service[a] = None
    BY <1>4, <1>11 DEF Preparing, Writing, CreateService
  <2>2. End(h, "ok")
    BY <1>3, <1>10, <1>11, <2>1 DEF CreateService
  <2> QED  BY <1>6, <2>2
<1>12. CASE UpdateService(h)
  <2>1. GoesOn(h)
    BY <1>3, <1>4, <1>7, <1>10, <1>12, UpdateServiceShape DEF On
  <2> QED  BY <1>5, <2>1
<1>13. CASE RemoveSecret(h)
  <2>1. PICK s \in L.old : \/ s \notin secrets
                           \/ Referenced(s)
                           \/ On(h, L.pc, L.old \ {s}, L.oldConfigs)
    BY <1>13, RemoveSecretShape
  <2>2. \A t \in L.old : t \in secrets /\ t.agent = a
    BY <1>3, <1>4 DEF Listing, SecretsOf
  <2>3. \A t \in L.old : ~Referenced(t)
    <3> SUFFICES ASSUME NEW t \in L.old, NEW b \in Agents, service[b] # None, t \in service[b].refs
                 PROVE  FALSE
      BY DEF Referenced
    <3>1. b = a
      BY <2>2 DEF OwnThings, OwnRefs
    <3>2. L.pc \in {"wipe", "clean"}
      BY <1>13 DEF RemoveSecret
    <3> QED  BY <1>4, <3>1, <3>2 DEF Removing
  <2>4. GoesOn(h)
    BY <1>13, <2>2, <2>3, RemoveSecretShape DEF On
  <2> QED  BY <1>5, <2>4
<1>14. CASE RemoveConfig(h)
  <2>1. \A c \in L.oldConfigs : c \in configs /\ c.agent = a /\ c.config # L.config
    BY <1>3, <1>4 DEF Listing, ConfigsOf
  <2>2. L.pc = "clean"
    BY <1>14 DEF RemoveConfig
  <2>3. service[a] # None => service[a].config = L.config
    BY <1>4, <2>2 DEF Removing
  <2>4. GoesOn(h)
    BY <1>14, <2>1, <2>3, RemoveConfigShape DEF On
  <2> QED  BY <1>5, <2>4
<1>15. CASE SetSecret(h) \/ SetConfig(h) \/ ListSecrets(h) \/ ListConfigs(h)
  <2>1. GoesOn(h)
    BY <1>15, SetSecretShape, SetConfigShape, ListSecretsShape, ListConfigsShape DEF On
  <2> QED  BY <1>5, <2>1
<1>16. CASE RemoveService(h)
  BY <1>5, <1>6, <1>16, RemoveServiceShape DEF On
<1>17. CASE Done(h) \/ Fails(h)
  BY <1>6, <1>17 DEF Done, Fails
<1> QED  BY <1>8, <1>9, <1>11, <1>12, <1>13, <1>14, <1>15, <1>16, <1>17 DEF Step

\* A call that is alone is never refused and misses nothing, whatever earlier calls, that
\* failed half way or ran at the same time, have left.  A name that begins with that of
\* another agent is excluded: a call for the other one would take its service.
THEOREM AloneSucceedsHolds == ASSUME Longer = {} PROVE Spec => AloneSucceeds
<1>1. AloneInv /\ [Next]_vars =>
        [\A h \in Handlers : Busy(h) /\ alone[h]
            => handler'[h].result \notin {"refused", "not_found"}]_vars
  <2> SUFFICES ASSUME AloneInv, Next, NEW h \in Handlers, Busy(h), alone[h]
               PROVE  handler'[h].result \notin {"refused", "not_found"}
    OBVIOUS
  <2>1. PICK g \in Handlers : Call(g) \/ Step(g) \/ Fails(g)
    BY DEF Next
  <2>2. CASE g # h
    <3>1. handler'[h] = handler[h]
      BY <2>1, <2>2, OthersStay DEF AloneInv, Others
    <3> QED  BY <3>1 DEF AloneInv, OwnThings, OwnLocal, Busy
  <2>3. CASE g = h
    <3>1. ~Call(h)
      BY CallShape DEF AloneInv, Busy
    <3> QED  BY <2>1, <2>3, <3>1, AloneNotRefused
  <2> QED  BY <2>2, <2>3
<1>2. AloneInv /\ [Next]_vars => AloneInv'
  BY StepAlone
<1> QED  BY <1>1, <1>2, InitAlone, PTL DEF Spec, AloneSucceeds

\* What an update of a service that exists, or the destruction of one, has removed in the
\* end, if it was alone, is everything that the service does not reference, the remains of
\* failed calls included.
THEOREM AloneCleansHolds == ASSUME Longer = {} PROVE Spec => AloneCleans
<1>1. AloneInv /\ [Next]_vars =>
        [\A h \in Handlers : alone[h] /\ Busy(h) /\ handler[h].target # None
            /\ ~Busy(h)' /\ handler'[h].result = "ok"
         => LeavesReferenced(handler[h].agent)]_vars
  <2> SUFFICES ASSUME AloneInv, Next, NEW h \in Handlers, alone[h], Busy(h),
                      handler[h].target # None, ~Busy(h)', handler'[h].result = "ok"
               PROVE  {s \in secrets' : s.agent = handler[h].agent} =
                          IF service'[handler[h].agent] = None THEN {}
                          ELSE service'[handler[h].agent].refs
    BY DEF LeavesReferenced
  <2>1. PICK g \in Handlers : Call(g) \/ Step(g) \/ Fails(g)
    BY DEF Next
  <2>2. g = h
    <3> SUFFICES ASSUME g # h PROVE FALSE
      OBVIOUS
    <3>1. handler'[h] = handler[h]
      BY <2>1, OthersStay DEF AloneInv, Others
    <3> QED  BY <3>1 DEF Busy
  <2>3. ~Call(h) /\ ~GoesOn(h)
    BY CallShape DEF AloneInv, Busy, GoesOn
  <2>4. ASSUME NEW r, End(h, r) PROVE r = "ok"
    BY <2>4, EndFields DEF AloneInv
  <2>5. Done(h)
    <3>1. ~Fails(h)
      BY <2>4 DEF Fails
    <3>2. ~CreateService(h)
      BY DEF CreateService
    <3>3. ~SetSecret(h) /\ ~CreateSecret(h) /\ ~SetConfig(h) /\ ~CreateConfig(h)
      BY <2>3, <2>4, SetSecretShape, CreateSecretShape, SetConfigShape, CreateConfigShape
         DEF AloneInv, On
    <3>4. ~UpdateService(h) /\ ~RemoveService(h) /\ ~ListSecrets(h) /\ ~ListConfigs(h)
      BY <2>3, <2>4, UpdateServiceShape, RemoveServiceShape, ListSecretsShape, ListConfigsShape
         DEF AloneInv, On
    <3>5. ~RemoveSecret(h) /\ ~RemoveConfig(h)
      BY <2>3, <2>4, RemoveSecretShape, RemoveConfigShape DEF AloneInv, On
    <3> QED  BY <2>1, <2>2, <2>3, <3>1, <3>2, <3>3, <3>4, <3>5 DEF Step
  <2>6. /\ handler[h].pc = "clean" /\ handler[h].old = {} /\ UNCHANGED <<service, secrets>>
    BY <2>5 DEF Done
  <2>7. PICK a \in Agents : a = handler[h].agent
    BY DEF AloneInv, IInv, Working, Busy
  <2>8. /\ handler[h].refs \subseteq SecretsOf(a)
        /\ handler[h].refs = IF service[a] = None THEN {} ELSE service[a].refs
        /\ SecretsOf(a) \subseteq handler[h].refs \cup handler[h].old
    BY <2>6, <2>7 DEF AloneInv, AloneCalls, Undisturbed, Good, Listing, Removing, Busy
  <2>9. SecretsOf(a) = IF service[a] = None THEN {} ELSE service[a].refs
    BY <2>6, <2>8
  <2> QED  BY <2>6, <2>7, <2>9 DEF SecretsOf
<1>2. AloneInv /\ [Next]_vars => AloneInv'
  BY StepAlone
<1> QED  BY <1>1, <1>2, InitAlone, PTL DEF Spec, AloneCleans
=============================================================================
