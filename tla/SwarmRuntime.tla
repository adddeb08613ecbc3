---------------------------- MODULE SwarmRuntime ----------------------------
(***************************************************************************)
(* Agents as services of a Docker Swarm: FrameworkServicer (servicer.py)   *)
(* over DockerSwarmRuntime (runtime.py).  The handlers of the gRPC server  *)
(* run in a thread pool and nothing locks the runtime: a handler is a      *)
(* sequence of requests to the swarm, each an atomic step that may fail.   *)
(* A request whose answer is lost is one that succeeds and is followed by  *)
(* a failure: either way the handler does nothing more.                    *)
(*                                                                         *)
(* The swarm is external.  It refuses to create what exists, to update a   *)
(* service that has changed since it was read, to reference what does not  *)
(* exist and to remove what a service references; its name filter matches  *)
(* beginnings of names (Longer).                                           *)
(***************************************************************************)
EXTENDS FiniteSets, Naturals, Sequences

CONSTANTS
    Handlers,     \* threads of the pool
    Agents,       \* valid names of agents
    Longer,       \* pairs of agents: the name of the second begins with the first
    Certs,        \* certificates; one that is not in use any more is issued again
    Configs,      \* configurations a request may carry
    Generated,    \* names of the generated secrets in their order
    Ops,          \* the remote procedures that are called
    CanFail,      \* requests to the swarm fail
    None

Peer == {"peer.crt", "peer.key"}

ASSUME RuntimeAssumption ==
    /\ Longer \subseteq Agents \X Agents
    /\ \A a \in Agents : <<a, a>> \notin Longer
    /\ Generated \in Seq(STRING)
    /\ None \notin Configs \cup Certs \cup Agents
    /\ CanFail \in BOOLEAN

VARIABLES
    service,      \* the service of every agent
    secrets,
    configs,
    handler,      \* the local variables of the handlers
    view,         \* what became of the service a handler has read: its version and id
    alone         \* no other handler has worked on the agent during the call

vars == <<service, secrets, configs, handler, view, alone>>

Kinds == {Generated[i] : i \in DOMAIN Generated}
Secret == [agent : Agents, kind : Kinds, data : Certs \cup {None}]
Config == [agent : Agents, config : Configs]
Service == [refs : SUBSET Secret, config : Configs \cup {None}, replicas : {0, 1}]

ASSUME ServiceAssumption == None \notin Service

\* pc: the next request; agent: the name asked for; target: the agent whose service was
\* found; n: the generated secret that is next; result: how the last call has ended.
Idle == [pc |-> "idle", agent |-> None, target |-> None, config |-> None, scale |-> 0,
         cert |-> None, n |-> 1, refs |-> {}, old |-> {}, oldConfigs |-> {},
         result |-> "ok"]

Init ==
    /\ service = [a \in Agents |-> None]
    /\ secrets = {}
    /\ configs = {}
    /\ handler = [h \in Handlers |-> Idle]
    /\ view = [h \in Handlers |-> "current"]
    /\ alone = [h \in Handlers |-> TRUE]

-----------------------------------------------------------------------------
(* What the handlers read.                                                 *)

Busy(h) == handler[h].pc # "idle"

\* The services that the name filter lets through.
Listed(a) == {b \in Agents : service[b] # None /\ (b = a \/ <<a, b>> \in Longer)}

\* get_service: the only service that is listed; otherwise NotFound is raised.
GetService(a) ==
    IF Cardinality(Listed(a)) = 1 THEN CHOOSE b \in Listed(a) : TRUE ELSE None

SecretsOf(a) == {s \in secrets : s.agent = a}
ConfigsOf(a) == {c \in configs : c.agent = a}

\* The CA issues another certificate whenever it is asked.
Unused(c) ==
    /\ \A s \in secrets : s.data # c
    /\ \A h \in Handlers : handler[h].cert # c

-----------------------------------------------------------------------------
(* Beginning and end of a call.                                            *)

End(h, r) ==
    /\ handler' = [handler EXCEPT ![h] = [Idle EXCEPT !.result = r]]
    /\ view' = [view EXCEPT ![h] = "current"]
    /\ alone' = [alone EXCEPT ![h] = TRUE]

\* A call with a valid name begins; the name is looked up before anything else.
Begin(h, a, fields) ==
    LET others == {g \in Handlers \ {h} : Busy(g) /\ handler[g].agent = a}
    IN  /\ handler' = [handler EXCEPT ![h] = fields]
        /\ alone' = [g \in Handlers |-> IF g = h THEN others = {} ELSE alone[g] /\ g \notin others]
        /\ UNCHANGED <<service, secrets, configs, view>>

\* The first secret, the configuration or, if there are none, the service is next.  (The
\* secrets of an operator that a plugin names are looked up after the generated ones; that
\* one is missing is a request that fails, although it is reported as NOT_FOUND.)
After(n, config) ==
    IF n < Len(Generated) THEN "secret" ELSE IF config # None THEN "config" ELSE "write"

\* update, up to the first change: the service is read, the image is looked up and the CA
\* issues a certificate.  Strings that a request does not set are empty and not None, and
\* its port is a number: every request differs from the service.
Update(h, a, config, autostart) ==
    /\ ~Busy(h)
    /\ \E c \in Certs :
          /\ Unused(c)
          /\ Begin(h, a, [Idle EXCEPT
                !.pc = After(0, config), !.agent = a, !.target = GetService(a), !.cert = c,
                !.config = config,
                !.scale = IF GetService(a) = None \/ service[GetService(a)].replicas = 0
                          THEN autostart ELSE 1])

\* The name is not valid, the image is not set, not found or without the label of agents.
UpdateInvalid(h) ==
    /\ ~Busy(h)
    /\ End(h, "error")
    /\ UNCHANGED <<service, secrets, configs>>

\* destroy: nothing is to do if the service is not found.
Destroy(h, a) ==
    /\ ~Busy(h)
    /\ IF GetService(a) = None
       THEN End(h, "ok") /\ UNCHANGED <<service, secrets, configs>>
       ELSE Begin(h, a, [Idle EXCEPT !.pc = "remove", !.agent = a, !.target = GetService(a)])

-----------------------------------------------------------------------------
(* Calls that always raise.                                                *)

Raises(h) ==
    /\ ~Busy(h)
    /\ End(h, "error")
    /\ UNCHANGED <<service, secrets, configs>>

\* The handler of create is not implemented.
Create(h) == "create" \in Ops /\ Raises(h)

\* sleep_agent and wake_agent unpack the service into two names.
Sleep(h, a) == "sleep" \in Ops /\ Raises(h)
Wake(h, a) == "wake" \in Ops /\ Raises(h)

\* The request of upgrade has no image, and what is not found cannot be updated.
Upgrade(h, a) == "upgrade" \in Ops /\ Raises(h)

\* renew reads an attribute that the context of a call does not have.
Renew(h, a) == "renew" \in Ops /\ Raises(h)

-----------------------------------------------------------------------------
(* update_agent.                                                           *)

\* The secret that comes next for handler h.
Mine(h) ==
    LET kind == Generated[handler[h].n]
    IN  [agent |-> handler[h].agent, kind |-> kind,
         data |-> IF kind \in Peer THEN handler[h].cert ELSE None]

UseSecret(h, s, old) ==
    /\ handler' = [handler EXCEPT
          ![h].pc = After(handler[h].n, handler[h].config), ![h].n = @ + 1,
          ![h].refs = @ \cup {s}, ![h].old = old]
    /\ UNCHANGED <<view, alone>>

\* Faulty variant: any secret of the same kind is taken for the one that is needed.
SetSecret_AnyName(h) ==
    LET mine == Mine(h)
        listed == {s \in SecretsOf(mine.agent) : s.kind = mine.kind}
    IN  /\ handler[h].pc = "secret"
        /\ IF listed # {}
           THEN \E s \in listed : UseSecret(h, s, handler[h].old \cup (listed \ {s}))
           ELSE /\ handler' = [handler EXCEPT ![h].pc = "create"]
                /\ UNCHANGED <<view, alone>>
        /\ UNCHANGED <<service, secrets, configs>>

\* Faulty variant: only the old secrets of the last kind are kept in mind.
SetSecret_LastOnly(h) ==
    LET mine == Mine(h)
        listed == {s \in SecretsOf(mine.agent) : s.kind = mine.kind}
    IN  /\ handler[h].pc = "secret"
        /\ IF mine \in listed
           THEN UseSecret(h, mine, listed \ {mine})
           ELSE /\ handler' = [handler EXCEPT ![h].pc = "create", ![h].old = listed \ {mine}]
                /\ UNCHANGED <<view, alone>>
        /\ UNCHANGED <<service, secrets, configs>>

\* set_secret, the list: the name of a secret says what is in it.
SetSecret(h) ==
    LET mine == Mine(h)
        listed == {s \in SecretsOf(mine.agent) : s.kind = mine.kind}
        old == handler[h].old \cup (listed \ {mine})
    IN  /\ handler[h].pc = "secret"
        /\ IF mine \in listed
           THEN UseSecret(h, mine, old)
           ELSE /\ handler' = [handler EXCEPT ![h].pc = "create", ![h].old = old]
                /\ UNCHANGED <<view, alone>>
        /\ UNCHANGED <<service, secrets, configs>>

\* set_secret, the creation.
CreateSecret(h) ==
    /\ handler[h].pc = "create"
    /\ IF Mine(h) \in secrets
       THEN End(h, "refused") /\ UNCHANGED secrets
       ELSE UseSecret(h, Mine(h), handler[h].old) /\ secrets' = secrets \cup {Mine(h)}
    /\ UNCHANGED <<service, configs>>

MyConfig(h) == [agent |-> handler[h].agent, config |-> handler[h].config]

\* set_config, the list.
SetConfig(h) ==
    /\ handler[h].pc = "config"
    /\ handler' = [handler EXCEPT
          ![h].pc = IF MyConfig(h) \in configs THEN "write" ELSE "create config",
          ![h].oldConfigs = ConfigsOf(handler[h].agent) \ {MyConfig(h)}]
    /\ UNCHANGED <<service, secrets, configs, view, alone>>

\* set_config, the creation.
CreateConfig(h) ==
    /\ handler[h].pc = "create config"
    /\ IF MyConfig(h) \in configs
       THEN End(h, "refused") /\ UNCHANGED configs
       ELSE /\ configs' = configs \cup {MyConfig(h)}
            /\ handler' = [handler EXCEPT ![h].pc = "write"]
            /\ UNCHANGED <<view, alone>>
    /\ UNCHANGED <<service, secrets>>

\* The service as the handler describes it; without a configuration in the request it has
\* none, whatever it had before.
NewService(h) ==
    [refs |-> handler[h].refs, config |-> handler[h].config, replicas |-> handler[h].scale]

\* What the swarm checks before it accepts the description.
RefsExist(h) ==
    /\ handler[h].refs \subseteq secrets
    /\ handler[h].config # None => MyConfig(h) \in configs

\* create_service, if get_service has found nothing; old secrets are left alone.
CreateService(h) ==
    LET a == handler[h].agent
    IN  /\ handler[h].pc = "write" /\ handler[h].target = None
        /\ IF service[a] = None /\ RefsExist(h)
           THEN End(h, "ok") /\ service' = [service EXCEPT ![a] = NewService(h)]
           ELSE End(h, "refused") /\ UNCHANGED service
        /\ UNCHANGED <<secrets, configs>>

\* What others have read of the service of a is not up to date any more.
Outdates(h, a, v) ==
    view' = [g \in Handlers |->
                IF g # h /\ handler[g].target = a /\ view[g] # "gone" THEN v ELSE view[g]]

Written(h, a) ==
    /\ service' = [service EXCEPT ![a] = NewService(h)]
    /\ handler' = [handler EXCEPT ![h].pc = "clean"]
    /\ Outdates(h, a, "changed")
    /\ UNCHANGED alone

\* Faulty variant: the version of the service is not passed on.
UpdateService_AnyVersion(h) ==
    LET a == handler[h].target
    IN  /\ handler[h].pc = "write" /\ a # None
        /\ \/ view[h] # "gone" /\ a = handler[h].agent /\ RefsExist(h) /\ Written(h, a)
           \/ view[h] = "gone" /\ End(h, "not_found") /\ UNCHANGED service
           \/ /\ view[h] # "gone"
              /\ a # handler[h].agent \/ ~RefsExist(h)
              /\ End(h, "refused") /\ UNCHANGED service
        /\ UNCHANGED <<secrets, configs>>

\* Faulty variant: the old secrets are removed before the service is updated.
UpdateService_CleansFirst(h) ==
    LET a == handler[h].target
    IN  /\ handler[h].pc = "write" /\ a # None
        /\ IF \E b \in Agents : service[b] # None /\ service[b].refs \cap handler[h].old # {}
           THEN End(h, "refused") /\ UNCHANGED service
           ELSE Written(h, a)
        /\ UNCHANGED <<secrets, configs>>

\* update_service with the id and the version that were read; a service is not renamed.
UpdateService(h) ==
    LET a == handler[h].target
    IN  /\ handler[h].pc = "write" /\ a # None
        /\ \/ view[h] = "current" /\ a = handler[h].agent /\ RefsExist(h) /\ Written(h, a)
           \/ view[h] = "gone" /\ End(h, "not_found") /\ UNCHANGED service
           \/ /\ view[h] # "gone"
              /\ view[h] = "changed" \/ a # handler[h].agent \/ ~RefsExist(h)
              /\ End(h, "refused") /\ UNCHANGED service
        /\ UNCHANGED <<secrets, configs>>

-----------------------------------------------------------------------------
(* delete_agent.                                                           *)

\* The image is read once more for the plugins before the secrets are listed: nothing that
\* is modelled, but a request that can fail between the two (Fails).
RemoveService(h) ==
    LET a == handler[h].target
    IN  /\ handler[h].pc = "remove"
        /\ IF view[h] = "gone"
           THEN End(h, "error") /\ UNCHANGED service
           ELSE /\ service' = [service EXCEPT ![a] = None]
                /\ handler' = [handler EXCEPT ![h].pc = "list"]
                /\ Outdates(h, a, "gone")
                /\ UNCHANGED alone
        /\ UNCHANGED <<secrets, configs>>

\* delete_agent_secrets, the list.
ListSecrets(h) ==
    /\ handler[h].pc = "list"
    /\ handler' = [handler EXCEPT ![h].pc = "wipe", ![h].old = SecretsOf(handler[h].agent)]
    /\ UNCHANGED <<service, secrets, configs, view, alone>>

\* delete_agent_configs, the list.
ListConfigs(h) ==
    /\ handler[h].pc = "wipe" /\ handler[h].old = {}
    /\ handler' = [handler EXCEPT ![h].pc = "clean", ![h].oldConfigs = ConfigsOf(handler[h].agent)]
    /\ UNCHANGED <<service, secrets, configs, view, alone>>

\* What is not there any more: only the handler of update, which has asked for a
\* certificate, catches NotFound and reports it.
Missing(h) == IF handler[h].cert = None THEN "error" ELSE "not_found"

\* What update_agent and delete_agent have listed is removed.
RemoveSecret(h) ==
    /\ handler[h].pc \in {"wipe", "clean"}
    /\ \E s \in handler[h].old :
          \/ /\ s \notin secrets
             /\ End(h, Missing(h))
             /\ UNCHANGED secrets
          \/ /\ s \in secrets
             /\ IF \E a \in Agents : service[a] # None /\ s \in service[a].refs
                THEN End(h, "refused") /\ UNCHANGED secrets
                ELSE /\ secrets' = secrets \ {s}
                     /\ handler' = [handler EXCEPT ![h].old = @ \ {s}]
                     /\ UNCHANGED <<view, alone>>
    /\ UNCHANGED <<service, configs>>

RemoveConfig(h) ==
    /\ handler[h].pc = "clean" /\ handler[h].old = {}
    /\ \E c \in handler[h].oldConfigs :
          \/ c \notin configs /\ End(h, Missing(h)) /\ UNCHANGED configs
          \/ /\ c \in configs
             /\ IF service[c.agent] # None /\ service[c.agent].config = c.config
                THEN End(h, "refused") /\ UNCHANGED configs
                ELSE /\ configs' = configs \ {c}
                     /\ handler' = [handler EXCEPT ![h].oldConfigs = @ \ {c}]
                     /\ UNCHANGED <<view, alone>>
    /\ UNCHANGED <<service, secrets>>

Done(h) ==
    /\ handler[h].pc = "clean" /\ handler[h].old = {} /\ handler[h].oldConfigs = {}
    /\ End(h, "ok")
    /\ UNCHANGED <<service, secrets, configs>>

\* A request to the swarm (for a call that removes: also one for the image) fails; nothing
\* is undone.
Fails(h) ==
    /\ Busy(h) /\ CanFail
    /\ End(h, "error")
    /\ UNCHANGED <<service, secrets, configs>>

-----------------------------------------------------------------------------
Call(h) ==
    \E a \in Agents :
        \/ "update" \in Ops /\ \E c \in Configs \cup {None}, s \in {0, 1} : Update(h, a, c, s)
        \/ "update" \in Ops /\ UpdateInvalid(h)
        \/ "destroy" \in Ops /\ Destroy(h, a)
        \/ Create(h) \/ Sleep(h, a) \/ Wake(h, a) \/ Upgrade(h, a) \/ Renew(h, a)

Step(h) ==
    \/ SetSecret(h) \/ CreateSecret(h) \/ SetConfig(h) \/ CreateConfig(h)
    \/ CreateService(h) \/ UpdateService(h)
    \/ RemoveService(h) \/ ListSecrets(h) \/ ListConfigs(h)
    \/ RemoveSecret(h) \/ RemoveConfig(h) \/ Done(h)

Next == \E h \in Handlers : Call(h) \/ Step(h) \/ Fails(h)

Spec == Init /\ [][Next]_vars

-----------------------------------------------------------------------------
(* Properties.                                                             *)

TypeOK ==
    /\ service \in [Agents -> Service \cup {None}]
    /\ secrets \subseteq Secret
    /\ configs \subseteq Config
    /\ \A h \in Handlers :
          /\ handler[h].pc \in {"idle", "secret", "create", "config", "create config", "write",
                                "remove", "list", "wipe", "clean"}
          /\ handler[h].agent \in Agents \cup {None}
          /\ handler[h].target \in Agents \cup {None}
          /\ handler[h].config \in Configs \cup {None}
          /\ handler[h].scale \in {0, 1}
          /\ handler[h].cert \in Certs \cup {None}
          /\ handler[h].n \in 1 .. Len(Generated) + 1
          /\ handler[h].refs \subseteq Secret
          /\ handler[h].old \subseteq Secret
          /\ handler[h].oldConfigs \subseteq Config
          /\ handler[h].result \in {"ok", "not_found", "refused", "error"}
    /\ view \in [Handlers -> {"current", "changed", "gone"}]
    /\ alone \in [Handlers -> BOOLEAN]

\* The certificate and the key of a service belong together, whatever became of the
\* secrets of calls that have failed or run at the same time.
KeyPair ==
    \A a \in Agents : service[a] # None =>
        \A s, t \in service[a].refs : s.kind \in Peer /\ t.kind \in Peer => s.data = t.data

\* A call that is the only one for its agent is never refused because of what earlier
\* calls, finished or failed half way, have left behind.
AloneSucceeds ==
    [][\A h \in Handlers : Busy(h) /\ alone[h]
            => handler'[h].result \notin {"refused", "not_found"}]_vars

\* What a step leaves of an agent: the secrets that its service references.
LeavesReferenced(a) ==
    {s \in secrets' : s.agent = a} = IF service'[a] = None THEN {} ELSE service'[a].refs

\* An update of a service that exists, or the destruction of one, that was the only call
\* for its agent leaves exactly the secrets that are referenced: it repairs what failed
\* calls have left.  (A create and the destruction of what is not found do not, see
\* CreateCleans and DestroyCleans: after them secrets stay until the next update.)
AloneCleans ==
    [][\A h \in Handlers : alone[h] /\ Busy(h) /\ handler[h].target # None
            /\ ~Busy(h)' /\ handler'[h].result = "ok"
        => LeavesReferenced(handler[h].agent)]_vars

\* "delete old screts": the same of an update that creates the service.
CreateCleans ==
    [][\A h \in Handlers : alone[h] /\ Busy(h) /\ handler[h].target = None
            /\ ~Busy(h)' /\ handler'[h].result = "ok"
        => LeavesReferenced(handler[h].agent)]_vars

\* The same of a destroy that finds no service, which "fails with not found if agent or
\* image is not found": it succeeds, and should leave nothing then.
DestroyCleans ==
    [][\A h \in Handlers, a \in Agents : (~\E g \in Handlers : Busy(g)) /\ Destroy(h, a) /\ ~Busy(h)'
        => LeavesReferenced(a)]_vars

\* An update never stops an agent that is running: two updates that overlap do not write
\* an old scale back.
NeverPutToSleep ==
    [][\A a \in Agents : service[a] # None /\ service'[a] # None
            => service'[a].replicas >= service[a].replicas]_vars

\* A call for one agent leaves the service, the secrets and the configurations of all
\* others alone.
OnlyOwn ==
    [][\A a \in Agents :
            \/ \E h \in Handlers : handler[h].agent = a /\ handler'[h] # handler[h]
            \/ /\ service'[a] = service[a]
               /\ {s \in secrets' : s.agent = a} = SecretsOf(a)
               /\ {c \in configs' : c.agent = a} = ConfigsOf(a)]_vars

\* update "fails with not found if agent or image is not found": never after it has
\* written the service.
NotFoundChangesNothing ==
    [][\A h \in Handlers : handler[h].pc = "clean" => handler'[h].result # "not_found"]_vars

=============================================================================
