--------------------------- MODULE InfraProviderCreate ---------------------------
(***************************************************************************)
(* Controller.Create of src/app/api/controller/infraprovider/create.go:    *)
(* persist an infra provider config, read it back, check the provider     *)
(* type, create each input resource under it and list them.  The steps    *)
(* are separate store calls with no transaction around them.  A caller    *)
(* that gets an error sends the same input again, up to MaxRequests       *)
(* requests, one after another.                                            *)
(***************************************************************************)
EXTENDS Naturals, Sequences, FiniteSets, Functions

CONSTANTS
  InputResources,         \* the input's resource identifiers, in order
  ProviderTypes,          \* the infra provider types an input may name
  TemplatedTypes,         \* registered types whose TemplateParams() is non-empty
  RegisteredTypes,        \* types the infra provider factory knows
  MaxRequests,            \* requests the caller sends
  StoreUniqueIdentifier   \* the config store refuses a second config of an identifier

ASSUME TemplatedTypes \subseteq RegisteredTypes /\ RegisteredTypes \subseteq ProviderTypes
ASSUME MaxRequests \in Nat \ {0}
ASSUME StoreUniqueIdentifier \in BOOLEAN

NR == Len(InputResources)
Requests == 1..MaxRequests
NoConfig == 0
PCs == {"sanitize", "parent", "create", "find", "provider", "resources",
        "list", "returned"}

VARIABLES
  inputOK,    \* check.Identifier accepts the input's identifiers
  provType,   \* the input's provider type
  configs,    \* persisted configs of the identifier, by the request that created each
  resources,  \* persisted resources: [config, res]
  req,        \* the request in progress
  pc,         \* where it is
  inDB,       \* infraProviderConfiginDB: the config FindByIdentifier returned
  i,          \* the next input resource of the loop at line 111
  responses   \* request -> what it returned

vars == <<inputOK, provType, configs, resources, req, pc, inDB, i, responses>>

NoResponse == [kind |-> "none", config |-> NoConfig, res |-> {}]
ErrorResponse == [kind |-> "error", config |-> NoConfig, res |-> {}]
Responses == {NoResponse, ErrorResponse}
             \cup [kind : {"ok"}, config : Requests, res : SUBSET Range(InputResources)]

Init ==
  /\ inputOK \in BOOLEAN
  /\ provType \in ProviderTypes
  /\ configs = {}
  /\ resources = {}
  /\ req = 1
  /\ pc = "sanitize"
  /\ inDB = NoConfig
  /\ i = 1
  /\ responses = [r \in Requests |-> NoResponse]

\* The request returns an error; the caller sends the next one, if any.
Fail ==
  /\ responses' = [responses EXCEPT ![req] = ErrorResponse]
  /\ IF req < MaxRequests
       THEN /\ req' = req + 1 /\ pc' = "sanitize" /\ inDB' = NoConfig /\ i' = 1
       ELSE /\ pc' = "returned" /\ UNCHANGED <<req, inDB, i>>
  /\ UNCHANGED <<inputOK, provType, configs, resources>>

\* Lines 62-64, 143-153: check.Identifier on the config and every resource.
Sanitize ==
  /\ pc = "sanitize"
  /\ \/ /\ inputOK
        /\ pc' = "parent"
        /\ UNCHANGED <<inputOK, provType, configs, resources, req, inDB, i, responses>>
     \/ /\ ~inputOK
        /\ Fail

\* Lines 65-78: find the parent space and check the edit permission.
FindParent ==
  /\ pc = "parent"
  /\ \/ /\ pc' = "create"
        /\ UNCHANGED <<inputOK, provType, configs, resources, req, inDB, i, responses>>
     \/ Fail

\* Lines 79-90: infraProviderConfigStore.Create, committed on its own.
CreateConfig ==
  /\ pc = "create"
  /\ \/ /\ ~(StoreUniqueIdentifier /\ configs # {})
        /\ configs' = configs \cup {req}
        /\ pc' = "find"
        /\ UNCHANGED <<inputOK, provType, resources, req, inDB, i, responses>>
     \/ Fail

\* Lines 91-97: FindByIdentifier returns a config of the identifier.
FindConfig ==
  /\ pc = "find"
  /\ \/ \E cf \in configs :
          /\ inDB' = cf
          /\ pc' = "provider"
          /\ UNCHANGED <<inputOK, provType, configs, resources, req, i, responses>>
     \/ Fail

\* Lines 98-110: GetInfraProvider fails for an unregistered type, a type
\* with template parameters fails ("TODO Implement"), ValidateParams may fail.
CheckProvider ==
  /\ pc = "provider"
  /\ \/ /\ provType \in RegisteredTypes \ TemplatedTypes
        /\ pc' = IF NR = 0 THEN "list" ELSE "resources"
        /\ UNCHANGED <<inputOK, provType, configs, resources, req, inDB, i, responses>>
     \/ Fail

\* Mutant of NextResource: the loop runs one resource past the end.
NextResourceLong(k) == IF k > NR THEN "list" ELSE "resources"

\* Mutant of NextResource: the loop stops one resource early.
NextResourceShort(k) == IF k + 1 >= NR THEN "list" ELSE "resources"

\* Lines 111 and 133: the loop goes on to the next input resource.
NextResource(k) == IF k = NR THEN "list" ELSE "resources"

\* Lines 111-133: infraProviderResourceStore.Create for one input resource,
\* under the config read back at line 91.
CreateResource ==
  /\ pc = "resources"
  /\ \/ /\ resources' = resources \cup {[config |-> inDB, res |-> InputResources[i]]}
        /\ pc' = NextResource(i)
        /\ i' = i + 1
        /\ UNCHANGED <<inputOK, provType, configs, req, inDB, responses>>
     \/ Fail

\* Lines 134-140: list the config's resources and return the config.
ListResources ==
  /\ pc = "list"
  /\ \/ /\ responses' = [responses EXCEPT ![req] =
                           [kind |-> "ok", config |-> inDB,
                            res |-> {r.res : r \in {x \in resources : x.config = inDB}}]]
        /\ pc' = "returned"
        /\ UNCHANGED <<inputOK, provType, configs, resources, req, inDB, i>>
     \/ Fail

\* Every request has been answered.
Finished ==
  /\ pc = "returned"
  /\ UNCHANGED vars

Next ==
  \/ Sanitize \/ FindParent \/ CreateConfig \/ FindConfig \/ CheckProvider
  \/ CreateResource \/ ListResources \/ Finished

Spec == Init /\ [][Next]_vars

-----------------------------------------------------------------------------
(***************************************************************************)
(* Properties.                                                             *)
(***************************************************************************)

\* Types; inside the resource loop the index names an input resource.
TypeOK ==
  /\ inputOK \in BOOLEAN
  /\ provType \in ProviderTypes
  /\ configs \subseteq Requests
  /\ resources \subseteq [config : configs, res : Range(InputResources)]
  /\ req \in Requests
  /\ pc \in PCs
  /\ inDB \in configs \cup {NoConfig}
  /\ i \in 1..(NR + 1)
  /\ pc = "resources" => i \in 1..NR
  /\ responses \in [Requests -> Responses]

\* A Create that returns the config returns one it created itself, with
\* exactly the input's resources, however many earlier requests failed
\* part-way and left rows behind.
SuccessIsCleanCreate ==
  \A r \in Requests :
    responses[r].kind = "ok" =>
      /\ responses[r].config = r
      /\ responses[r].res = Range(InputResources)

\* The handler's error return: a Create that returned an error left no
\* config behind.
FailedCreateLeavesNothing ==
  \A r \in Requests : responses[r].kind = "error" => r \notin configs

=============================================================================
