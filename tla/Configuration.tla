--------------------------- MODULE Configuration ---------------------------
(***************************************************************************)
(* configuration.py and credentials.py: which binding files load, which of *)
(* them select a plan's roles, and where a binding's credential is found;  *)
(* beside them what the adapters of reviewers/providers.py ask for before  *)
(* they send anything.  The three places decide apart from one another     *)
(* what a usable binding is.                                               *)
(*                                                                         *)
(* Of a setting the model keeps whether it is there, of an endpoint its    *)
(* kind, of a credential where it was found.                               *)
(***************************************************************************)
CONSTANTS References,   \* the named credential references
          Absent,       \* no reference
          Literal       \* a reference that looks like a secret, or no name

ASSUME ReferenceAssumption == {Absent, Literal} \cap References = {}

Compatible == {"openai-compatible", "xai", "bedrock-openai-compatible"}
Bedrock == {"bedrock-iam", "bedrock-converse"}
Transports == Compatible \cup Bedrock
                \cup {"fake", "gemini", "openai", "anthropic", "azure-ai-foundry", "oauth"}

Chains == {"aws-chain", "workload"}
Variables == {"environment", "env", "dotenv"}
Sources == {"none", "keychain", "external"} \cup Chains \cup Variables

(* https; http to this machine; http to another; with a query or user.     *)
Endpoints == {"absent", "https", "loopback", "http", "decorated"}

ProviderBinding ==
  [transport : Transports, credential_source : Sources,
   credential_ref : References \cup {Absent, Literal},
   endpoint : Endpoints, allow_local_http : BOOLEAN, region : BOOLEAN,
   deployment : BOOLEAN, vertex : BOOLEAN, structured_output : BOOLEAN]

-----------------------------------------------------------------------------
(* validate_safe_binding, part by part.                                    *)
ReferenceOK(b) ==
  \/ b.credential_source = "none" /\ b.credential_ref = Absent
  \/ /\ b.credential_source \in Chains
     /\ b.transport = "bedrock-iam" /\ b.credential_ref = Absent
  \/ b.credential_source \notin {"none"} \cup Chains /\ b.credential_ref \in References

EndpointSafe(b) == \/ b.endpoint \in {"absent", "https"}
                   \/ b.endpoint = "loopback" /\ b.allow_local_http

(* Mutant of SettingsOK: the region is asked of bedrock-iam only.          *)
SettingsRegionless(b) ==
  /\ b.transport = "bedrock-iam" => b.region
  /\ b.transport \in Compatible \cup {"azure-ai-foundry"} => b.endpoint # "absent"
  /\ b.transport = "azure-ai-foundry" => b.deployment
  /\ b.transport = "gemini" => ~b.vertex

SettingsOK(b) ==
  /\ b.transport \in Bedrock => b.region
  /\ b.transport \in Compatible \cup {"azure-ai-foundry"} => b.endpoint # "absent"
  /\ b.transport = "azure-ai-foundry" => b.deployment
  /\ b.transport = "gemini" => ~b.vertex

ValidBinding(b) == ReferenceOK(b) /\ EndpointSafe(b) /\ SettingsOK(b)

(* load_configuration: the file is outside the repository and parses, the  *)
(* bindings are valid, and the roles name bindings that are there.         *)
Loads(file) == /\ file.parses
               /\ \A name \in DOMAIN file.bindings : ValidBinding(file.bindings[name])
               /\ \A role \in DOMAIN file.roles : file.roles[role] \in DOMAIN file.bindings

BindingFor(file, role) == file.bindings[file.roles[role]]

Supported == Compatible \cup {"fake", "gemini", "bedrock-converse"}

(* validate_selected_roles                                                 *)
Selects(file, roles) ==
  \A role \in roles : /\ role \in DOMAIN file.roles
                      /\ BindingFor(file, role).structured_output
                      /\ BindingFor(file, role).transport \in Supported

-----------------------------------------------------------------------------
(* What resolve_credential looks at beside the environment of the process: *)
(* the dotenv file (missing, refused by load_dotenv, or read, and then what *)
(* it holds) and the key ring.                                             *)
Surroundings == [dotenv : {"missing", "refused", "read"},
                 holds : SUBSET References, keychain : SUBSET References]

Found == {"process", "dotenv", "keychain"}

(* Where the credential is found; "nothing" when the call returns none,    *)
(* "unavailable" when it raises.  A dotenv file that lacks the reference   *)
(* is no error here.                                                       *)
Resolve(b, environment, at) ==
  IF b.credential_source \in {"none"} \cup Chains THEN "nothing"
  ELSE IF b.credential_source = "keychain" /\ b.credential_ref \in at.keychain THEN "keychain"
  ELSE IF b.credential_source \notin Variables THEN "unavailable"
  ELSE IF b.credential_ref \in environment THEN "process"
  ELSE IF at.dotenv # "read" THEN "unavailable"
  ELSE IF b.credential_ref \in at.holds THEN "dotenv" ELSE "nothing"

(* The adapter gets as far as the request: its headers need a credential,  *)
(* its URL a region or an endpoint, and the URL must be safe.              *)
Ready(b, credential) ==
  /\ credential \in Found
  /\ \/ b.transport = "gemini" /\ EndpointSafe(b)
     \/ b.transport = "bedrock-converse" /\ b.region
     \/ b.transport \in Compatible /\ b.endpoint # "absent" /\ EndpointSafe(b)
=============================================================================
