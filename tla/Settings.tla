--------------------------------- MODULE Settings ---------------------------------
(* How admin/settings.py resolves the settings: the sources are merged      *)
(* field by field in their order, the validators admit or reject the        *)
(* result, and the first admitted one is the process's for good.  The       *)
(* fields kept are those that decide which host and which docker daemon a   *)
(* command reaches.                                                         *)
EXTENDS Integers

CONSTANTS
  Domain,  \* the texts each field may be given, "" among them
  MaxPuts  \* bound: rows put into the sources

VARIABLES
  given,  \* the rows of each source
  config, \* the resolved settings, or that there are none yet
  puts    \* counted for the bound

settingsVars == <<given, config, puts>>

(* The process passes no keywords and keeps no secrets directory.           *)
Source == {"env_settings", "_BareEnvSource", "dotenv_settings"}
Field  == {"stage", "docker_host", "host", "user", "signing_secret"}
Absent == "absent"

(* The groups of settings the fields belong to.                             *)
GroupOf == [stage |-> "infra", docker_host |-> "infra", host |-> "remote", user |-> "remote",
            signing_secret |-> "hook"]

(* The fields that a flat variable reaches: DOCKER_HOST, MAGHZ_REMOTE_HOST, *)
(* MAGHZ_REMOTE_USER.                                                       *)
_BARE_ENV == {"docker_host", "host", "user"}

Remote == {"drive", "onedrive"}

(* The first docker socket that exists, the Colima one as the floor.        *)
_detect_docker_host == "unix"

Default == [stage |-> "local", docker_host |-> _detect_docker_host, host |-> "", user |-> "",
            signing_secret |-> Absent]

(* What a source says: an empty variable counts as absent.                  *)
Provided(source) ==
  [f \in Field |-> IF given[source][f] = "" THEN Absent ELSE given[source][f]]

(* Faulty variant: a group that the stronger source touches is all its own. *)
UpdateByGroup(base, over) ==
  [f \in Field |-> IF \E g \in Field : GroupOf[g] = GroupOf[f] /\ over[g] # Absent
                   THEN over[f] ELSE base[f]]

deep_update(base, over) ==
  [f \in Field |-> IF over[f] # Absent THEN over[f] ELSE base[f]]

(* settings_customise_sources: each source fills what the stronger left.    *)
Resolved ==
  deep_update(Default,
    deep_update(Provided("dotenv_settings"),
      deep_update(Provided("_BareEnvSource"), Provided("env_settings"))))

(* Every remote is seeded; one that is not known stays, to be rejected.     *)
_seed_remotes(provided) == Remote \cup provided

_require_default_lane(lanes) == "default" \in lanes

_require_prd_rows(row) ==
  row.stage = "prd" => row.host # "" /\ row.user # "" /\ row.signing_secret # Absent

(* The daemon of every docker command and provider.                         *)
docker_host(row) ==
  IF row.stage = "prd" THEN <<"ssh", row.user, row.host>> ELSE <<row.docker_host>>

NotYet(tag) == [tag |-> tag, row |-> Default]

SettingsInit ==
  /\ given = [s \in Source |-> [f \in Field |-> Absent]]
  /\ config = NotYet("unresolved") /\ puts = 0

(* What is put after the settings were admitted is not seen any more.       *)
Put(source, f, value) ==
  /\ puts < MaxPuts /\ config.tag # "admitted"
  /\ source = "_BareEnvSource" => f \in _BARE_ENV
  /\ given' = [given EXCEPT ![source][f] = value]
  /\ puts' = puts + 1
  /\ UNCHANGED config

(* The first call resolves; what it admits is cached, a rejection is not.   *)
settings(provided, lanes) ==
  /\ config.tag # "admitted"
  /\ config' =
       IF /\ _seed_remotes(provided) \subseteq Remote
          /\ _require_default_lane(lanes) /\ _require_prd_rows(Resolved)
       THEN [tag |-> "admitted", row |-> Resolved] ELSE NotYet("rejected")
  /\ UNCHANGED <<given, puts>>

SettingsNext ==
  \/ \E source \in Source, f \in Field : \E value \in Domain[f] : Put(source, f, value)
  \/ \E provided \in {{}, {"onedrive", "stray"}}, lanes \in {{"bulk"}, {"default", "bulk"}} :
       settings(provided, lanes)

SettingsSpec == SettingsInit /\ [][SettingsNext]_settingsVars

-------------------------------------------------------------------------------
Says(source, f) == given[source][f] \notin {Absent, ""}

Outranks(s, r) ==
  \/ s = "env_settings" /\ r # "env_settings"
  \/ s = "_BareEnvSource" /\ r = "dotenv_settings"

(* A command reaches what it was told to reach.  However the rows are spread *)
(* over the sources, emptied and put again, each admitted field is that of   *)
(* the strongest source that says anything about it, and the default where   *)
(* none does (settings.py 382-398, 403-413, 460-469); in prd the daemon is   *)
(* one named user and host, whatever DOCKER_HOST says, and in local it is    *)
(* the socket, whatever remote is named (428-457).                           *)
ReachedIsAsGiven ==
  config.tag = "admitted" =>
    /\ \A f \in Field :
         \/ /\ \A s \in Source : ~Says(s, f)
            /\ config.row[f] = Default[f]
         \/ \E s \in Source :
              /\ Says(s, f) /\ config.row[f] = given[s][f]
              /\ \A r \in Source : Says(r, f) => ~Outranks(r, s)
    /\ LET daemon == docker_host(config.row) IN
         IF config.row.stage = "prd"
         THEN /\ daemon[1] = "ssh"
              /\ \E s \in Source : Says(s, "user") /\ daemon[2] = given[s]["user"]
              /\ \E s \in Source : Says(s, "host") /\ daemon[3] = given[s]["host"]
         ELSE daemon = <<config.row.docker_host>>
================================================================================
