------------------------------- MODULE Station -------------------------------
(***************************************************************************)
(* The remote station (remote_station.py, preflight.py, provision.py and   *)
(* the `station` commands): a profile is loaded, the host is checked       *)
(* without touching it, and a plan is printed that an operator carries out *)
(* by hand.  The program only reads; the steps of the plan are what their  *)
(* command previews do to a host.                                          *)
(*                                                                         *)
(* account: "service" is a system account without a login shell, "shell"   *)
(* one with it, "login" a person's account (uid >= 1000) and "root" uid 0. *)
(* A directory is "none", "own" (of the station's account) or "other", and *)
(* `able` is a host with the Python version and the disk the profile needs. *)
(***************************************************************************)
EXTENDS Naturals, Sequences

VARIABLES
    profile,    \* the profile document, or NoProfile
    host,       \* the host the inspector reads and the operator changes
    visit       \* [pc, checked: the plan was built over a preflight, todo, alien]

stationVars == <<profile, host, visit>>

NoProfile == [user |-> ""]
NoHost == [account |-> "none"]
NoVisit == [pc |-> "idle", checked |-> FALSE, todo |-> <<>>, alien |-> FALSE]

StationInit == profile = NoProfile /\ host = NoHost /\ visit = NoVisit

Documents ==
    [user : {"station", "root"}, kind : {"code-server", "ssh-remote"}, port : {22, 8443},
     bind : {"loopback", "every-interface", "routable"}, allow_public_bind : BOOLEAN,
     tool : {"code-server", "packaged"}, tool_required : BOOLEAN]

Hosts ==
    {h \in [account : {"none", "service", "shell", "login", "root"}, keys : BOOLEAN,
             home : {"none", "own", "other"}, workspace : {"none", "own", "other"},
             tool : BOOLEAN, able : BOOLEAN, port_free : BOOLEAN, password : {FALSE}, unit : {FALSE}] :
        /\ h.workspace # "none" => h.home # "none"
        /\ h.keys => h.account # "none" /\ h.home # "none"}

-----------------------------------------------------------------------------
(* remote_station.py *)

(* RemoteIdentity.from_dict *)
IdentityLoads(p) == p.user # "root"

(* RemoteAccess.from_dict: the library calls "every-interface" private. *)
AccessLoads(p) == p.port >= 1024 /\ (p.bind = "routable" => p.allow_public_bind)

RemoteStationProfileLoads(p) == IdentityLoads(p) /\ AccessLoads(p)

is_loopback_or_private(p) == p.bind = "loopback"

-----------------------------------------------------------------------------
(* preflight.py.  SystemHostInspector asks the host, each probe by reading *)
(* only.                                                                   *)
python_and_disk_ok == host.able
has_executable == host.tool
tcp_port_is_free == host.port_free
user_exists == host.account # "none"
user_is_system_account == host.account = "service"
user_has_shell_and_keys == host.account = "shell" /\ host.keys

(* path_is_writable_by: the owner of the nearest directory that is there.  *)
(* The mode bits are those the plan sets: the owner writes, nobody else.   *)
WritableByAccount ==
    \/ host.account = "root"
    \/ IF host.workspace # "none" THEN host.workspace = "own" ELSE host.home = "own"

(* The names of the checks that fail.  _identity_check: an account the     *)
(* plan will create is no failure, nor is the workspace it will own.       *)
IdentityOk ==
    user_exists =>
        IF profile.kind = "ssh-remote" THEN user_has_shell_and_keys ELSE user_is_system_account

WorkspaceOk == user_exists => WritableByAccount

ToolOk == profile.tool_required => has_executable

BindOk == is_loopback_or_private(profile) \/ profile.allow_public_bind

Failures ==
    {check \in {"python-and-disk", "workspace-writable", "tool", "remote-port-free",
                "bind-address-is-private", "identity-user"} :
        CASE check = "python-and-disk" -> ~python_and_disk_ok
          [] check = "workspace-writable" -> ~WorkspaceOk
          [] check = "tool" -> ~ToolOk
          [] check = "remote-port-free" -> ~tcp_port_is_free
          [] check = "bind-address-is-private" -> ~BindOk
          [] check = "identity-user" -> ~IdentityOk}

-----------------------------------------------------------------------------
(* provision.py *)

EditorSteps == <<"create-editor-state", "set-editor-password", "write-systemd-unit">>
SshSteps == <<"prepare-ssh-access", "reuse-sshd">>

(* code-server is in no Debian repository: its installer is downloaded and *)
(* the operator reads it and runs it.                                      *)
ToolStep(p) == IF p.tool = "code-server" THEN "install-code-server" ELSE "ensure-tool"

Steps(p) ==
    <<"create-system-user", "create-home", "create-workspace", ToolStep(p)>>
        \o (IF p.kind = "code-server" THEN EditorSteps ELSE SshSteps)

(* Mutant: the same shell for both kinds of access. *)
ShellAlwaysClosed(p) == "service"

ShellOf(p) == IF p.kind = "ssh-remote" THEN "shell" ELSE "service"

(* build_provision_plan refuses over a failed preflight; without one       *)
(* (`station plan` without --preflight) it asks the host nothing.          *)
Refuses(checked) == checked /\ Failures # {}

(* station plan [--preflight], on some host *)
StationPlan ==
    /\ visit = NoVisit
    /\ profile' \in Documents
    /\ \/ /\ ~RemoteStationProfileLoads(profile')
          /\ visit' = [NoVisit EXCEPT !.pc = "refused"]
          /\ UNCHANGED host
       \/ /\ RemoteStationProfileLoads(profile')
          /\ host' \in Hosts
          /\ \E checked \in BOOLEAN :
               visit' = [NoVisit EXCEPT !.pc = IF Refuses(checked)' THEN "refused" ELSE "planned",
                                        !.checked = checked, !.todo = Steps(profile')]

(* What the command of a step does to the host.  useradd changes nothing   *)
(* when the account is there; install -d also takes over a directory.      *)
Effect(step) ==
    CASE step = "create-system-user" ->
            [host EXCEPT !.account = IF @ = "none" THEN ShellOf(profile) ELSE @]
      [] step = "create-home" -> [host EXCEPT !.home = "own"]
      [] step = "create-workspace" -> [host EXCEPT !.workspace = "own"]
      [] step \in {"ensure-tool", "install-code-server"} -> [host EXCEPT !.tool = TRUE]
      [] step = "set-editor-password" -> [host EXCEPT !.password = TRUE]
      [] step = "write-systemd-unit" ->
            [host EXCEPT !.unit = TRUE, !.port_free = @ /\ ~host.password]
      [] OTHER -> host

(* The operator carries out the next step. *)
CarryOut ==
    /\ visit.pc = "planned" /\ visit.todo # <<>>
    /\ host' = Effect(Head(visit.todo))
    /\ visit' = [visit EXCEPT !.todo = Tail(@)]
    /\ UNCHANGED profile

(* The operator puts the developer's key into authorized_keys. *)
AddKey ==
    /\ visit.pc = "planned" /\ host.account # "none" /\ host.home # "none" /\ ~host.keys
    /\ host' = [host EXCEPT !.keys = TRUE]
    /\ UNCHANGED <<profile, visit>>

(* Something else on the host changes between the preflight and the work:  *)
(* an account of that name is created, the port is taken.                  *)
HostChanges ==
    /\ visit.pc = "planned" /\ ~visit.alien
    /\ \/ host.account = "none" /\ host' = [host EXCEPT !.account = "login"]
       \/ host.port_free /\ host' = [host EXCEPT !.port_free = FALSE]
    /\ visit' = [visit EXCEPT !.alien = TRUE]
    /\ UNCHANGED profile

StationStep == CarryOut \/ AddKey \/ HostChanges

-----------------------------------------------------------------------------
(* Properties *)

(* A plan that was built over a passing preflight, carried out to the end  *)
(* on a host nobody else changes, leaves a host that passes the preflight  *)
(* again, but for the port the station itself now listens on and, for      *)
(* Remote-SSH, the key the plan leaves to the operator.                    *)
PlanMakesReady ==
    visit.pc = "planned" /\ visit.checked /\ visit.todo = <<>> /\ ~visit.alien
        => Failures \subseteq
             {c \in {"remote-port-free", "identity-user"} :
                IF c = "remote-port-free" THEN profile.kind = "code-server"
                ELSE profile.kind = "ssh-remote" /\ ~host.keys}
=============================================================================
