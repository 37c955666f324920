------------------------------- MODULE Config -------------------------------
(***************************************************************************)
(* Config::load: the sections of the JSON file are parsed one after the    *)
(* other into the members of Config.  The first entry that lacks a field,  *)
(* or has one of the wrong type, throws; loadFromFile catches everything   *)
(* and says nothing, and what was parsed until then stays in force.        *)
(*                                                                         *)
(* A section of the file is Absent, not of the expected type (Mistyped),   *)
(* or a sequence of entries; an entry is a record, Skipped (not a JSON     *)
(* object), or Broken (its parsing throws).                                *)
(***************************************************************************)
EXTENDS Policies, Lists

CONSTANTS
  File,           \* the contents config.json may have
  Unreadable,     \* it cannot be opened, is not JSON, or not a JSON object
  Absent, Mistyped, Skipped, Broken,
  Unnamed,        \* a profile without "name"
  urldefault, am_default,   \* the names such profiles get
  ens34,          \* the external interface
  ProfileName,    \* names of profiles, those that no profile has included
  ProfileList,    \* what a profile lists: domains, or hashes
  Spelling,       \* what "action" may say
  lowercase,      \* std::tolower, for each character of a spelling
  MaskModulus     \* a mask is a uint32_t: 2^32 in the program

ASSUME MaskAssumption == MaskModulus \in Nat /\ AddressBits < MaskModulus

Section(Entry) == {Absent, Mistyped} \cup Seq(Entry \cup {Skipped, Broken})

NatEntry ==
  [src_network : IPv4Address, src_mask : Int,
   dest_network : IPv4Address, dest_mask : Int]

ProfileEntry == [name : ProfileName \cup {Unnamed}, list : ProfileList]

PolicyEntry ==
  [src_network : IPv4Address, src_mask : Int,
   dest_network : IPv4Address, dest_mask : Int,
   action : Spelling, security_profiles : Seq(ProfileName)]

Profile == [name : ProfileName, list : ProfileList]

ASSUME SpellingAssumption ==
  /\ lowercase \in [Spelling -> Spelling]
  /\ {"allow", "deny"} \subseteq Spelling /\ lowercase["allow"] = "allow"

\* An entry that does not throw has its fields, with values of their types;
\* without an action, or with one that is no string, it has the action "deny".
ASSUME FileAssumption ==
  /\ \A content \in File :
       /\ content.nat_policies \in Section(NatEntry)
       /\ content.url_filtering_profiles \in Section(ProfileEntry)
       /\ content.antimalware_profiles \in Section(ProfileEntry)
       /\ content.security_policies \in Section(PolicyEntry)
  /\ urldefault \in ProfileName /\ am_default \in ProfileName
  /\ NoVerdict \notin [action : {"Allow", "Deny"}, security_profiles : Seq(Profile)]

VARIABLES
  file,           \* what config.json holds
  at,             \* the section loadFromFile comes to next
  interface_names, routing_table, nat_policies, url_filtering_profiles,
  antimalware_profiles, security_policies, decryption_profiles

members == <<interface_names, routing_table, nat_policies, url_filtering_profiles,
             antimalware_profiles, security_policies, decryption_profiles>>
vars == <<file, at, members>>

Place == {"open", "interfaces", "routes", "nat_policies", "url_filtering_profiles",
          "antimalware_profiles", "security_policies", "parsed", "caught", "loaded"}

Init ==
  /\ file \in File \cup {Unreadable}
  /\ at = "open"
  /\ interface_names = <<>>
  /\ routing_table = <<>>
  /\ nat_policies = <<>>
  /\ url_filtering_profiles = <<>>
  /\ antimalware_profiles = <<>>
  /\ security_policies = <<>>
  /\ decryption_profiles = <<>>
-----------------------------------------------------------------------------
\* The entries of a section, none if there is no such section.
Entries(section) == IF section \in {Absent, Mistyped} THEN <<>> ELSE section

Throws(section) == Contains(Entries(section), Broken)

\* Mutant: the entry that throws is passed over, not the rest of the file.
ObjectsAround(section) ==
  Without(Entries(section), {Skipped, Broken})

\* The entries that are parsed: all in front of the one that throws.
Objects(section) ==
  LET throwing == SelectInSeq(Entries(section), LAMBDA entry : entry = Broken)
      parsed == IF throwing = 0 THEN Entries(section)
                ELSE SubSeq(Entries(section), 1, throwing - 1)
  IN  Without(parsed, {Skipped})

\* An exception leaves loadFromFile.
GoOn(section, next) == at' = IF Throws(section) THEN "caught" ELSE next

openFile ==
  /\ at = "open"
  /\ at' = IF file = Unreadable THEN "parsed" ELSE "interfaces"
  /\ UNCHANGED <<file, members>>

\* The external interface is added to a list that lacks it.
parseInterfaces ==
  LET names == Objects(file.interfaces)
  IN  /\ at = "interfaces"
      /\ interface_names' =
           IF \/ file.interfaces \in {Absent, Mistyped}
              \/ Throws(file.interfaces)
              \/ Contains(names, ens34)
           THEN names ELSE Append(names, ens34)
      /\ GoOn(file.interfaces, "routes")
      /\ UNCHANGED <<file, routing_table, nat_policies, url_filtering_profiles,
                     antimalware_profiles, security_policies, decryption_profiles>>

parseRoutingTable ==
  /\ at = "routes"
  /\ routing_table' = routing_table \o Objects(file.routes)
  /\ GoOn(file.routes, "nat_policies")
  /\ UNCHANGED <<file, interface_names, nat_policies, url_filtering_profiles,
                 antimalware_profiles, security_policies, decryption_profiles>>

\* Mutant: the number is kept as it is.
MaskAsInt64(number) == number

\* An int64 of the file, as the uint32_t that the policy keeps.
Mask(number) == number % MaskModulus

Networks(entry) ==
  [network_from |-> entry.src_network, network_from_mask |-> Mask(entry.src_mask),
   network_to |-> entry.dest_network, network_to_mask |-> Mask(entry.dest_mask)]

parseNatPolicy ==
  /\ at = "nat_policies"
  /\ nat_policies' = nat_policies \o
       [k \in DOMAIN Objects(file.nat_policies) |->
          Networks(Objects(file.nat_policies)[k])]
  /\ GoOn(file.nat_policies, "url_filtering_profiles")
  /\ UNCHANGED <<file, interface_names, routing_table, url_filtering_profiles,
                 antimalware_profiles, security_policies, decryption_profiles>>

\* The profiles of a section: a name and a list of domains or hashes each.
Profiles(section, default) ==
  [k \in DOMAIN Objects(section) |->
     LET entry == Objects(section)[k]
     IN  [entry EXCEPT !.name = IF @ = Unnamed THEN default ELSE @]]

parseUrlFilteringProfile ==
  /\ at = "url_filtering_profiles"
  /\ url_filtering_profiles' =
       url_filtering_profiles \o Profiles(file.url_filtering_profiles, urldefault)
  /\ GoOn(file.url_filtering_profiles, "antimalware_profiles")
  /\ UNCHANGED <<file, interface_names, routing_table, nat_policies,
                 antimalware_profiles, security_policies, decryption_profiles>>

parseAntimalwareProfile ==
  /\ at = "antimalware_profiles"
  /\ antimalware_profiles' =
       antimalware_profiles \o Profiles(file.antimalware_profiles, am_default)
  /\ GoOn(file.antimalware_profiles, "security_policies")
  /\ UNCHANGED <<file, interface_names, routing_table, nat_policies,
                 url_filtering_profiles, security_policies, decryption_profiles>>
-----------------------------------------------------------------------------
(* parseSecurityPolicy, which looks up the profiles that a policy names.   *)

\* Mutant: antimalware profiles are looked through first.
AntimalwareFirst == antimalware_profiles \o url_filtering_profiles

\* A name is looked for among the URL filtering profiles, then among the others.
AllProfiles == url_filtering_profiles \o antimalware_profiles

\* The first profile of that name; a name that nobody has is passed over.
FindProfile(profiles, name) ==
  LET first == SelectInSeq(profiles, LAMBDA profile : profile.name = name)
  IN  IF first = 0 THEN <<>> ELSE <<profiles[first]>>

Attached(profiles, names) ==
  FoldLeft(LAMBDA attached, name : attached \o FindProfile(profiles, name), <<>>, names)

\* "allow" in any case; anything else is a denial.
Action(string) == IF lowercase[string] = "allow" THEN "Allow" ELSE "Deny"

SecurityPolicy(profiles, entry) ==
  LET net == Networks(entry)
  IN  [network_from |-> net.network_from, network_from_mask |-> net.network_from_mask,
       network_to |-> net.network_to, network_to_mask |-> net.network_to_mask,
       action |-> Action(entry.action),
       security_profiles |-> Attached(profiles, entry.security_profiles)]

DenyAll ==
  [network_from |-> Zero, network_from_mask |-> 0, network_to |-> Zero,
   network_to_mask |-> 0, action |-> "Deny", security_profiles |-> <<>>]

\* The final deny is only reached when no entry throws.
parseSecurityPolicy ==
  LET section == file.security_policies
      parsed == [k \in DOMAIN Objects(section) |->
                   SecurityPolicy(AllProfiles, Objects(section)[k])]
  IN  /\ at = "security_policies"
      /\ security_policies' =
           security_policies \o
             (IF section \in {Absent, Mistyped} \/ Throws(section) THEN parsed
              ELSE parsed \o <<DenyAll>>)
      /\ GoOn(section, "parsed")
      /\ UNCHANGED <<file, interface_names, routing_table, nat_policies,
                     url_filtering_profiles, antimalware_profiles, decryption_profiles>>

\* The end of load.  Nothing parses decryption profiles: there is just this one.
load ==
  /\ at \in {"parsed", "caught"}
  /\ at' = "loaded"
  /\ decryption_profiles' =
       IF decryption_profiles = <<>> THEN <<"default">> ELSE decryption_profiles
  /\ UNCHANGED <<file, interface_names, routing_table, nat_policies,
                 url_filtering_profiles, antimalware_profiles, security_policies>>

Next ==
  \/ openFile \/ parseInterfaces \/ parseRoutingTable \/ parseNatPolicy
  \/ parseUrlFilteringProfile \/ parseAntimalwareProfile \/ parseSecurityPolicy
  \/ load

Spec == Init /\ [][Next]_vars
-----------------------------------------------------------------------------
PolicyNetworks ==
  [network_from : IPv4Address, network_from_mask : 0 .. MaskModulus - 1,
   network_to : IPv4Address, network_to_mask : 0 .. MaskModulus - 1]

TypeOK ==
  /\ at \in Place
  /\ Range(nat_policies) \subseteq PolicyNetworks
  /\ \A policy \in Range(security_policies) :
       /\ policy.network_from_mask \in 0 .. MaskModulus - 1
       /\ policy.network_to_mask \in 0 .. MaskModulus - 1
       /\ policy.action \in {"Allow", "Deny"}
       /\ Range(policy.security_profiles)
            \subseteq Range(url_filtering_profiles) \cup Range(antimalware_profiles)

\* Every section in front of the security policies can be parsed.
ReadsUpToPolicies ==
  /\ file # Unreadable
  /\ \A section \in {file.interfaces, file.routes, file.nat_policies,
                     file.url_filtering_profiles, file.antimalware_profiles} :
       ~ Throws(section)

\* The positions of the file's policies that come in front of any failure.
InForce ==
  {k \in DOMAIN Entries(file.security_policies) :
     /\ ReadsUpToPolicies
     /\ file.security_policies[k] # Skipped
     /\ \A j \in 1 .. k : file.security_policies[j] # Broken}

\* Reference for matchesNetwork: the leading bits are the same.
SamePrefix(address, network, bits) ==
  \A b \in Bit : b < bits => (b \in address <=> b \in network)

Concerns(entry, src, dst) ==
  /\ SamePrefix(src, entry.src_network, entry.src_mask % MaskModulus)
  /\ SamePrefix(dst, entry.dest_network, entry.dest_mask % MaskModulus)

\* "allow", if case is ignored.
Allows(entry) == lowercase[entry.action] = lowercase["allow"]

\* What the first of the entries that concern the packet says.
FirstAction(hits) ==
  LET first == CHOOSE k \in hits : \A j \in hits : k <= j
  IN  IF Allows(file.security_policies[first]) THEN "Allow" ELSE "Deny"

(* For every packet, the firewall does what the first entry of the file     *)
(* that is about the packet says, wherever masks end and even if the file   *)
(* is broken further down; without such an entry it is denied, and it is    *)
(* undecided, hence let through, only if the policies were not read to      *)
(* their end.                                                               *)
FirstEntryDecides ==
  at = "loaded" /\ file # Unreadable =>
    \A src, dst \in IPv4Address :
      LET hits == {k \in InForce : Concerns(file.security_policies[k], src, dst)}
          verdict == Verdict(security_policies, src, dst)
          complete == /\ ReadsUpToPolicies
                      /\ file.security_policies \notin {Absent, Mistyped}
                      /\ ~ Throws(file.security_policies)
      IN  CASE hits # {}             -> /\ verdict # NoVerdict
                                         /\ verdict.action = FirstAction(hits)
            [] hits = {} /\ complete -> verdict # NoVerdict /\ verdict.action = "Deny"
            [] OTHER                 -> verdict = NoVerdict

\* The profile of the file that a policy means by this name.
Named(section, default, name) ==
  LET IsNamed(k) == /\ section[k] # Skipped
                    /\ name = IF section[k].name = Unnamed THEN default
                              ELSE section[k].name
      hits == {k \in DOMAIN Entries(section) : IsNamed(k)}
  IN  IF hits = {} THEN <<>>
      ELSE <<section[CHOOSE k \in hits : \A j \in hits : k <= j].list>>

MeantBy(name) ==
  LET url == Named(file.url_filtering_profiles, urldefault, name)
  IN  IF url # <<>> THEN url ELSE Named(file.antimalware_profiles, am_default, name)

(* A policy is never in force with fewer scans than the file asks for, as a *)
(* result of the order in which sections are parsed or of a failure in one  *)
(* of them: it has the profiles that its names mean in the file, in order.  *)
ProfilesAreAttached ==
  \A k \in DOMAIN security_policies :
    LET entries == Without(Entries(file.security_policies), {Skipped})
        names == entries[k].security_profiles
        meant == Without([n \in DOMAIN names |-> MeantBy(names[n])], {<<>>})
        attached == security_policies[k].security_profiles
    IN  security_policies[k] # DenyAll =>
          [n \in DOMAIN attached |-> <<attached[n].list>>] = meant

=============================================================================
