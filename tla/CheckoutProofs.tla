---------------------------- MODULE CheckoutProofs ----------------------------
(***************************************************************************)
(* What holds of a cadre's directory and the node that takes it, for any   *)
(* files, manifests, inputs and keys, and any number of commands, cut      *)
(* writes, edits by hand and passes.                                       *)
(***************************************************************************)
EXTENDS Checkout, FiniteSetTheorems, TLAPS

-----------------------------------------------------------------------------
(* The directory. *)

(* It has its four parts, a manifest and files that can be, and the        *)
(* versions written and the keys made are counted.                         *)
DirTyped ==
  /\ dir = [manifest |-> dir.manifest, files |-> dir.files,
            identity |-> dir.identity, sops |-> dir.sops]
  /\ dir.manifest \in Manifests /\ dir.files \in FileSets
  /\ versions \in Seq(Inputs) /\ Len(versions) <= MaxVersions /\ keys \in 0..MaxKeys

Written ==
  [v : 1..MaxVersions, key : 1..MaxKeys, input : Inputs]

(* Between its two writes, encrypt has the identity of its key in place;   *)
(* after them, what it wrote last, too, until something changes.           *)
SealStands ==
  sealing # No =>
    /\ sealing \in Written /\ dir.identity \in [key : {sealing.key}, here : BOOLEAN]
    /\ told = No /\ sealing.v = Len(versions) + 1

ToldStands ==
  told # No =>
    /\ told \in Written /\ dir.identity \in [key : {told.key}, here : BOOLEAN]
    /\ dir.sops = Encrypt(told.v, {told.key}, told.input)

(* A step changes one part of the directory, or none.                      *)
LEMMA Putting ==
  ASSUME DirTyped, NEW value
  PROVE  /\ Puts("manifest", value) =>
              /\ dir' = [manifest |-> value, files |-> dir.files,
                         identity |-> dir.identity, sops |-> dir.sops]
         /\ Puts("files", value) =>
              /\ dir' = [manifest |-> dir.manifest, files |-> value,
                         identity |-> dir.identity, sops |-> dir.sops]
         /\ Puts("identity", value) =>
              /\ dir' = [manifest |-> dir.manifest, files |-> dir.files,
                         identity |-> value, sops |-> dir.sops]
         /\ Puts("sops", value) =>
              /\ dir' = [manifest |-> dir.manifest, files |-> dir.files,
                         identity |-> dir.identity, sops |-> value]
BY DEF DirTyped, Puts

LEMMA DirStays ==
  ASSUME DirTyped, SealStands, [CNext]_coVars
  PROVE  DirTyped'
<1>0. MaxKeys \in Nat
  BY CheckoutBounds
<1>1. ASSUME dir' = dir, versions' = versions, keys' = keys PROVE DirTyped'
  BY <1>1 DEF DirTyped
<1>2. ASSUME NEW here \in BOOLEAN, SealIdentity(here), versions' = versions PROVE DirTyped'
  <2>1. keys' \in 0..MaxKeys
    BY <1>0, <1>2 DEF SealIdentity, DirTyped
  <2>2. dir' = [manifest |-> dir.manifest, files |-> dir.files,
                identity |-> [key |-> keys', here |-> here], sops |-> dir.sops]
    BY <1>2, Putting DEF SealIdentity
  <2>. QED
    BY <1>2, <2>1, <2>2 DEF DirTyped
<1>3. ASSUME SealFails PROVE DirTyped'
  <2>1. keys' \in 0..MaxKeys /\ versions' = versions
    BY <1>0, <1>3 DEF SealFails, DirTyped
  <2>2. dir' = dir \/ dir' = [manifest |-> dir.manifest, files |-> dir.files,
                              identity |-> Torn, sops |-> dir.sops]
    BY <1>3 DEF SealFails, DirTyped
  <2>. QED
    BY <2>1, <2>2 DEF DirTyped
<1>4. ASSUME NEW v, NEW key, NEW input \in Inputs, Writes(v, key, input), keys' = keys,
             Len(versions) < MaxVersions
      PROVE  DirTyped'
  <2>1. versions' \in Seq(Inputs) /\ Len(versions') <= MaxVersions
    BY <1>4, CheckoutBounds DEF Writes, DirTyped
  <2>2. dir' = [manifest |-> dir.manifest, files |-> dir.files,
                identity |-> dir.identity, sops |-> Encrypt(v, {key}, input)]
    BY <1>4, Putting DEF Writes
  <2>. QED
    BY <1>4, <2>1, <2>2 DEF DirTyped
<1>5. ASSUME EncryptFails PROVE DirTyped'
  <2>1. keys' = keys /\ versions' = versions
    BY <1>5 DEF EncryptFails
  <2>2. dir' = dir \/ dir' = [manifest |-> dir.manifest, files |-> dir.files,
                              identity |-> dir.identity, sops |-> Torn]
    BY <1>5 DEF EncryptFails, DirTyped
  <2>. QED
    BY <2>1, <2>2 DEF DirTyped
<1>6. ASSUME EditDir PROVE DirTyped'
  <2>1. keys' = keys /\ versions' = versions
    BY <1>6 DEF EditDir, Edit
  <2>2. ASSUME NEW m \in Manifests, Puts("manifest", m) PROVE DirTyped'
    BY <2>1, <2>2, Putting DEF DirTyped
  <2>3. ASSUME NEW s \in FileSets, Puts("files", s) PROVE DirTyped'
    BY <2>1, <2>3, Putting DEF DirTyped
  <2>4. ASSUME Puts("identity", Absent) \/ Puts("sops", Absent) PROVE DirTyped'
    BY <2>1, <2>4, Putting DEF DirTyped
  <2>. QED
    BY <1>6, <2>2, <2>3, <2>4 DEF EditDir
<1>7. ASSUME NEW value, Puts("sops", value), versions' = versions, keys' = keys PROVE DirTyped'
  BY <1>7, Putting DEF DirTyped
<1>8. ASSUME EditLines \/ EditMeta PROVE DirTyped'
  BY <1>7, <1>8 DEF EditLines, EditMeta, Edit
<1>9. ASSUME EncryptDone \/ \E input \in Inputs, key \in 1..keys : EncryptTo(input, key)
      PROVE  DirTyped'
  <2>1. EncryptDone => sealing.input \in Inputs /\ Len(versions) < MaxVersions
    BY CheckoutBounds DEF EncryptDone, SealStands, Written, DirTyped
  <2>. QED
    BY <1>4, <1>9, <2>1 DEF EncryptDone, EncryptTo
<1>10. ASSUME NEW here \in BOOLEAN, KeySeal(here) \/ \E input \in Inputs : EncryptSeal(input, here)
       PROVE  DirTyped'
  BY <1>2, <1>10 DEF KeySeal, EncryptSeal
<1>11. CASE Pass \/ UNCHANGED coVars
  BY <1>1, <1>11 DEF Pass, coVars
<1>. QED
  BY <1>3, <1>5, <1>6, <1>8, <1>9, <1>10, <1>11 DEF CNext

(* What encrypt sealed and wrote stands until it goes on, or something     *)
(* else changes the directory.                                             *)
LEMMA SealStays ==
  ASSUME DirTyped, SealStands, ToldStands, [CNext]_coVars
  PROVE  SealStands' /\ ToldStands'
<1>1. CASE UNCHANGED <<dir, sealing, told, versions>>
  BY <1>1 DEF SealStands, ToldStands
<1>2. CASE sealing' = No /\ told' = No
  BY <1>2 DEF SealStands, ToldStands
<1>3. ASSUME NEW input \in Inputs, NEW here \in BOOLEAN, EncryptSeal(input, here)
      PROVE  SealStands' /\ ToldStands'
  <2>1. /\ told' = No /\ sealing' = [v |-> Len(versions) + 1, key |-> keys', input |-> input]
        /\ dir' = [manifest |-> dir.manifest, files |-> dir.files,
                   identity |-> [key |-> keys', here |-> here], sops |-> dir.sops]
    BY <1>3, Putting DEF EncryptSeal, SealIdentity
  <2>2. keys' \in 1..MaxKeys /\ Len(versions) + 1 \in 1..MaxVersions
    BY <1>3, CheckoutBounds DEF EncryptSeal, SealIdentity, DirTyped
  <2>3. sealing' \in Written /\ sealing'.key = keys'
    BY <2>1, <2>2 DEF Written
  <2>4. dir'.identity = [key |-> keys', here |-> here]
    BY <2>1
  <2>5. sealing'.v = Len(versions') + 1 /\ sealing'.key = keys'
    BY <1>3, <2>1 DEF EncryptSeal
  <2>. QED
    BY <2>1, <2>3, <2>4, <2>5 DEF SealStands, ToldStands
<1>4. CASE EncryptDone
  <2>1. /\ sealing \in Written /\ dir.identity \in [key : {sealing.key}, here : BOOLEAN]
        /\ sealing' = No /\ told' = sealing
    BY <1>4 DEF EncryptDone, SealStands
  <2>2. dir'.identity = dir.identity /\ dir'.sops = Encrypt(sealing.v, {sealing.key}, sealing.input)
    BY <1>4, Putting DEF EncryptDone, Writes
  <2>. QED
    BY <2>1, <2>2 DEF SealStands, ToldStands
<1>5. CASE EncryptFails
  <2>1. sealing # No /\ sealing' = No /\ told' = told
    BY <1>5 DEF EncryptFails
  <2>. QED
    BY <2>1 DEF SealStands, ToldStands
<1>. QED
  BY <1>1, <1>2, <1>3, <1>4, <1>5 DEF CNext, KeySeal, SealFails, EncryptTo, EditDir, EditLines, EditMeta, Edit, Pass, coVars

LEMMA AlwaysStands == CSpec => [](DirTyped /\ SealStands /\ ToldStands)
<1>1. CInit => DirTyped /\ SealStands /\ ToldStands
  <2> SUFFICES ASSUME CInit PROVE DirTyped /\ SealStands /\ ToldStands
    OBVIOUS
  <2>1. PICK m \in Manifests, s \in FileSets :
          dir = [manifest |-> m, files |-> s, identity |-> Absent, sops |-> Absent]
    BY DEF CInit
  <2>2. versions = <<>> /\ keys = 0 /\ sealing = No /\ told = No
    BY DEF CInit
  <2>. QED
    BY <2>1, <2>2, CheckoutBounds DEF DirTyped, SealStands, ToldStands
<1>. QED
  BY <1>1, DirStays, SealStays, PTL DEF CSpec

-----------------------------------------------------------------------------
(* What encrypt wrote can be read. *)

(* A file that Encrypt writes opens with its key, and gives back the map   *)
(* it was written from.                                                    *)
LEMMA RoundTrip ==
  ASSUME NEW v \in 1..MaxVersions, NEW k \in 1..MaxKeys, NEW input \in Inputs, ~Unreadable(input)
  PROVE  LET f == Encrypt(v, {k}, input) IN
         Opens(k, f) /\ MapOf(f.lines) = MapOf(input)
<1> DEFINE f == Encrypt(v, {k}, input)
           lines == [i \in DOMAIN input |-> Line(v, input[i])]
<1>0. v # Clear /\ DOMAIN lines = DOMAIN input
  BY CheckoutBounds DEF Clear
<1>1. f = [lines |-> lines, at |-> v, age |-> [to |-> {k}, dk |-> v],
           mac |-> [dk |-> v, at |-> v, over |-> ComputeMAC(lines)]]
  BY DEF Encrypt
<1>2. \A i \in DOMAIN input :
        /\ lines[i].key = input[i].key /\ lines[i].path = input[i].key
        /\ lines[i].text = input[i].text
        /\ lines[i].dk = IF input[i].text = <<>> THEN Clear ELSE v
  BY DEF Line
<1> HIDE DEF lines
<1>3. f.lines = lines /\ f.at = v /\ f.age.dk = v /\ f.age.to = {k}
  BY <1>1
<1>4. Verified(f)
  BY <1>1 DEF Verified
<1>5. Parses(f)
  <2>1. f # Torn
    BY InputsTyped
  <2>2. /\ \A i \in DOMAIN lines : lines[i].key # Meta
        /\ \A i, j \in DOMAIN lines : lines[i].key = lines[j].key => i = j
    BY <1>0, <1>2 DEF Unreadable
  <2>. QED
    BY <1>3, <2>1, <2>2 DEF Parses
<1>6. \A i \in DOMAIN lines : ValueOpens(lines[i], v)
  BY <1>0, <1>2 DEF ValueOpens
<1>7. Opens(k, f)
  BY <1>3, <1>4, <1>5, <1>6 DEF Opens
<1>8. MapOf(lines) = MapOf(input)
  <2> SUFFICES ASSUME NEW n \in Names
               PROVE  LET at(ls) == {i \in DOMAIN ls : ls[i].key = n} IN
                      (IF at(lines) = {} THEN Absent ELSE lines[Max(at(lines))].text)
                        = (IF at(input) = {} THEN Absent ELSE input[Max(at(input))].text)
    BY DEF MapOf
  <2>1. {i \in DOMAIN lines : lines[i].key = n} = {i \in DOMAIN input : input[i].key = n}
    BY <1>0, <1>2
  <2> DEFINE at == {i \in DOMAIN input : input[i].key = n}
  <2>2. CASE at # {}
    <3>1. PICK i \in at : TRUE
      BY <2>2
    <3>2. at = {i} /\ i \in Int
      <4>1. DOMAIN input \subseteq Int
        BY InputsTyped
      <4>. QED
        BY <3>1, <4>1 DEF Unreadable
    <3>3. Max({i}) = i
      BY <3>2 DEF Max
    <3>4. input[i].text = lines[i].text
      BY <1>2, <3>1
    <3>. QED
      BY <2>1, <3>2, <3>3, <3>4
  <2>. QED
    BY <2>1, <2>2
<1>. QED
  BY <1>3, <1>7, <1>8

(* When `secrets encrypt --seal-to` has said that it is done, its input is *)
(* what the nodes it sealed to read, whatever was cut short before.        *)
THEOREM DoneCanBeRead == CSpec => []DoneIsReadable
<1>1. DirTyped /\ SealStands /\ ToldStands => DoneIsReadable
  <2> SUFFICES ASSUME ToldStands, told # No, ~Unreadable(told.input)
               PROVE  /\ dir.identity \in [key : {told.key}, here : BOOLEAN]
                      /\ Opens(told.key, dir.sops)
                      /\ MapOf(dir.sops.lines) = MapOf(told.input)
    BY DEF DoneIsReadable
  <2>1. told.v \in 1..MaxVersions /\ told.key \in 1..MaxKeys /\ told.input \in Inputs
    BY DEF ToldStands, Written
  <2>. QED
    BY <2>1, RoundTrip DEF ToldStands
<1>. QED
  BY <1>1, AlwaysStands, PTL

-----------------------------------------------------------------------------
(* What a node applies. *)

(* The files that a pass writes for a directory that loads.                *)
LEMMA LoadedFiles ==
  ASSUME DirTyped, Loads(dir)
  PROVE  /\ \A f, g \in FilesOf(dir) :
              f # g /\ Serves(f) = Serves(g) =>
                f.unit = "quadlet" /\ g.unit = "quadlet" /\ Prune # f.gen
         /\ \A f \in FilesOf(dir) : f.env \subseteq {g.name : g \in FilesOf(dir)}
<1>1. /\ dir.files \subseteq File /\ \A f, g \in dir.files : f.name = g.name => f = g
      /\ \A f \in dir.files : (f.gen # Absent => f.unit = "quadlet") /\ (f.env # {} => f.unit # "support")
  BY CheckoutBounds, FilesMakeSense DEF DirTyped
<1>2. /\ \A f \in dir.files : f.name # Prune /\ f.gen # Prune
      /\ \A f, g \in dir.files : f.gen # g.name
      /\ \A f \in dir.files : f.unit # "support" => f.env \subseteq {g.name : g \in dir.files}
  BY DEF Loads, ServicesApart, UnitValid, Named
<1>3. \A f \in FilesOf(dir) : f \in dir.files \/ f = PruneUnit
  BY DEF FilesOf, Synthesized
<1>4. ASSUME NEW f \in FilesOf(dir), NEW g \in FilesOf(dir), f # g, Serves(f) = Serves(g)
      PROVE  f.unit = "quadlet" /\ g.unit = "quadlet" /\ Prune # f.gen
  <2>1. PruneUnit.gen = Absent /\ PruneUnit.name = Prune
    BY DEF PruneUnit
  <2>2. f \in dir.files /\ g \in dir.files
    BY <1>2, <1>3, <1>4, <2>1 DEF Serves
  <2>3. f.gen # Absent /\ g.gen # Absent
    BY <1>1, <1>2, <1>4, <2>2 DEF Serves
  <2>. QED
    BY <1>1, <1>2, <2>2, <2>3
<1>5. ASSUME NEW f \in FilesOf(dir) PROVE f.env \subseteq {g.name : g \in FilesOf(dir)}
  <2>1. {g.name : g \in dir.files} \subseteq {g.name : g \in FilesOf(dir)}
    BY DEF FilesOf
  <2>2. f \in dir.files => f.env \subseteq {g.name : g \in dir.files}
    BY <1>1, <1>2
  <2>3. f = PruneUnit => f.env = {}
    BY DEF PruneUnit
  <2>. QED
    BY <1>3, <2>1, <2>2, <2>3
<1>. QED
  BY <1>4, <1>5

(* What a pass leaves of the node's state. *)
LEMMA PassDoes ==
  ASSUME DirTyped, Pass, node.files # node'.files \/ node.secrets # node'.secrets
  PROVE  /\ Loads(dir) /\ node'.files = FilesOf(dir) /\ node'.create = dir.manifest.create
         /\ node'.secrets = Selected(dir.manifest.create, Secrets)
         /\ SopsFile(dir) # Absent =>
              Opens(Identity, dir.sops) /\ Selectable(dir.manifest.create, Secrets)
BY DEF Pass, Applies

(* No edit of the directory makes an applied cadre one in which a unit     *)
(* masks another's service or lacks its environment file.                  *)
THEOREM NoServiceMasked == CSpec => []OneFilePerService
<1>1. CInit => OneFilePerService
  BY DEF CInit, OneFilePerService
<1>2. DirTyped /\ OneFilePerService /\ [CNext]_coVars => OneFilePerService'
  <2> SUFFICES ASSUME DirTyped, OneFilePerService, [CNext]_coVars PROVE OneFilePerService'
    OBVIOUS
  <2>1. CASE node'.files = node.files
    BY <2>1 DEF OneFilePerService
  <2>2. CASE node'.files # node.files
    <3>1. Pass
      BY <2>2 DEF CNext, KeySeal, EncryptSeal, SealFails, EncryptDone, EncryptFails, EncryptTo,
                  EditDir, EditLines, EditMeta, Edit, coVars
    <3>2. Loads(dir) /\ node'.files = FilesOf(dir)
      BY <2>2, <3>1, PassDoes
    <3>. QED
      BY <3>2, LoadedFiles DEF OneFilePerService, Serves
  <2>. QED
    BY <2>1, <2>2
<1>. QED
  BY <1>1, <1>2, AlwaysStands, PTL DEF CSpec

(* A secret that the manifest lists is not taken away by any pass.         *)
THEOREM ListedNeverRemoved == CSpec => ListedStay
<1>1. DirTyped /\ [CNext]_coVars =>
        \A k \in dir.manifest.create : node.secrets[k] # Absent => node'.secrets[k] # Absent
  <2> SUFFICES ASSUME DirTyped, [CNext]_coVars, NEW k \in dir.manifest.create,
                      node.secrets[k] # Absent, node'.secrets # node.secrets
               PROVE  node'.secrets[k] # Absent
    OBVIOUS
  <2>1. Pass
    BY DEF CNext, KeySeal, EncryptSeal, SealFails, EncryptDone, EncryptFails, EncryptTo,
           EditDir, EditLines, EditMeta, Edit, coVars
  <2>2. /\ Loads(dir) /\ node'.secrets = Selected(dir.manifest.create, Secrets)
        /\ SopsFile(dir) # Absent => Selectable(dir.manifest.create, Secrets)
    BY <2>1, PassDoes
  <2>3. SopsFile(dir) # Absent
    BY <2>2 DEF Loads, SecretsPresent
  <2>4. k \in Names
    BY CheckoutBounds DEF DirTyped, Manifest
  <2>. QED
    BY <2>2, <2>3, <2>4 DEF Selected, Selectable
<1>. QED
  BY <1>1, AlwaysStands, PTL DEF CSpec, ListedStay

-----------------------------------------------------------------------------
(* The lines of the secrets file.                                          *)

(* A line that is empty or that Encrypt wrote, for its path, in a version. *)
Texts == {<<>>} \cup UNION {{input[i].text : i \in DOMAIN input} : input \in Inputs}

Lines == [key : Names, path : Names, text : Texts, dk : 0..MaxVersions]

Genuine ==
  {l \in Lines : l.dk # Clear =>
     /\ l.dk \in DOMAIN versions
     /\ \E i \in DOMAIN versions[l.dk] : versions[l.dk][i] = [key |-> l.path, text |-> l.text]}

(* Whatever is edited, cut short or merged, the file has no other lines.   *)
LinesGenuine ==
  dir.sops \in {Absent, Torn} \/ ("lines" \in DOMAIN dir.sops /\ dir.sops.lines \in Seq(Genuine))

(* Versions are only added. *)
LEMMA VersionsStay ==
  ASSUME DirTyped, SealStands, [CNext]_coVars
  PROVE  /\ Len(versions) <= Len(versions') /\ versions' \in Seq(Inputs)
         /\ \A v \in DOMAIN versions : v \in DOMAIN versions' /\ versions'[v] = versions[v]
<1>0. versions \in Seq(Inputs)
  BY DEF DirTyped
<1>1. CASE versions' = versions
  BY <1>0, <1>1
<1>2. ASSUME NEW input \in Inputs, versions' = Append(versions, input)
      PROVE  /\ Len(versions) <= Len(versions') /\ versions' \in Seq(Inputs)
             /\ \A v \in DOMAIN versions : v \in DOMAIN versions' /\ versions'[v] = versions[v]
  BY <1>0, <1>2
<1>3. sealing # No => sealing.input \in Inputs
  BY DEF SealStands, Written
<1>4. CASE EncryptDone
  BY <1>2, <1>3, <1>4 DEF EncryptDone, Writes
<1>5. ASSUME NEW input \in Inputs, NEW key, EncryptTo(input, key)
      PROVE  /\ Len(versions) <= Len(versions') /\ versions' \in Seq(Inputs)
             /\ \A v \in DOMAIN versions : v \in DOMAIN versions' /\ versions'[v] = versions[v]
  BY <1>2, <1>5 DEF EncryptTo, Writes
<1>6. ASSUME ~EncryptDone, ~\E input \in Inputs, key \in 1..keys : EncryptTo(input, key)
      PROVE  versions' = versions
  BY <1>6 DEF CNext, KeySeal, EncryptSeal, SealFails, EncryptFails,
       EditDir, EditLines, EditMeta, Edit, Pass, coVars
<1>. QED
  BY <1>1, <1>4, <1>5, <1>6

LEMMA GenuineStays ==
  ASSUME DirTyped, SealStands, [CNext]_coVars
  PROVE  Genuine \subseteq Genuine'
BY VersionsStay DEF Genuine

(* The lines that Encrypt writes in a version are genuine.                 *)
LEMMA WrittenGenuine ==
  ASSUME DirTyped, NEW v \in DOMAIN versions, NEW i \in DOMAIN versions[v]
  PROVE  Line(v, versions[v][i]) \in Genuine
<1> DEFINE kv == versions[v][i]
<1>1. versions[v] \in Inputs /\ v \in 1..MaxVersions /\ v # Clear
  <2>1. versions \in Seq(Inputs) /\ Len(versions) <= MaxVersions /\ MaxVersions \in Nat
    BY CheckoutBounds DEF DirTyped
  <2>. QED
    BY <2>1 DEF Clear
<1>2. kv \in [key : Names, text : {versions[v][j].text : j \in DOMAIN versions[v]}]
  <2>1. PICK S : S = [key : Names, text : {versions[v][j].text : j \in DOMAIN versions[v]}]
    OBVIOUS
  <2>2. versions[v] \in Seq(S)
    BY <1>1, <2>1, InputsTyped
  <2>3. kv \in S
    BY <2>2
  <2>. QED
    BY <2>1, <2>3
<1>3. kv.key \in Names /\ kv.text \in Texts /\ kv = [key |-> kv.key, text |-> kv.text]
  BY <1>1, <1>2 DEF Texts
<1> HIDE DEF kv
<1>4. Line(v, kv) \in Lines
  BY <1>1, <1>3, CheckoutBounds DEF Line, Lines, Clear
<1>5. Line(v, kv).dk # Clear => Line(v, kv).dk = v /\ Line(v, kv).path = kv.key /\ Line(v, kv).text = kv.text
  BY DEF Line
<1>6. versions[v][i] = kv
  BY DEF kv
<1>. QED
  BY <1>3, <1>4, <1>5, <1>6 DEF Genuine

LinesOf(v) == [i \in DOMAIN versions[v] |-> Line(v, versions[v][i])]

AllWritten == \A v \in DOMAIN versions : LinesOf(v) \in Seq(Genuine)

LEMMA EncryptGenuine == DirTyped => AllWritten
<1> SUFFICES ASSUME DirTyped, NEW v \in DOMAIN versions PROVE LinesOf(v) \in Seq(Genuine)
  BY DEF AllWritten
<1>1. versions[v] \in Inputs
  BY DEF DirTyped
<1>2. PICK S : versions[v] \in Seq(S)
  BY <1>1, InputsTyped
<1>3. \A i \in DOMAIN versions[v] : Line(v, versions[v][i]) \in Genuine
  BY WrittenGenuine
<1>. QED
  BY <1>2, <1>3 DEF LinesOf

(* Edits that take away, replace, add or rename lines of the versions.     *)
LEMMA OthersGenuine ==
  ASSUME DirTyped
  PROVE  /\ Others \subseteq Genuine
         /\ \A l \in Genuine, k \in Names : [l EXCEPT !.key = k] \in Genuine
<1>1. \A v \in DOMAIN versions : {Line(v, versions[v][i]) : i \in DOMAIN versions[v]} \subseteq Genuine
  BY WrittenGenuine
<1>2. ASSUME NEW k \in Names PROVE Line(Clear, [key |-> k, text |-> <<>>]) \in Genuine
  BY CheckoutBounds DEF Line, Genuine, Lines, Texts, Clear
<1>3. ASSUME NEW l \in Genuine, NEW k \in Names PROVE [l EXCEPT !.key = k] \in Genuine
  BY DEF Genuine, Lines
<1>4. Others \subseteq Genuine
  <2> SUFFICES ASSUME NEW l \in Others PROVE l \in Genuine
    OBVIOUS
  <2>1. CASE \E v \in DOMAIN versions : l \in {Line(v, versions[v][i]) : i \in DOMAIN versions[v]}
    BY <1>1, <2>1
  <2>2. CASE \E k \in Names \ {Meta} : l = Line(Clear, [key |-> k, text |-> <<>>])
    BY <1>2, <2>2
  <2>3. \/ \E v \in DOMAIN versions : l \in {Line(v, versions[v][i]) : i \in DOMAIN versions[v]}
        \/ \E k \in Names \ {Meta} : l = Line(Clear, [key |-> k, text |-> <<>>])
    BY DEF Others
  <2>. QED
    BY <2>1, <2>2, <2>3
<1>. QED
  BY <1>3, <1>4

LEMMA LinesStay ==
  ASSUME DirTyped, DirTyped', SealStands, LinesGenuine, [CNext]_coVars
  PROVE  LinesGenuine'
<1>1. CASE dir'.sops = dir.sops \/ dir'.sops \in {Absent, Torn}
  <2>1. Seq(Genuine) \subseteq Seq(Genuine')
    BY GenuineStays
  <2>. QED
    BY <1>1, <2>1 DEF LinesGenuine
<1>2. ASSUME NEW v, NEW key, NEW input \in Inputs, Writes(v, key, input), v = Len(versions) + 1
      PROVE  LinesGenuine'
  <2>1. v \in DOMAIN versions' /\ versions'[v] = input
    BY <1>2 DEF Writes, DirTyped
  <2>2. dir'.sops = Encrypt(v, {key}, input)
    BY <1>2, Putting DEF Writes
  <2>3. "lines" \in DOMAIN dir'.sops /\ dir'.sops.lines = [i \in DOMAIN input |-> Line(v, input[i])]
    BY <2>2 DEF Encrypt
  <2>4. (DirTyped => AllWritten)'
    BY EncryptGenuine, PTL
  <2>5. [i \in DOMAIN versions'[v] |-> Line(v, versions'[v][i])] \in Seq(Genuine')
    BY <2>1, <2>4 DEF AllWritten, LinesOf
  <2>6. dir'.sops.lines \in Seq(Genuine')
    BY <2>1, <2>3, <2>5
  <2>. QED
    BY <2>3, <2>6 DEF LinesGenuine
<1>3. ASSUME EditLines PROVE LinesGenuine'
  <2> DEFINE lines == dir.sops.lines
  <2>1. "lines" \in DOMAIN dir.sops /\ lines \in Seq(Genuine) /\ versions' = versions
    BY <1>3 DEF EditLines, Edit, Whole, LinesGenuine
  <2>2. PICK ls : /\ Puts("sops", [dir.sops EXCEPT !.lines = ls])
                  /\ \/ \E i \in DOMAIN lines : ls = RemoveAt(lines, i)
                     \/ \E i \in DOMAIN lines, l \in Others : ls = [lines EXCEPT ![i] = l]
                     \/ \E l \in Others : ls = Append(lines, l)
                     \/ \E i \in DOMAIN lines, k \in Names \ {Meta} : ls = [lines EXCEPT ![i].key = k]
    BY <1>3 DEF EditLines
  <2>3. ls \in Seq(Genuine)
    <3>1. ASSUME NEW i \in DOMAIN lines PROVE RemoveAt(lines, i) \in Seq(Genuine)
      <4>1. SubSeq(lines, 1, i - 1) \in Seq(Genuine) /\ SubSeq(lines, i + 1, Len(lines)) \in Seq(Genuine)
        BY <2>1
      <4>. QED
        BY <4>1 DEF RemoveAt
    <3>2. ASSUME NEW i \in DOMAIN lines, NEW l \in Genuine PROVE [lines EXCEPT ![i] = l] \in Seq(Genuine)
      BY <2>1
    <3>3. ASSUME NEW l \in Genuine PROVE Append(lines, l) \in Seq(Genuine)
      BY <2>1
    <3>4. ASSUME NEW i \in DOMAIN lines, NEW k \in Names PROVE [lines EXCEPT ![i].key = k] \in Seq(Genuine)
      <4>1. [lines EXCEPT ![i].key = k] = [lines EXCEPT ![i] = [lines[i] EXCEPT !.key = k]]
        OBVIOUS
      <4>2. [lines[i] EXCEPT !.key = k] \in Genuine
        BY <2>1, OthersGenuine
      <4>. QED
        BY <3>2, <4>1, <4>2
    <3>. QED
      BY <2>2, <3>1, <3>2, <3>3, <3>4, OthersGenuine
  <2>4. dir'.sops = [dir.sops EXCEPT !.lines = ls]
    BY <2>2, Putting
  <2>5. "lines" \in DOMAIN dir'.sops /\ dir'.sops.lines = ls
    BY <2>1, <2>4
  <2>. QED
    BY <2>1, <2>3, <2>5 DEF LinesGenuine, Genuine
<1>4. ASSUME EditMeta PROVE LinesGenuine'
  <2>1. /\ "lines" \in DOMAIN dir.sops /\ dir.sops.lines \in Seq(Genuine) /\ versions' = versions
    BY <1>4 DEF EditMeta, Edit, Whole, LinesGenuine
  <2>2. PICK v \in DOMAIN versions, field \in {"age", "at", "mac"}, key \in 1..keys :
          Puts("sops", [dir.sops EXCEPT ![field] = Encrypt(v, {key}, versions[v])[field]])
    BY <1>4 DEF EditMeta
  <2>3. dir'.sops = [dir.sops EXCEPT ![field] = Encrypt(v, {key}, versions[v])[field]]
    BY <2>2, Putting
  <2>4. "lines" \in DOMAIN dir'.sops /\ dir'.sops.lines = dir.sops.lines
    BY <2>1, <2>2, <2>3
  <2>. QED
    BY <2>1, <2>4 DEF LinesGenuine, Genuine
<1>5. CASE EncryptDone
  BY <1>2, <1>5 DEF EncryptDone, SealStands, Written
<1>6. ASSUME NEW input \in Inputs, NEW key, EncryptTo(input, key) PROVE LinesGenuine'
  BY <1>2, <1>6 DEF EncryptTo
<1>7. ASSUME NEW here, SealIdentity(here) PROVE dir'.sops = dir.sops
  BY <1>7, Putting DEF SealIdentity
<1>8. CASE SealFails \/ EncryptFails
  BY <1>1, <1>8 DEF SealFails, EncryptFails, DirTyped
<1>9. CASE EditDir
  BY <1>1, <1>9, Putting DEF EditDir
<1>10. CASE Pass \/ UNCHANGED coVars
  BY <1>1, <1>10 DEF Pass, coVars
<1>. QED
  BY <1>1, <1>3, <1>4, <1>5, <1>6, <1>7, <1>8, <1>9, <1>10 DEF CNext, KeySeal, EncryptSeal

-----------------------------------------------------------------------------
(* Letters.  FlattenSeq is recursive: what it has is shown by the least    *)
(* number for which it would not have it.                                  *)

(* A set of numbers that is not empty has a least. *)
LEMMA Least ==
  ASSUME NEW T \in SUBSET Nat, T # {}
  PROVE  \E n \in T : \A m \in T : n <= m
<1> DEFINE R == OpToRel(<, Nat)
<1>1. IsWellFoundedOn(R, Nat)
  BY NatLessThanWellFounded
<1>2. \A x, y \in Nat : x < y => <<x, y>> \in R
  BY DEF OpToRel
<1> HIDE DEF R
<1>3. PICK n \in T : \A m \in T : <<m, n>> \notin R
  BY <1>1, WFMin
<1>4. ASSUME NEW m \in T PROVE n <= m
  <2>1. ~(m < n)
    BY <1>2, <1>3
  <2>. QED
    BY <2>1
<1>. QED
  BY <1>4

(* What holds of 1, and with each number of the next, holds up to n. *)
LEMMA UpTo ==
  ASSUME NEW n \in Nat \ {0}, NEW G \in SUBSET (1..n), 1 \in G,
         \A k \in 1..n : k + 1 \in 1..n /\ k \in G => k + 1 \in G
  PROVE  G = 1..n
<1> SUFFICES ASSUME 1..n \ G # {} PROVE FALSE
  OBVIOUS
<1>1. PICK k \in 1..n \ G : \A m \in 1..n \ G : k <= m
  <2>1. 1..n \ G \in SUBSET Nat
    OBVIOUS
  <2>. QED
    BY <2>1, Least
<1>2. k # 1 /\ k - 1 \in 1..n
  BY <1>1
<1>3. k - 1 \in G
  BY <1>1, <1>2
<1>4. (k - 1) + 1 = k
  BY <1>1
<1>. QED
  BY <1>1, <1>2, <1>3, <1>4

LEMMA Concatenated ==
  ASSUME NEW L, NEW a \in Seq(L), NEW b \in Seq(L)
  PROVE  a \o b \in Seq(L) /\ Len(a \o b) = Len(a) + Len(b)
OBVIOUS

Letters(s, k) == {p \in (1..k) \X Nat : p[2] \in 1..Len(s[p[1]])}

(* FlattenSeq is what its recursion says. *)
LEMMA Flattens ==
  ASSUME NEW L, NEW s \in Seq(Seq(L)), Len(s) # 0
  PROVE  \E f \in [1..Len(s) -> Seq(L)] :
           /\ f[1] = s[1] /\ \A i \in 1..Len(s) : i # 1 => f[i] = f[i - 1] \o s[i]
           /\ FlattenSeq(s) = f[Len(s)]
<1> DEFINE n == Len(s)
           Step(f, k) == [i \in 1..k |-> IF i = 1 THEN s[i] ELSE f[i - 1] \o s[i]]
           G == {k \in 1..n : \E f : f = Step(f, k)}
<1>1. n \in Nat \ {0} /\ \A i \in 1..n : s[i] \in Seq(L)
  OBVIOUS
<1> HIDE DEF n
<1>2. 1 \in G
  <2>1. [i \in 1..1 |-> s[i]] = Step([i \in 1..1 |-> s[i]], 1)
    OBVIOUS
  <2>2. \E f : f = Step(f, 1)
    <3> HIDE DEF Step
    <3>. QED
      BY <2>1
  <2>3. 1 \in 1..n
    BY <1>1
  <2> HIDE DEF Step
  <2>. QED
    BY <2>2, <2>3
<1>3. ASSUME NEW k \in 1..n, k + 1 \in 1..n, k \in G PROVE k + 1 \in G
  <2>1. PICK f : f = Step(f, k)
    BY <1>3
  <2> DEFINE g == [i \in 1..(k + 1) |-> IF i = k + 1 THEN f[k] \o s[k + 1] ELSE f[i]]
  <2>2. g = Step(g, k + 1)
    <3>1. ASSUME NEW i \in 1..(k + 1), i # k + 1 PROVE g[i] = IF i = 1 THEN s[i] ELSE g[i - 1] \o s[i]
      <4>1. i \in 1..k /\ g[i] = f[i] /\ (i # 1 => g[i - 1] = f[i - 1])
        BY <3>1
      <4>2. f[i] = IF i = 1 THEN s[i] ELSE f[i - 1] \o s[i]
        BY <2>1, <4>1
      <4>. QED
        BY <4>1, <4>2
    <3>2. g[k + 1] = g[k] \o s[k + 1] /\ k + 1 # 1 /\ (k + 1) - 1 = k
      <4>1. k \in Nat /\ k >= 1
        BY <1>1
      <4>2. (k + 1) - 1 = k /\ k \in 1..(k + 1) /\ k + 1 \in 1..(k + 1) /\ k # k + 1
        BY <4>1
      <4>3. g[k + 1] = f[k] \o s[k + 1] /\ g[k] = f[k]
        BY <4>2
      <4> HIDE DEF g
      <4>. QED
        BY <4>1, <4>2, <4>3
    <3>. QED
      BY <3>1, <3>2
  <2>. QED
    BY <1>3, <2>2
<1>4. n \in G
  <2>1. G = 1..n
    <3> HIDE DEF G
    <3>1. G \in SUBSET (1..n)
      BY DEF G
    <3>. QED
      BY <1>1, <1>2, <1>3, <3>1, UpTo
  <2>2. n \in 1..n
    BY <1>1
  <2>. QED
    BY <2>1, <2>2
<1> DEFINE fl == CHOOSE f : f = Step(f, n)
<1>5. fl = Step(fl, n)
  BY <1>4
<1>6. FlattenSeq(s) = fl[n]
  BY <1>1 DEF FlattenSeq, n
<1> HIDE DEF fl
<1>7. fl[1] = s[1] /\ \A i \in 1..n : i # 1 => fl[i] = fl[i - 1] \o s[i]
  <2>1. \A i \in 1..n : fl[i] = IF i = 1 THEN s[i] ELSE fl[i - 1] \o s[i]
    BY <1>5
  <2>2. 1 \in 1..n
    BY <1>1
  <2>. QED
    BY <2>1, <2>2
<1>8. \A k \in 1..n : fl[k] \in Seq(L)
  <2> DEFINE H == {k \in 1..n : fl[k] \in Seq(L)}
  <2>1. 1 \in H
    BY <1>1, <1>7
  <2>2. ASSUME NEW k \in 1..n, k + 1 \in 1..n, k \in H PROVE k + 1 \in H
    <3>1. k + 1 # 1 /\ (k + 1) - 1 = k
      BY <1>1
    <3>2. fl[k + 1] = fl[k] \o s[k + 1]
      BY <1>7, <2>2, <3>1
    <3>3. fl[k] \in Seq(L) /\ s[k + 1] \in Seq(L)
      BY <1>1, <2>2
    <3>4. fl[k + 1] \in Seq(L)
      BY <3>2, <3>3, Concatenated
    <3>. QED
      BY <2>2, <3>4
  <2>3. H = 1..n
    <3> HIDE DEF H
    <3>1. H \in SUBSET (1..n)
      BY DEF H
    <3>. QED
      BY <1>1, <2>1, <2>2, <3>1, UpTo
  <2>. QED
    BY <2>3
<1>9. fl \in [1..n -> Seq(L)]
  BY <1>5, <1>8
<1>. QED
  BY <1>6, <1>7, <1>9 DEF n

(* It has as many letters as its parts. *)
LEMMA FlattenCounts ==
  ASSUME NEW L, NEW s \in Seq(Seq(L))
  PROVE  /\ IsFiniteSet(Letters(s, Len(s)))
         /\ Cardinality(Letters(s, Len(s))) = Len(FlattenSeq(s))
<1> DEFINE n == Len(s)
<1>1. CASE n = 0
  <2>1. Letters(s, n) = {}
    BY <1>1 DEF Letters
  <2>2. FlattenSeq(s) = s
    BY <1>1 DEF FlattenSeq
  <2>. QED
    BY <1>1, <2>1, <2>2, FS_EmptySet
<1>2. CASE n # 0
  <2>1. PICK f \in [1..n -> Seq(L)] :
          /\ f[1] = s[1] /\ \A i \in 1..n : i # 1 => f[i] = f[i - 1] \o s[i]
          /\ FlattenSeq(s) = f[n]
    BY <1>2, Flattens
  <2>2. n \in Nat \ {0} /\ \A i \in 1..n : s[i] \in Seq(L)
    BY <1>2
  <2> HIDE DEF n
  <2> DEFINE Of(k) == {k} \X (1..Len(s[k]))
             Counted(k) == /\ IsFiniteSet(Letters(s, k))
                           /\ Cardinality(Letters(s, k)) = Len(f[k])
             G == {k \in 1..n : Counted(k)}
  <2>3. ASSUME NEW k \in 1..n PROVE IsFiniteSet(Of(k)) /\ Cardinality(Of(k)) = Len(s[k])
    <3>1. Len(s[k]) \in Nat
      BY <2>2
    <3>2. IsFiniteSet(1..Len(s[k])) /\ Cardinality(1..Len(s[k])) = Len(s[k])
      <4> DEFINE l == Len(s[k])
      <4> HIDE DEF l
      <4>1. l \in Nat
        BY <3>1 DEF l
      <4>2. IsFiniteSet(1..l) /\ Cardinality(1..l) = IF 1 > l THEN 0 ELSE l - 1 + 1
        BY <4>1, FS_Interval
      <4>3. (IF 1 > l THEN 0 ELSE l - 1 + 1) = l
        BY <4>1
      <4>. QED
        BY <4>2, <4>3 DEF l
    <3>3. IsFiniteSet({k}) /\ Cardinality({k}) = 1
      BY FS_Singleton
    <3>4. IsFiniteSet(Of(k)) /\ Cardinality(Of(k)) = Cardinality({k}) * Cardinality(1..Len(s[k]))
      BY <3>2, <3>3, FS_Product
    <3>. QED
      BY <3>1, <3>2, <3>3, <3>4
  <2>4. 1 \in G
    <3>1. Letters(s, 1) = Of(1)
      BY <2>2 DEF Letters
    <3>2. 1 \in 1..n /\ f[1] = s[1]
      BY <2>1, <2>2
    <3>. QED
      BY <2>3, <3>1, <3>2
  <2>5. ASSUME NEW k \in 1..n, k + 1 \in 1..n, k \in G PROVE k + 1 \in G
    <3>1. Letters(s, k + 1) = Letters(s, k) \cup Of(k + 1)
      BY <2>2, <2>5 DEF Letters
    <3>2. Letters(s, k) \cap Of(k + 1) = {}
      BY <2>2, <2>5 DEF Letters
    <3>3. IsFiniteSet(Letters(s, k)) /\ Cardinality(Letters(s, k)) = Len(f[k])
      BY <2>5
    <3>4. IsFiniteSet(Of(k + 1)) /\ Cardinality(Of(k + 1)) = Len(s[k + 1])
      BY <2>3, <2>5
    <3> HIDE DEF Of
    <3>5. /\ IsFiniteSet(Letters(s, k + 1))
          /\ Cardinality(Letters(s, k + 1)) =
               Cardinality(Letters(s, k)) + Cardinality(Of(k + 1)) - Cardinality({})
      BY <3>1, <3>2, <3>3, <3>4, FS_Union
    <3>6. Cardinality({}) = 0
      BY FS_EmptySet
    <3>7. f[k] \in Seq(L) /\ s[k + 1] \in Seq(L) /\ f[k + 1] = f[k] \o s[k + 1]
      <4>1. k + 1 # 1 /\ (k + 1) - 1 = k
        OBVIOUS
      <4>. QED
        BY <2>1, <2>2, <2>5, <4>1
    <3>8. Len(f[k + 1]) = Len(f[k]) + Len(s[k + 1]) /\ Len(f[k]) \in Nat /\ Len(s[k + 1]) \in Nat
      BY <3>7
    <3>9. Counted(k + 1)
      <4>1. Cardinality(Letters(s, k + 1)) = Len(f[k]) + Len(s[k + 1]) - 0
        BY <3>3, <3>4, <3>5, <3>6
      <4>2. Cardinality(Letters(s, k + 1)) = Len(f[k + 1])
        BY <3>8, <4>1
      <4>. QED
        BY <3>5, <4>2
    <3>. QED
      BY <2>5, <3>9
  <2>6. G = 1..n
    <3> HIDE DEF G
    <3>1. G \in SUBSET (1..n)
      BY DEF G
    <3>. QED
      BY <2>2, <2>4, <2>5, <3>1, UpTo
  <2>7. n \in G
    <3>1. n \in 1..n
      BY <2>2
    <3>. QED
      BY <2>6, <3>1
  <2>. QED
    BY <2>1, <2>7 DEF n
<1>. QED
  BY <1>1, <1>2

SpelledIn(L) == Seq(Seq(L))

(* The parts of s that are not empty are among those of t, each at a place *)
(* of its own.                                                             *)
PlacedIn(s, t, place) ==
  /\ \A i \in DOMAIN s : s[i] # <<>> => place[i] \in DOMAIN t /\ t[place[i]] = s[i]
  /\ \A i, j \in DOMAIN s : s[i] # <<>> /\ s[j] # <<>> /\ place[i] = place[j] => i = j

(* If they are, and s and t have as many letters, then t has no other      *)
(* parts that are not empty.                                               *)
LEMMA SameLetters ==
  ASSUME NEW L, NEW s \in SpelledIn(L), NEW t \in SpelledIn(L), NEW place,
         FlattenSeq(s) = FlattenSeq(t), PlacedIn(s, t, place)
  PROVE  \A k \in DOMAIN t : t[k] # <<>> => \E i \in DOMAIN s : s[i] # <<>> /\ place[i] = k
<1> SUFFICES ASSUME NEW k \in DOMAIN t, t[k] # <<>>
             PROVE  \E i \in DOMAIN s : s[i] # <<>> /\ place[i] = k
  OBVIOUS
<1> USE DEF SpelledIn
<1> DEFINE S == Letters(s, Len(s))
           T == Letters(t, Len(t))
           F == [p \in S |-> <<place[p[1]], p[2]>>]
<1>1. ASSUME NEW p \in S
      PROVE  /\ p[1] \in DOMAIN s /\ s[p[1]] # <<>> /\ p[2] \in 1..Len(s[p[1]])
             /\ p = <<p[1], p[2]>>
  BY DEF Letters
<1>2. F \in [S -> T]
  <2> SUFFICES ASSUME NEW p \in S PROVE <<place[p[1]], p[2]>> \in T
    OBVIOUS
  <2>1. place[p[1]] \in DOMAIN t /\ t[place[p[1]]] = s[p[1]]
    BY <1>1 DEF PlacedIn
  <2>2. place[p[1]] \in 1..Len(t) /\ p[2] \in 1..Len(t[place[p[1]]]) /\ p[2] \in Nat
    BY <1>1, <2>1
  <2>. QED
    BY <2>2 DEF Letters
<1>3. ASSUME NEW p \in S, NEW q \in S, F[p] = F[q] PROVE p = q
  <2>1. place[p[1]] = place[q[1]] /\ p[2] = q[2]
    BY <1>3
  <2>2. p[1] = q[1]
    BY <1>1, <2>1 DEF PlacedIn
  <2>. QED
    BY <1>1, <2>1, <2>2
<1>4. /\ IsFiniteSet(S) /\ Cardinality(S) = Len(FlattenSeq(s))
      /\ IsFiniteSet(T) /\ Cardinality(T) = Len(FlattenSeq(t))
  BY FlattenCounts
<1>5. <<k, 1>> \in T
  <2>1. t[k] \in Seq(L) /\ Len(t[k]) # 0
    OBVIOUS
  <2>2. 1 \in 1..Len(t[k]) /\ k \in 1..Len(t)
    BY <2>1
  <2>. QED
    BY <2>2 DEF Letters
<1> HIDE DEF F, S, T
<1>6. F \in Injection(S, T)
  BY <1>2, <1>3 DEF Injection, IsInjective
<1>7. F \in Surjection(S, T)
  BY <1>4, <1>6, FS_Injection
<1>8. PICK p \in S : F[p] = <<k, 1>>
  BY <1>5, <1>7 DEF Surjection
<1>9. place[p[1]] = k
  BY <1>8 DEF F
<1>. QED
  BY <1>1, <1>9

-----------------------------------------------------------------------------
(* Secrets are of the whole of a version.                                  *)

(* The metadata may be another version's, but the MAC is one of a version. *)
MacOf(v) == [dk |-> v, at |-> v, over |-> ComputeMAC(LinesOf(v))]

MacGenuine ==
  \/ dir.sops \in {Absent, Torn}
  \/ "mac" \in DOMAIN dir.sops /\ \E v \in DOMAIN versions : dir.sops.mac = MacOf(v)

LEMMA EncryptMac ==
  ASSUME NEW v \in DOMAIN versions, NEW to
  PROVE  LET f == Encrypt(v, to, versions[v]) IN "mac" \in DOMAIN f /\ f.mac = MacOf(v)
BY DEF Encrypt, MacOf, LinesOf

LEMMA MacsStay ==
  ASSUME DirTyped, SealStands, [CNext]_coVars, NEW v \in DOMAIN versions
  PROVE  v \in DOMAIN versions' /\ MacOf(v)' = MacOf(v)
<1>1. v \in DOMAIN versions' /\ versions'[v] = versions[v]
  BY VersionsStay
<1>. QED
  BY <1>1 DEF MacOf, LinesOf

LEMMA MacStays ==
  ASSUME DirTyped, DirTyped', SealStands, MacGenuine, [CNext]_coVars
  PROVE  MacGenuine'
<1>1. ASSUME \/ dir'.sops = dir.sops \/ dir'.sops \in {Absent, Torn}
             \/ dir.sops \notin {Absent, Torn} /\ "mac" \in DOMAIN dir'.sops /\ dir'.sops.mac = dir.sops.mac
      PROVE  MacGenuine'
  BY <1>1, MacsStay DEF MacGenuine
<1>2. ASSUME NEW v, NEW key, NEW input \in Inputs, Writes(v, key, input), v = Len(versions) + 1
      PROVE  MacGenuine'
  <2>1. v \in DOMAIN versions' /\ versions'[v] = input
    BY <1>2 DEF Writes, DirTyped
  <2>2. dir'.sops = Encrypt(v, {key}, input)
    BY <1>2, Putting DEF Writes
  <2>3. "mac" \in DOMAIN dir'.sops
        /\ dir'.sops.mac = [dk |-> v, at |-> v, over |-> ComputeMAC([i \in DOMAIN input |-> Line(v, input[i])])]
    BY <2>2 DEF Encrypt
  <2>4. dir'.sops.mac = [dk |-> v, at |-> v,
                         over |-> ComputeMAC([i \in DOMAIN versions'[v] |-> Line(v, versions'[v][i])])]
    BY <2>1, <2>3
  <2>. QED
    BY <2>1, <2>3, <2>4 DEF MacGenuine, MacOf, LinesOf
<1>3. CASE EditLines
  <2>1. dir.sops \notin {Absent, Torn} /\ "mac" \in DOMAIN dir.sops
    BY <1>3 DEF EditLines, Whole, MacGenuine
  <2>2. PICK ls : Puts("sops", [dir.sops EXCEPT !.lines = ls])
    BY <1>3 DEF EditLines
  <2>3. dir'.sops = [dir.sops EXCEPT !.lines = ls]
    BY <2>2, Putting
  <2>. QED
    BY <1>1, <2>1, <2>3
<1>4. CASE EditMeta
  <2>1. dir.sops \notin {Absent, Torn} /\ "mac" \in DOMAIN dir.sops /\ versions' = versions
    BY <1>4 DEF EditMeta, Edit, Whole, MacGenuine
  <2>2. PICK v \in DOMAIN versions, field \in {"age", "at", "mac"}, key \in 1..keys :
          Puts("sops", [dir.sops EXCEPT ![field] = Encrypt(v, {key}, versions[v])[field]])
    BY <1>4 DEF EditMeta
  <2>3. dir'.sops = [dir.sops EXCEPT ![field] = Encrypt(v, {key}, versions[v])[field]]
    BY <2>2, Putting
  <2>4. CASE field # "mac"
    BY <1>1, <2>1, <2>2, <2>3, <2>4
  <2>5. CASE field = "mac"
    <3>1. "mac" \in DOMAIN dir'.sops /\ dir'.sops.mac = MacOf(v)
      BY <2>1, <2>3, <2>5, EncryptMac
    <3>2. v \in DOMAIN versions' /\ MacOf(v)' = MacOf(v)
      BY MacsStay
    <3>. QED
      BY <3>1, <3>2 DEF MacGenuine
  <2>. QED
    BY <2>4, <2>5
<1>5. CASE EncryptDone
  BY <1>2, <1>5 DEF EncryptDone, SealStands, Written
<1>6. ASSUME NEW input \in Inputs, NEW key, EncryptTo(input, key) PROVE MacGenuine'
  BY <1>2, <1>6 DEF EncryptTo
<1>7. ASSUME NEW here, SealIdentity(here) PROVE dir'.sops = dir.sops
  BY <1>7, Putting DEF SealIdentity
<1>8. CASE SealFails \/ EncryptFails
  BY <1>1, <1>8 DEF SealFails, EncryptFails, DirTyped
<1>9. CASE EditDir
  BY <1>1, <1>9, Putting DEF EditDir
<1>10. CASE Pass \/ UNCHANGED coVars
  BY <1>1, <1>10 DEF Pass, coVars
<1>. QED
  BY <1>1, <1>3, <1>4, <1>5, <1>6, <1>7, <1>8, <1>9, <1>10 DEF CNext, KeySeal, EncryptSeal

Alphabet == UNION {Range(text) : text \in Texts}

LEMMA TextsSpelled == Texts \subseteq Seq(Alphabet)
<1> SUFFICES ASSUME NEW text \in Texts PROVE text \in Seq(Alphabet)
  OBVIOUS
<1>1. CASE text = <<>>
  BY <1>1
<1>2. ASSUME NEW input \in Inputs, NEW i \in DOMAIN input, text = input[i].text
      PROVE  text \in Seq(Alphabet)
  <2>1. text \in Seq(Range(text))
    BY <1>2, InputsTyped
  <2>2. Range(text) \subseteq Alphabet
    BY DEF Alphabet
  <2>. QED
    BY <2>1, <2>2
<1>. QED
  BY <1>1, <1>2 DEF Texts

LEMMA LinesSpelled == \A l \in Genuine : l.text \in Seq(Alphabet)
<1>1. \A l \in Genuine : l.text \in Texts
  BY DEF Genuine, Lines
<1>. QED
  BY <1>1, TextsSpelled

(* The place in version v of a line that opens. *)
Place(lines, v) ==
  [i \in DOMAIN lines |-> CHOOSE k \in DOMAIN versions[v] :
     versions[v][k] = [key |-> lines[i].key, text |-> lines[i].text]]

(* A file that decrypts has every value of its version that is not empty,  *)
(* and each once: the MAC is over as many letters as that version has.     *)
LEMMA WholeVersion ==
  ASSUME DirTyped, NEW f, NEW id, Opens(id, f), f.lines \in Seq(Genuine),
         NEW v \in DOMAIN versions, f.mac = MacOf(v)
  PROVE  LET place == Place(f.lines, v) IN
         /\ \A i \in DOMAIN f.lines : f.lines[i].text # <<>> =>
              /\ place[i] \in DOMAIN versions[v]
              /\ versions[v][place[i]] = [key |-> f.lines[i].key, text |-> f.lines[i].text]
         /\ \A k \in DOMAIN versions[v] : versions[v][k].text # <<>> =>
              \E i \in DOMAIN f.lines : f.lines[i].text # <<>> /\ place[i] = k
<1> DEFINE lines == f.lines
           place == Place(lines, v)
           s == [i \in DOMAIN lines |-> lines[i].text]
           t == [i \in DOMAIN LinesOf(v) |-> LinesOf(v)[i].text]
<1>1. /\ f.age.dk = v /\ f.mac.over = ComputeMAC(lines)
      /\ \A i \in DOMAIN lines : ValueOpens(lines[i], v)
      /\ \A i, j \in DOMAIN lines : lines[i].key = lines[j].key => i = j
  BY DEF Opens, Parses, Verified, MacOf
<1>2. lines \in Seq(Genuine)
  OBVIOUS
<1>3. ASSUME NEW i \in DOMAIN lines, lines[i].text # <<>>
      PROVE  /\ place[i] \in DOMAIN versions[v]
             /\ versions[v][place[i]] = [key |-> lines[i].key, text |-> lines[i].text]
  <2> DEFINE l == lines[i]
  <2>1. l \in Genuine /\ ValueOpens(l, v) /\ l.text # <<>>
    BY <1>1, <1>2, <1>3
  <2> HIDE DEF l
  <2>2. l.dk = v /\ l.path = l.key /\ l.dk # Clear
    BY <2>1 DEF ValueOpens
  <2>3. \E k \in DOMAIN versions[v] : versions[v][k] = [key |-> l.key, text |-> l.text]
    BY <2>1, <2>2 DEF Genuine
  <2>4. place[i] = CHOOSE k \in DOMAIN versions[v] : versions[v][k] = [key |-> l.key, text |-> l.text]
    BY DEF Place, l
  <2>. QED
    BY <2>3, <2>4 DEF l
<1>4. ASSUME NEW i \in DOMAIN lines, lines[i].text # <<>>
       PROVE  /\ place[i] \in DOMAIN versions[v]
              /\ versions[v][place[i]].key = lines[i].key /\ versions[v][place[i]].text = lines[i].text
  <2>1. /\ place[i] \in DOMAIN versions[v]
        /\ versions[v][place[i]] = [key |-> lines[i].key, text |-> lines[i].text]
    BY <1>3, <1>4
  <2> HIDE DEF place, lines
  <2>. QED
    BY <2>1
<1>5. s \in Seq(Seq(Alphabet))
  <2>1. \A i \in DOMAIN lines : lines[i].text \in Seq(Alphabet)
    <3>1. \A i \in DOMAIN lines : lines[i] \in Genuine
      BY <1>2
    <3>. QED
      BY <3>1, LinesSpelled
  <2>2. DOMAIN lines = 1..Len(lines) /\ Len(lines) \in Nat
    BY <1>2
  <2>. QED
    BY <2>1, <2>2
<1>6. LinesOf(v) \in Seq(Genuine)
  BY EncryptGenuine DEF AllWritten
<1>7. t \in Seq(Seq(Alphabet)) /\ DOMAIN t = DOMAIN versions[v]
      /\ \A k \in DOMAIN versions[v] : t[k] = versions[v][k].text
  <2>1. \A i \in DOMAIN LinesOf(v) : LinesOf(v)[i].text \in Seq(Alphabet)
    <3>1. \A i \in DOMAIN LinesOf(v) : LinesOf(v)[i] \in Genuine
      BY <1>6
    <3>. QED
      BY <3>1, LinesSpelled
  <2>2. DOMAIN LinesOf(v) = 1..Len(LinesOf(v)) /\ Len(LinesOf(v)) \in Nat
    BY <1>6
  <2>3. t \in Seq(Seq(Alphabet))
    <3> HIDE DEF LinesOf
    <3>. QED
      BY <2>1, <2>2
  <2>4. DOMAIN LinesOf(v) = DOMAIN versions[v]
        /\ \A k \in DOMAIN versions[v] : LinesOf(v)[k].text = versions[v][k].text
    BY DEF LinesOf, Line
  <2>. QED
    BY <2>3, <2>4
<1>8. FlattenSeq(s) = FlattenSeq(t)
  BY <1>1 DEF MacOf, ComputeMAC
<1> HIDE DEF t, place
<1>9. ASSUME NEW i \in DOMAIN s, s[i] # <<>> PROVE place[i] \in DOMAIN t /\ t[place[i]] = s[i]
  <2>1. lines[i].text # <<>> /\ i \in DOMAIN lines /\ s[i] = lines[i].text
    BY <1>9
  <2>2. place[i] \in DOMAIN versions[v] /\ versions[v][place[i]].text = lines[i].text
    BY <1>4, <2>1
  <2>. QED
    BY <1>7, <2>1, <2>2
<1>10. ASSUME NEW i \in DOMAIN s, NEW j \in DOMAIN s, s[i] # <<>>, s[j] # <<>>, place[i] = place[j]
      PROVE  i = j
  <2>1. lines[i].text # <<>> /\ i \in DOMAIN lines /\ lines[j].text # <<>> /\ j \in DOMAIN lines
    BY <1>10
  <2>2. versions[v][place[i]].key = lines[i].key /\ versions[v][place[j]].key = lines[j].key
    BY <1>4, <2>1
  <2>3. lines[i].key = lines[j].key
    BY <1>10, <2>2
  <2>. QED
    BY <1>1, <2>1, <2>3
<1>11. ASSUME NEW k \in DOMAIN versions[v], versions[v][k].text # <<>>
       PROVE  \E i \in DOMAIN lines : lines[i].text # <<>> /\ place[i] = k
  <2>1. k \in DOMAIN t /\ t[k] # <<>>
    BY <1>7, <1>11
  <2> HIDE DEF s
  <2>2. \A i \in DOMAIN s : s[i] # <<>> => place[i] \in DOMAIN t /\ t[place[i]] = s[i]
    BY <1>9
  <2>3. \A i, j \in DOMAIN s : s[i] # <<>> /\ s[j] # <<>> /\ place[i] = place[j] => i = j
    BY <1>10
  <2>4. PlacedIn(s, t, place)
    BY <2>2, <2>3 DEF PlacedIn
  <2>5. s \in SpelledIn(Alphabet) /\ t \in SpelledIn(Alphabet) /\ FlattenSeq(s) = FlattenSeq(t)
    BY <1>5, <1>7, <1>8 DEF SpelledIn
  <2>6. PICK i \in DOMAIN s : s[i] # <<>> /\ place[i] = k
    BY <2>1, <2>5, <2>4, SameLetters
  <2>. QED
    BY <2>6 DEF s
<1>. QED
  BY <1>3, <1>11 DEF place

(* So its map is that of its version, but for empty values. *)
LEMMA VersionRead ==
  ASSUME DirTyped, NEW f, NEW id, Opens(id, f), f.lines \in Seq(Genuine),
         NEW v \in DOMAIN versions, f.mac = MacOf(v)
  PROVE  NonEmpty(MapOf(f.lines)) = ValuesOf(versions[v])
<1> DEFINE lines == f.lines
           input == versions[v]
           place == Place(lines, v)
<1>1. /\ \A i \in DOMAIN lines : lines[i].text # <<>> =>
           /\ place[i] \in DOMAIN input
           /\ input[place[i]] = [key |-> lines[i].key, text |-> lines[i].text]
      /\ \A k \in DOMAIN input : input[k].text # <<>> =>
           \E i \in DOMAIN lines : lines[i].text # <<>> /\ place[i] = k
  BY WholeVersion
<1>2. ASSUME NEW i \in DOMAIN lines, lines[i].text # <<>>
      PROVE  /\ place[i] \in DOMAIN input
             /\ input[place[i]].key = lines[i].key /\ input[place[i]].text = lines[i].text
  <2> HIDE DEF lines, input, place
  <2>1. /\ place[i] \in DOMAIN input
        /\ input[place[i]] = [key |-> lines[i].key, text |-> lines[i].text]
    BY <1>1, <1>2
  <2>. QED
    BY <2>1
<1>3. \A i, j \in DOMAIN lines : lines[i].key = lines[j].key => i = j
  BY DEF Opens, Parses
<1>4. DOMAIN lines \subseteq Nat /\ DOMAIN input \subseteq Nat
  <2>1. input \in Inputs
    BY DEF DirTyped
  <2>2. PICK R : input \in Seq(R)
    BY <2>1, InputsTyped
  <2>. QED
    BY <2>2
<1> HIDE DEF lines, input, place
<1>5. ASSUME NEW i \in Nat PROVE Max({i}) = i
  BY DEF Max
<1>6. ASSUME NEW n \in Names
      PROVE  NonEmpty(MapOf(lines))[n] = ValuesOf(input)[n]
  <2> DEFINE at == {i \in DOMAIN lines : lines[i].key = n}
             in == {k \in DOMAIN input : input[k].key = n /\ input[k].text # <<>>}
  <2>1. /\ MapOf(lines)[n] = IF at = {} THEN Absent ELSE lines[Max(at)].text
        /\ ValuesOf(input)[n] = IF in = {} THEN Absent ELSE input[Max(in)].text
        /\ NonEmpty(MapOf(lines))[n] = IF MapOf(lines)[n] = <<>> THEN Absent ELSE MapOf(lines)[n]
    BY DEF MapOf, ValuesOf, NonEmpty
  <2>2. ASSUME NEW i \in DOMAIN lines, lines[i].key = n, lines[i].text # <<>>
        PROVE  MapOf(lines)[n] = lines[i].text /\ ValuesOf(input)[n] = lines[i].text
    <3>1. at = {i}
      BY <1>3, <2>2
    <3>2. in = {place[i]}
      <4>1. place[i] \in in
        BY <1>2, <2>2
      <4>2. ASSUME NEW k \in in PROVE k = place[i]
        <5>1. PICK j \in DOMAIN lines : lines[j].text # <<>> /\ place[j] = k
          BY <1>1, <4>2
        <5>2. lines[j].key = n
          BY <1>2, <4>2, <5>1
        <5>. QED
          BY <1>3, <2>2, <5>1, <5>2
      <4>. QED
        BY <4>1, <4>2
    <3>3. Max(at) = i /\ Max(in) = place[i] /\ input[place[i]].text = lines[i].text
      BY <1>4, <1>5, <1>2, <2>2, <3>1, <3>2
    <3> HIDE DEF at, in
    <3>. QED
      BY <2>1, <3>1, <3>2, <3>3
  <2>3. CASE \E i \in DOMAIN lines : lines[i].key = n /\ lines[i].text # <<>>
    BY <2>1, <2>2, <2>3
  <2>4. CASE \A i \in DOMAIN lines : lines[i].key = n => lines[i].text = <<>>
    <3>1. in = {}
      <4> SUFFICES ASSUME NEW k \in in PROVE FALSE
        OBVIOUS
      <4>1. PICK i \in DOMAIN lines : lines[i].text # <<>> /\ place[i] = k
        BY <1>1
      <4>2. lines[i].key = n
        BY <1>2, <4>1
      <4>. QED
        BY <2>4, <4>1, <4>2
    <3>2. CASE at = {}
      BY <2>1, <3>1, <3>2
    <3>3. CASE at # {}
      <4>1. PICK i \in DOMAIN lines : lines[i].key = n
        BY <3>3
      <4>2. at = {i}
        BY <1>3, <4>1
      <4>3. Max(at) = i
        BY <1>4, <1>5, <4>1, <4>2
      <4> HIDE DEF at, in
      <4>. QED
        BY <2>1, <2>4, <3>1, <3>3, <4>1, <4>3
    <3>. QED
      BY <3>2, <3>3
  <2>. QED
    BY <2>3, <2>4
<1>. QED
  BY <1>6 DEF NonEmpty, ValuesOf, lines, input

NodeWhole == {"create", "secrets"} \subseteq DOMAIN node

LEMMA PassOfOneVersion ==
  ASSUME DirTyped, LinesGenuine, MacGenuine, NodeWhole, SecretsOfOneVersion, Pass
  PROVE  SecretsOfOneVersion'
<1>1. versions' = versions
  BY DEF Pass
<1>2. CASE node'.secrets = node.secrets /\ node'.create = node.create
  BY <1>1, <1>2 DEF SecretsOfOneVersion
<1>3. ASSUME Applies, node'.create = dir.manifest.create,
             node'.secrets = Selected(dir.manifest.create, Secrets)
      PROVE  SecretsOfOneVersion'
  <2>1. CASE SopsFile(dir) = Absent
    <3>1. NonEmpty(node'.secrets) = NoMap
      BY <1>3, <2>1 DEF Selected, NonEmpty, Secrets, NoMap
    <3>. QED
      BY <3>1 DEF SecretsOfOneVersion
  <2>2. CASE SopsFile(dir) # Absent
    <3> DEFINE f == dir.sops
               create == dir.manifest.create
    <3>1. Opens(Identity, f) /\ Secrets = MapOf(f.lines)
      BY <1>3, <2>2 DEF Applies, Secrets
    <3>2. f \notin {Absent, Torn}
      BY <2>2, <3>1 DEF SopsFile, Opens, Parses
    <3>3. f.lines \in Seq(Genuine) /\ \E v \in DOMAIN versions : f.mac = MacOf(v)
      BY <3>2 DEF LinesGenuine, MacGenuine
    <3>4. PICK v \in DOMAIN versions : f.mac = MacOf(v)
      BY <3>3
    <3>5. NonEmpty(Secrets) = ValuesOf(versions[v])
      BY <3>1, <3>3, <3>4, VersionRead
    <3>6. NonEmpty(Selected(create, Secrets)) = Selected(create, NonEmpty(Secrets))
      BY DEF Selected, NonEmpty
    <3>7. NonEmpty(node'.secrets) = Selected(node'.create, ValuesOf(versions'[v]))
      BY <1>1, <1>3, <3>5, <3>6
    <3>. QED
      BY <1>1, <3>4, <3>7 DEF SecretsOfOneVersion
  <2>. QED
    BY <2>1, <2>2
<1>4. CASE ~Installs \/ ~Applies
  <2>1. node' = node \/ node' = [node EXCEPT !.identity = Identity]
    BY <1>4 DEF Pass
  <2>2. node'.secrets = node.secrets /\ node'.create = node.create
    BY <2>1 DEF NodeWhole
  <2>. QED
    BY <1>2, <2>2
<1>5. CASE Installs /\ Applies
  BY <1>3, <1>5 DEF Pass
<1>. QED
  BY <1>4, <1>5

(* Whatever becomes of the secrets file, by writes cut short, merges and   *)
(* edits by hand, podman gets the values of one version of it, all of them *)
(* that are selected and each under its key, or none.                      *)
THEOREM SecretsNeverMixed == CSpec => []SecretsOfOneVersion
<1>1. CInit => LinesGenuine /\ MacGenuine /\ NodeWhole /\ SecretsOfOneVersion
  <2> SUFFICES ASSUME CInit PROVE LinesGenuine /\ MacGenuine /\ NodeWhole /\ SecretsOfOneVersion
    OBVIOUS
  <2>1. NonEmpty(node.secrets) = NoMap
    BY DEF CInit, NonEmpty, NoMap
  <2>2. dir.sops = Absent
    BY DEF CInit
  <2>3. NodeWhole
    BY DEF CInit, NodeWhole
  <2>. QED
    BY <2>1, <2>2, <2>3 DEF LinesGenuine, MacGenuine, SecretsOfOneVersion
<1>2. /\ DirTyped /\ DirTyped' /\ SealStands
      /\ LinesGenuine /\ MacGenuine /\ NodeWhole /\ SecretsOfOneVersion /\ [CNext]_coVars
      => LinesGenuine' /\ MacGenuine' /\ NodeWhole' /\ SecretsOfOneVersion'
  <2> SUFFICES ASSUME DirTyped, DirTyped', SealStands, LinesGenuine, MacGenuine,
                      NodeWhole, SecretsOfOneVersion, [CNext]_coVars
               PROVE  LinesGenuine' /\ MacGenuine' /\ NodeWhole' /\ SecretsOfOneVersion'
    OBVIOUS
  <2>1. LinesGenuine' /\ MacGenuine'
    BY LinesStay, MacStays
  <2>2. CASE Pass
    <3>1. NodeWhole'
      BY <2>2 DEF Pass, NodeWhole
    <3>. QED
      BY <2>1, <2>2, <3>1, PassOfOneVersion
  <2>3. CASE ~Pass
    <3>1. node' = node
      BY <2>3 DEF CNext, KeySeal, EncryptSeal, SealFails, EncryptDone, EncryptFails, EncryptTo,
             EditDir, EditLines, EditMeta, Edit, coVars
    <3>2. \A v \in DOMAIN versions : v \in DOMAIN versions' /\ versions'[v] = versions[v]
      BY VersionsStay
    <3>3. SecretsOfOneVersion'
      BY <3>1, <3>2 DEF SecretsOfOneVersion
    <3>. QED
      BY <2>1, <3>1, <3>3 DEF NodeWhole
  <2>. QED
    BY <2>2, <2>3
<1>. QED
  BY <1>1, <1>2, AlwaysStands, PTL DEF CSpec
=============================================================================
