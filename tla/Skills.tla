------------------------------- MODULE Skills -------------------------------
(***************************************************************************)
(* The skill catalog (crates/skills): directories with a SKILL.md, read    *)
(* once at boot, and the tools an agent gets from the skills it lists.     *)
(* Pure operators.                                                         *)
(*                                                                         *)
(* A directory is its name, its manifest and the files below it; a         *)
(* manifest is what its front matter says, or Bare without any.            *)
(***************************************************************************)
EXTENDS McpShapes, SequencesExt

Bare      == [fenced |-> FALSE, sound |-> TRUE, name |-> None]
Fenced(n) == [fenced |-> TRUE, sound |-> TRUE, name |-> n]
Broken    == [fenced |-> TRUE, sound |-> FALSE, name |-> None]

\* LoadedFront::resolve: a missing or blank name is the directory's.
FrontName(dir) == IF dir.manifest.name \in {None, ""} THEN dir.name ELSE dir.manifest.name

\* Manifest::parse: only front matter between two fences can be malformed.
ManifestParses(dir) == dir.manifest.sound

\* collect_files: what is not text is passed over.
SkillFiles(dir) == dir.files \ {"image"}

\* Skill::load: the manifest is not among the files that can be asked for.
LoadSkill(dir) ==
  [name |-> FrontName(dir), body |-> dir.name, files |-> SkillFiles(dir) \ {"SKILL.md"}]

\* Skills::load: the directories in the order the system lists them; those
\* without a manifest are passed over, one malformed manifest fails the boot
\* (no catalog), and a later skill takes the name of an earlier one.
LoadSkills(dirs) ==
  LET kept == {i \in DOMAIN dirs : dirs[i].manifest # None}
      named(n) == {i \in kept : FrontName(dirs[i]) = n}
      last(n) == CHOOSE i \in named(n) : \A j \in named(n) : j <= i
  IN  IF \E i \in kept : ~ManifestParses(dirs[i]) THEN {}
      ELSE {[n \in {FrontName(dirs[i]) : i \in kept} |-> LoadSkill(dirs[last(n)])]}

\* normalize: leading "./" and "/" are dropped; "../" stays, and names nothing.
Normalize(path) == IF path.lead = "../" THEN "../" ELSE path.file

\* Skills::read_file: the files held for that skill and no others.
ReadFile(catalog, skill, path) ==
  IF skill \notin DOMAIN catalog THEN None
  ELSE IF Normalize(path) \in catalog[skill].files THEN catalog[skill].body ELSE None

\* SkillTool and SkillFileTool: what a call answers, None for an error; the
\* arguments are the model's and may lack a field.
CallSkill(catalog, skill) == IF skill \in DOMAIN catalog THEN catalog[skill].body ELSE None
CallFile(catalog, args) ==
  IF None \in {args.skill, args.path} THEN None ELSE ReadFile(catalog, args.skill, args.path)

\* tools: a listed skill that exists is a tool; the reader of files comes
\* with the first of them, and reads the files of every skill.
SkillTools(catalog, listed) ==
  LET exposed == ToSet(listed) \cap DOMAIN catalog
  IN  IF exposed = {} THEN {} ELSE exposed \cup {"skill_file"}
-----------------------------------------------------------------------------
ASSUME SkillsAssumption == None \notin {"mail", "draft", ""}

SomeManifests == {None, Bare, Broken, Fenced("draft"), Fenced("")}
SomeDirs(name) ==
  {[name |-> name, manifest |-> m, files |-> (IF m = None THEN {} ELSE {"SKILL.md"}) \cup notes] :
     m \in SomeManifests, notes \in {{}, {"notes", "image"}}}
SomePaths == {None} \cup [lead : {"", "./", "/", "../"}, file : {"SKILL.md", "notes", "image"}]
SomeListings == {<<>>, <<"draft">>, <<"mail", "draft">>}

\* "Sandboxed to the skill's own directory": whatever is on the disk, boot
\* fails only for a malformed manifest; every directory with a manifest is a
\* skill unless another took its name; what a skill answers is of one
\* directory, and the reader is offered exactly with a skill.
SkillsOn(dirs, listed) ==
  LET kept == {i \in DOMAIN dirs : dirs[i].manifest # None}
  IN  /\ (LoadSkills(dirs) = {}) <=> \E i \in kept : dirs[i].manifest = Broken
      /\ \A catalog \in LoadSkills(dirs) :
           /\ "" \notin DOMAIN catalog
           /\ \A i \in kept : \E n \in DOMAIN catalog :
                n = FrontName(dirs[i])
                /\ (catalog[n].body = dirs[i].name
                    \/ \E j \in kept \ {i} : FrontName(dirs[j]) = n /\ catalog[n].body = dirs[j].name)
           /\ \A n \in DOMAIN catalog \cup {"ghost", None}, path \in SomePaths :
                LET found == CallFile(catalog, [skill |-> n, path |-> path])
                IN  found # None =>
                      /\ path.file \notin {"SKILL.md", "image"} /\ path.lead # "../"
                      /\ found = CallSkill(catalog, n)
                      /\ \E i \in kept : dirs[i].name = found /\ path.file \in dirs[i].files
           /\ "skill_file" \in SkillTools(catalog, listed) <=>
                \E i \in DOMAIN listed : CallSkill(catalog, listed[i]) # None
=============================================================================
