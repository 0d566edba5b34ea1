--------------------------- MODULE NativeCommands ---------------------------
(***************************************************************************)
(* native-command-validator.mjs: which native commands the wrapper passes  *)
(* on, and when the module that is to run them fits what the wrapper       *)
(* declares of it.                                                         *)
(*                                                                         *)
(* A contract is a record: `kind' says which of the two forms it has, the  *)
(* native surface or the declaration of a dependency; `sound' that its     *)
(* header and its lists have the right shape.  A surface is a command or   *)
(* a command with an action, as a sequence.                                *)
(***************************************************************************)
EXTENDS Integers, Sequences

ValidateCli(cli) ==
    LET names == cli.boolean_options \cup cli.value_options IN
    /\ cli.boolean_options \cap cli.value_options = {}
    /\ cli.numeric_options \subseteq cli.value_options
    /\ \A flag \in DOMAIN cli.option_flags : cli.option_flags[flag] \in names
    /\ \A c \in DOMAIN cli.command_options :
           c \in cli.known_commands /\ cli.command_options[c] \subseteq names
    /\ DOMAIN cli.positional_arity \subseteq cli.known_commands
    /\ DOMAIN cli.actions \subseteq cli.known_commands

\* What the wrapper declares of the module: a path below the root, a pinned
\* revision and digest, and two sets of surfaces that are apart.
ValidateDependencyDeclaration(d) ==
    /\ d.pinned
    /\ d.readonly_commands \cap d.unsupported_commands = {}

ValidateNativeSurface(c) ==
    /\ c.readonly_commands # {} /\ c.service_commands # {} /\ c.cutover_commands # {}
    /\ {"cancel", "attachment", "revision"} \subseteq c.fixed
    /\ ValidateCli(c.cli)

ValidateNativeCommandContract(c) ==
    /\ c.sound
    /\ CASE c.kind = "surface"    -> ValidateNativeSurface(c)
         [] c.kind = "dependency" -> ValidateDependencyDeclaration(c.dependency)
         [] OTHER                 -> FALSE

NativeSupportsSurface(c, surface) ==
    \/ surface \in c.unsupported_commands
    \/ /\ surface[1] \in c.cli.known_commands
       /\ \/ Len(surface) = 1
          \/ /\ surface[1] \in DOMAIN c.cli.actions
             /\ surface[2] \in c.cli.actions[surface[1]]

\* The module lies below its root, has the pinned digest, and its contract
\* has all the wrapper counts on.
ValidateNativeDependency(contract, module) ==
    LET d      == contract.dependency
        native == module.contract
    IN  /\ contract.kind = "dependency"
        /\ module.inRoot
        /\ module.digest = d.module_digest
        /\ native.kind = "surface"
        /\ ValidateNativeCommandContract(native)
        /\ d.readonly_commands \subseteq native.readonly_commands
        /\ native.unsupported_commands \subseteq d.unsupported_commands
        /\ \A s \in d.readonly_commands \cup d.unsupported_commands :
               NativeSupportsSurface(native, s)
        /\ d.required_options \subseteq DOMAIN native.cli.option_flags

\* Every --output of the arguments is followed by its value; there is one.
OneOutput(args) ==
    \E i \in 1 .. Len(args) - 1 : {k \in DOMAIN args : args[k] = "--output"} = {i}

\* A command with its arguments, behind the instance.
ValidateNativeCommandInvocation(contract, command, args, output) ==
    LET surface == IF args = <<>> THEN <<command>> ELSE <<command, args[1]>> IN
    /\ ValidateNativeCommandContract(contract)
    /\ surface \notin contract.dependency.unsupported_commands
    /\ \/ surface \in contract.dependency.readonly_commands
       \/ /\ command # "artifacts"
          /\ command = "cancel" => Len(args) = 2 /\ args[1] = "--job"
          /\ command = "attachment" => OneOutput(args) /\ output.absolute
=============================================================================
