------------------------------ MODULE MCTaskRuns ------------------------------
(***************************************************************************)
(* An instance of TaskRuns for TLC.                                        *)
(*                                                                         *)
(* Below "root" there are a/tasks.py and b/tasks.py; a is also on          *)
(* sys.path, and so is lib.  The other directory has a lib.py of its own.  *)
(***************************************************************************)
EXTENDS TaskRuns

CONSTANTS n1, n2

MCModules == {"./a/tasks.py", "./b/tasks.py", "tasks", "lib", "__main__", "nothing"}

MCFileAt ==
    [r \in Roots |-> [m \in MCModules |->
        CASE r = "root" /\ m = "./a/tasks.py" -> "a/tasks.py"
          [] r = "root" /\ m = "./b/tasks.py" -> "b/tasks.py"
          [] r = "elsewhere" /\ m = "lib"     -> "elsewhere/lib.py"
          [] OTHER                            -> None]]

MCStem == [f \in {"a/tasks.py", "b/tasks.py", "elsewhere/lib.py", "lib.py",
                  "script.py", "cli.py"} |->
    CASE f \in {"a/tasks.py", "b/tasks.py"} -> "tasks"
      [] f \in {"elsewhere/lib.py", "lib.py"} -> "lib"
      [] OTHER -> "__main__"]

MCOnPath == [m \in {"tasks", "lib"} |-> IF m = "tasks" THEN "a/tasks.py" ELSE "lib.py"]

MCDefined == [f \in DOMAIN MCStem |->
    IF f = "cli.py" THEN {} ELSE IF f = "b/tasks.py" THEN {"function"} ELSE Names]

MCCallables == {[kind |-> "function", module |-> "lib"],
                [kind |-> "instance", module |-> "lib"],
                [kind |-> "local", module |-> "lib"],
                [kind |-> "function", module |-> "__main__"]}

Ref(m, x) == [module |-> m, name |-> x]

MCReferences == [module : MCModules, name : Names]

Python(f, retries, timeout) ==
    [type |-> "python_callable", func |-> f, text |-> None, retries |-> retries,
     timeout |-> timeout, on_success |-> None, on_failure |-> None]

Bash(retries) ==
    [type |-> "bash", func |-> None, text |-> "command", retries |-> retries,
     timeout |-> None, on_success |-> None,
     on_failure |-> [kind |-> "function", module |-> "lib"]]

MCTaskChoices ==
    [n \in Nodes |->
        IF n = n1
        THEN {Python(c, 1, None) : c \in MCCallables} \cup
             {Python(Ref("./a/tasks.py", "kept method"), 1, None), Bash(2)}
        ELSE {Python(Ref("./b/tasks.py", "function"), None, None),
              Python(Ref("tasks", "kept method"), 1, None),
              Python(Ref("lib", "function"), 1, 10),
              Python(Ref("nothing", "function"), 2, None),
              [Bash(1) EXCEPT !.text = None]}]

MCConditions == {[kind |-> "function", module |-> "lib"]}

MCHome == [cwd |-> "elsewhere", main |-> "script.py"]
=============================================================================
