------------------------------- MODULE Application -----------------------------
(***************************************************************************)
(* The life of the application: SDL_AppInit with UI::init, load_document   *)
(* and the tree builder, the frames of SDL_AppIterate, in which the Editor *)
(* runs, and SDL_AppQuit with UI::shutdown (src/src/program.cpp,           *)
(* src/src/ui/ui.cpp).  SDL calls them one after the other, and SDL_AppQuit *)
(* also after an SDL_AppInit that failed.                                  *)
(*                                                                         *)
(* A resource is acquired or released per step; every acquisition that the *)
(* code takes to be able to fail may fail.                                 *)
(***************************************************************************)
EXTENDS Editor

CONSTANT Files  \* what may be in the file that is opened

(* The characters of all texts. *)
Letters == UNION {ToSet(text) : text \in Files \cup Texts}

ASSUME FilesAssumption == Files \cup Texts \subseteq Seq(Letters)

VARIABLES
    stage,  \* the place in Startup, "running", "quitting", "ended" or "crashed"
    held    \* the resources that were acquired and not released

appVars == <<stage, held>>

allVars == <<docVars, editorVars, appVars>>

(* What is acquired on the way to the first frame, in this order.  The     *)
(* three arenas of tree_builder_start and the mutex of tree_builder_finish *)
(* are one resource: the tree takes all of them over.                      *)
Startup == <<"app_arena", "editor_state",
             "sdl", "window", "device", "claim",
             "context", "platform", "renderer",
             "path", "document_arena", "builder", "document", "tree",
             "render_arena", "parser", "log">>

(* Fault: the window goes while what draws in it is there. *)
UIShutdownWindowFirst ==
    <<"window", "renderer", "platform", "context", "claim", "device", "sdl">>

(* The order of UI::shutdown. *)
UIShutdown ==
    <<"renderer", "platform", "context", "claim", "device", "window", "sdl">>

(* SDL_AppQuit goes on from there. *)
Shutdown ==
    UIShutdown \o <<"syntax_tree", "parser", "tree", "render_arena", "app_arena">>

Place(order, name) == CHOOSE k \in DOMAIN order : order[k] = name

Stages == ToSet(Startup) \cup {"running", "quitting", "ended", "crashed"}

Following(name) ==
    IF name = "log" THEN "running" ELSE Startup[Place(Startup, name) + 1]

AppInit ==
    /\ DocInit
    /\ EditorInit
    /\ stage = "app_arena"
    /\ held = {}

-----------------------------------------------------------------------------
(* SDL_AppInit *)

Proceeds == stage' = Following(stage)

(* SDL_AppInit returns SDL_APP_FAILURE; SDL calls SDL_AppQuit. *)
Fails == stage' = "quitting"

(* Resources that are acquired or not; the context of ImGui is always made. *)
Acquire ==
    /\ stage \in {"app_arena", "sdl", "window", "device", "claim", "context",
                  "platform", "renderer", "document_arena", "render_arena"}
    /\ \/ held' = held \cup {stage} /\ Proceeds
       \/ stage # "context" /\ UNCHANGED held /\ Fails
    /\ UNCHANGED <<docVars, editorVars>>

(* Fault: the arena is left to an SDL_AppQuit that is not given it. *)
PushEditorLeaking ==
    /\ stage = "editor_state"
    /\ \/ held' = held \cup {"editor_state"} /\ Proceeds
       \/ UNCHANGED held /\ Fails
    /\ UNCHANGED <<docVars, editorVars>>

(* The editor state lives in the application's arena, which is released at *)
(* once if it does not fit: SDL_AppQuit is then called without a state.    *)
PushEditor ==
    /\ stage = "editor_state"
    /\ \/ held' = held \cup {"editor_state"} /\ Proceeds
       \/ held' = held \ {"app_arena"} /\ Fails
    /\ UNCHANGED <<docVars, editorVars>>

FindFile ==
    /\ stage = "path"
    /\ Proceeds \/ Fails
    /\ UNCHANGED <<docVars, editorVars, held>>

(* tree_builder_start: all three arenas or none, and then an empty builder. *)
StartBuilder ==
    /\ stage = "builder"
    /\ Proceeds
    /\ held' \in {held, held \cup {"builder"}}
    /\ UNCHANGED <<docVars, editorVars>>

(* tree_builder_accept: without a builder, or if the file was not loaded,  *)
(* nothing is accepted, and if there is no memory for the text bad_alloc   *)
(* ends the process.                                                       *)
AcceptFile ==
    /\ stage = "document"
    /\ \/ Proceeds /\ UNCHANGED docVars
       \/ /\ "builder" \in held
          /\ Proceeds
          /\ \E text \in Files : DocAccept(text)
       \/ "builder" \in held /\ stage' = "crashed" /\ UNCHANGED docVars
    /\ UNCHANGED <<editorVars, held>>

(* tree_builder_finish returns a tree, which owns what the builder had, or *)
(* 0, and then the arenas remain with nobody.  SDL_AppInit goes on.        *)
FinishBuilder ==
    /\ stage = "tree"
    /\ Proceeds
    /\ \/ /\ "builder" \in held
          /\ held' = (held \ {"builder"}) \cup {"tree"}
          /\ DocFinish
       \/ UNCHANGED <<held, docVars>>
    /\ UNCHANGED editorVars

(* Without a grammar for the file there is no parser; one that does not    *)
(* take its grammar is left to SDL_AppQuit.                                *)
MakeParser ==
    /\ stage = "parser"
    /\ \/ held' \in {held, held \cup {"parser"}} /\ Proceeds
       \/ held' \in {held, held \cup {"parser"}} /\ Fails
    /\ UNCHANGED <<docVars, editorVars>>

(* The first frame is to build the render buffer.  The message at the end  *)
(* reads the length of the tree, be there one or not.                      *)
LogOpened ==
    /\ stage = "log"
    /\ dirty' = TRUE
    /\ stage' = IF "tree" \in held THEN "running" ELSE "crashed"
    /\ UNCHANGED <<docVars, held, caret, render_text, line_count,
                   looked_at, keys>>

-----------------------------------------------------------------------------
(* SDL_AppIterate and SDL_AppEvent *)

HandleKey ==
    /\ stage = "running"
    /\ editor_handle_input
    /\ UNCHANGED appVars

(* The text that was flattened is parsed in full.  The syntax tree of the  *)
(* frame before is deleted first, unless the text could not be flattened.  *)
Parse ==
    \/ ~dirty /\ UNCHANGED held
    \/ dirty /\ render_text' = << >> /\ line_count' = 0 /\ UNCHANGED held
    \/ dirty /\ render_text' = current /\ held' = held \ {"syntax_tree"}
    \/ /\ dirty /\ render_text' = current /\ "parser" \in held
       /\ held' = held \cup {"syntax_tree"}

(* A frame ends with UI::end_frame, and the application if that fails. *)
Frame ==
    /\ stage = "running"
    /\ draw_code_buffer
    /\ Parse
    /\ stage' \in {"running", "quitting"}

(* SDL_EVENT_QUIT, between two frames. *)
QuitEvent ==
    /\ stage = "running"
    /\ looked_at = 0
    /\ Fails
    /\ UNCHANGED <<docVars, editorVars, held>>

-----------------------------------------------------------------------------
(* SDL_AppQuit *)

(* UI::shutdown comes first and asks for each resource if it was acquired. *)
UIResources == ToSet(UIShutdown)

(* Without an editor state SDL_AppQuit returns after that. *)
Unreleased ==
    {k \in DOMAIN Shutdown :
        /\ Shutdown[k] \in held
        /\ Shutdown[k] \in UIResources \/ "editor_state" \in held}

(* release_tree gives back the document arena, too, and the editor state   *)
(* lies in the arena of the application.                                   *)
ReleasedWith(name) ==
    CASE name = "tree"      -> {"tree", "document_arena"}
      [] name = "app_arena" -> {"app_arena", "editor_state"}
      [] OTHER              -> {name}

Release ==
    /\ stage = "quitting"
    /\ IF Unreleased = {}
       THEN stage' = "ended" /\ UNCHANGED held
       ELSE held' = held \ ReleasedWith(Shutdown[Min(Unreleased)]) /\ UNCHANGED stage
    /\ UNCHANGED <<docVars, editorVars>>

SDL_AppInit ==
    \/ Acquire \/ PushEditor \/ FindFile
    \/ StartBuilder \/ AcceptFile \/ FinishBuilder
    \/ MakeParser \/ LogOpened

AppNext == SDL_AppInit \/ HandleKey \/ Frame \/ QuitEvent \/ Release

AppSpec == AppInit /\ [][AppNext]_allVars

-----------------------------------------------------------------------------
AppTypeOK ==
    /\ EditorTypeOK
    /\ stage \in Stages
    /\ held \subseteq ToSet(Startup) \cup {"syntax_tree"}

(* What a resource rests on while it exists: SDL, ImGui and the grammar    *)
(* libraries use it until they are shut down, and the pointers to the rest *)
(* of the application are in the editor state.                             *)
Needs ==
    [window   |-> {"sdl"},              device       |-> {"sdl"},
     claim    |-> {"window", "device"}, renderer     |-> {"device", "context"},
     platform |-> {"window", "context"}, editor_state |-> {"app_arena"},
     builder  |-> {"document_arena"},   tree |-> {"document_arena", "editor_state"},
     parser   |-> {"editor_state"},     render_arena |-> {"editor_state"},
     syntax_tree |-> {"editor_state"}]

(* Wherever starting up fails, and in every step of shutting down, nothing *)
(* is gone that something else still rests on.                             *)
NothingLosesItsSupport ==
    \A r \in held \cap DOMAIN Needs : Needs[r] \subseteq held

(* Whatever failed on the way, in the end all is released, except that a   *)
(* tree that could not be finished leaves its arenas behind.               *)
AllReleased ==
    stage = "ended" =>
        held \subseteq (IF open THEN {} ELSE {"document_arena", "builder"})

=============================================================================
