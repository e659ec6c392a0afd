--------------------------- MODULE FunctionHooks ---------------------------
(***************************************************************************)
(* `FunctionHooks`: the hooks for function names, in three maps: by the    *)
(* name in the LLVM IR, by the demangled Rust name and by the demangled    *)
(* C++ name; and the hooks for inline assembly and for everything else.    *)
(* A hook is its id, which is all that two hooks are compared by.          *)
(***************************************************************************)
EXTENDS Maps, Naturals

CONSTANT Demangled  \* external: what demangling.rs makes of each name, as
                    \* [rust |-> function, cpp |-> function]; a name outside
                    \* the domain is not a mangled one

NoHook == 0

\* `FunctionHooks::new`.
NoHooks == [hooks |-> <<>>, rust |-> <<>>, cpp |-> <<>>,
            inline_asm |-> NoHook, default |-> NoHook, cur_id |-> 1]

\* `add`, `add_rust_demangled`, `add_cpp_demangled`: map is one of "hooks",
\* "rust" and "cpp".
Add(fh, map, name) == [fh EXCEPT ![map] = Insert(@, name, fh.cur_id), !.cur_id = @ + 1]

\* `add_inline_asm_hook`, `add_default_hook`: slot is "inline_asm" or "default".
AddSpecial(fh, slot) == [fh EXCEPT ![slot] = fh.cur_id, !.cur_id = @ + 1]

\* `remove`, `remove_rust_demangled`, `remove_cpp_demangled`.
Remove(fh, map, name) == [fh EXCEPT ![map] = [x \in DOMAIN @ \ {name} |-> @[x]]]

\* `remove_inline_asm_hook`, `remove_default_hook`.
RemoveSpecial(fh, slot) == [fh EXCEPT ![slot] = NoHook]

\* `get_all_hooks`: the hooks by name.  The other two are not among
\* them.
AllHooks(fh) ==
    UNION {{fh[map][n] : n \in DOMAIN fh[map]} : map \in {"hooks", "rust", "cpp"}}

ByDemangled(fh, lang, name) ==
    IF name \in DOMAIN Demangled[lang] /\ Demangled[lang][name] \in DOMAIN fh[lang]
    THEN fh[lang][Demangled[lang][name]] ELSE NoHook

\* `get_hook_for`: the name itself, then as a Rust name, then as a C++ name.
GetHookFor(fh, name) ==
    IF name \in DOMAIN fh.hooks THEN fh.hooks[name]
    ELSE IF ByDemangled(fh, "rust", name) # NoHook THEN ByDemangled(fh, "rust", name)
    ELSE ByDemangled(fh, "cpp", name)
=============================================================================
