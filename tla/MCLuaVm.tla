------------------------------ MODULE MCLuaVm ------------------------------
EXTENDS LuaVm, MCLuaPatterns

P == INSTANCE MCLuaPrograms
MCNumPrograms == P!ProgramCount
MCProgram(n) == P!ProgramAt(n)
MCNumerals == "10" :> Integer(10)
MCStringOrder == <<"10", "a", "ab", "b">>
=============================================================================
