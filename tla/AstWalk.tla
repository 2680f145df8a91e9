------------------------------ MODULE AstWalk -------------------------------
(* The nodes of a Solidity AST and the visitor that walks them.  A node has  *)
(* fields that hold further nodes; walk calls walk on some of its fields.    *)
(* What follows is one path through an AST, from its root down, and whether  *)
(* the walk goes along.                                                      *)
EXTENDS TLC

VARIABLES
    legacy,      \* the AST of a compiler that has no identifier paths
    node,        \* the kind of the node the path is at
    missed       \* <<kind, field>>: the first field the walk does not enter

walkVars == <<legacy, node, missed>>

(* A group holds one of its members. *)
Group(members) == [kind \in members |-> kind]

UnitParts ==
    Group({"PragmaDirective", "ImportDirective", "UsingForDirective", "VariableDeclaration",
           "EnumDefinition", "ErrorDefinition", "EventDefinition", "FunctionDefinition",
           "StructDefinition", "UserDefinedValueTypeDefinition", "ContractDefinition"})

Expressions ==
    Group({"Assignment", "BinaryOperation", "Conditional", "ElementaryTypeNameExpression",
           "FunctionCall", "FunctionCallOptions", "Identifier", "IndexAccess", "IndexRangeAccess",
           "Literal", "MemberAccess", "NewExpression", "TupleExpression", "UnaryOperation"})

Statements ==
    Group({"Block", "Break", "Continue", "DoWhileStatement", "EmitStatement", "ExpressionStatement",
           "ForStatement", "IfStatement", "InlineAssembly", "PlaceholderStatement", "Return",
           "RevertStatement", "TryStatement", "UncheckedBlock", "VariableDeclarationStatement",
           "WhileStatement"})

ContractParts ==
    Group({"EnumDefinition", "ErrorDefinition", "EventDefinition", "FunctionDefinition",
           "ModifierDefinition", "StructDefinition", "UserDefinedValueTypeDefinition",
           "UsingForDirective", "VariableDeclaration"})

TypeNames == Group({"ArrayTypeName", "ElementaryTypeName", "FunctionTypeName", "Mapping", "UserDefinedTypeName"})

(* Groups of two. *)
Alternatives ==
    [UserDefinedTypeNameOrIdentifierPath |-> Group({"UserDefinedTypeName", "IdentifierPath"}),
     BlockOrStatement |-> Group({"Block", "Statement"}),
     ExpressionOrVariableDeclarationStatement |-> Group({"ExpressionStatement", "VariableDeclarationStatement"}),
     IdentifierOrIdentifierPath |-> Group({"Identifier", "IdentifierPath"}),
     ElementaryOrRawTypeName |-> Group({"ElementaryTypeName"}),
     UsingForFunctionItem |-> Group({"FunctionIdentifierPath", "OverloadedOperator"})]

(* Fields that hold nodes, and what they hold. *)
ContractNodes ==
    [SourceUnit |-> [nodes |-> "SourceUnitPart"],
     ContractDefinition |-> [base_contracts |-> "InheritanceSpecifier", nodes |-> "ContractDefinitionPart"],
     InheritanceSpecifier |-> [arguments |-> "Expression", base_name |-> "UserDefinedTypeNameOrIdentifierPath"],
     OverrideSpecifier |-> [overrides |-> "UserDefinedTypeNameOrIdentifierPath"]]

OperatorNodes ==
    [Assignment |-> [lhs |-> "Expression", rhs |-> "Expression"],
     BinaryOperation |-> [lhs |-> "Expression", rhs |-> "Expression"],
     Conditional |-> [condition |-> "Expression", true_expression |-> "Expression", false_expression |-> "Expression"],
     ElementaryTypeNameExpression |-> [type_name |-> "ElementaryOrRawTypeName"],
     TupleExpression |-> [components |-> "Expression"],
     UnaryOperation |-> [sub_expression |-> "Expression"]]

CallNodes ==
    [FunctionCall |-> [arguments |-> "Expression", expression |-> "Expression"],
     FunctionCallOptions |-> [expression |-> "Expression", options |-> "Expression"],
     IndexAccess |-> [base_expression |-> "Expression", index_expression |-> "Expression"],
     IndexRangeAccess |-> [base_expression |-> "Expression", start_expression |-> "Expression",
                           end_expression |-> "Expression"],
     MemberAccess |-> [expression |-> "Expression"],
     NewExpression |-> [type_name |-> "TypeName"]]

TypeNodes ==
    [ArrayTypeName |-> [base_type |-> "TypeName", length |-> "Expression"],
     FunctionTypeName |-> [parameter_types |-> "ParameterList", return_parameter_types |-> "ParameterList"],
     ParameterList |-> [parameters |-> "VariableDeclaration"],
     UserDefinedTypeName |-> [path_node |-> "IdentifierPath"],
     Mapping |-> [key_type |-> "TypeName", value_type |-> "TypeName"]]

VariableNodes ==
    [VariableDeclaration |-> [overrides |-> "OverrideSpecifier", type_name |-> "TypeName", value |-> "Expression",
                              documentation |-> "StructuredDocumentation"]]

DefinitionNodes ==
    [EnumDefinition |-> [members |-> "EnumValue"],
     ErrorDefinition |-> [parameters |-> "ParameterList", documentation |-> "StructuredDocumentation"],
     EventDefinition |-> [parameters |-> "ParameterList", documentation |-> "StructuredDocumentation"],
     FunctionDefinition |-> [body |-> "Block", modifiers |-> "ModifierInvocation", overrides |-> "OverrideSpecifier",
                             parameters |-> "ParameterList", return_parameters |-> "ParameterList",
                             documentation |-> "StructuredDocumentation"]]

StatementNodes ==
    [Block |-> [statements |-> "Statement"],
     DoWhileStatement |-> [body |-> "Block", condition |-> "Expression"],
     EmitStatement |-> [event_call |-> "FunctionCall"],
     ExpressionStatement |-> [expression |-> "Expression"],
     ForStatement |-> [body |-> "BlockOrStatement", condition |-> "Expression",
                       initialization_expression |-> "ExpressionOrVariableDeclarationStatement",
                       loop_expression |-> "ExpressionStatement"],
     VariableDeclarationStatement |-> [declarations |-> "VariableDeclaration", initial_value |-> "Expression"],
     IfStatement |-> [condition |-> "Expression", false_body |-> "BlockOrStatement", true_body |-> "BlockOrStatement"],
     InlineAssembly |-> [ast |-> "YulBlock", external_references |-> "ExternalInlineAssemblyReference"]]

ControlNodes ==
    [Return |-> [expression |-> "Expression"],
     RevertStatement |-> [error_call |-> "FunctionCall"],
     TryStatement |-> [clauses |-> "TryCatchClause", external_call |-> "FunctionCall"],
     TryCatchClause |-> [block |-> "Block", parameters |-> "ParameterList"],
     UncheckedBlock |-> [statements |-> "Statement"],
     WhileStatement |-> [body |-> "BlockOrStatement", condition |-> "Expression"],
     ModifierInvocation |-> [arguments |-> "Expression", modifier_name |-> "IdentifierOrIdentifierPath"],
     ModifierDefinition |-> [body |-> "Block", overrides |-> "OverrideSpecifier", parameters |-> "ParameterList",
                             documentation |-> "StructuredDocumentation"]]

DirectiveNodes ==
    [StructDefinition |-> [members |-> "VariableDeclaration"],
     UserDefinedValueTypeDefinition |-> [underlying_type |-> "TypeName"],
     UsingForDirective |-> [function_list |-> "UsingForFunctionItem",
                            library_name |-> "UserDefinedTypeNameOrIdentifierPath", type_name |-> "TypeName"],
     FunctionIdentifierPath |-> [function |-> "IdentifierPath"],
     OverloadedOperator |-> [definition |-> "IdentifierPath"],
     ImportDirective |-> [symbol_aliases |-> "SymbolAlias"],
     SymbolAlias |-> [foreign |-> "Identifier"]]

YulStatements ==
    Group({"YulAssignment", "YulBlock", "YulBreak", "YulContinue", "YulExpressionStatement", "YulLeave",
           "YulForLoop", "YulFunctionDefinition", "YulIf", "YulSwitch", "YulVariableDeclaration"})

YulExpressions == Group({"YulFunctionCall", "YulIdentifier", "YulLiteral"})

YulNodes ==
    [YulBlock |-> [statements |-> "YulStatement"],
     YulAssignment |-> [value |-> "YulExpression", variable_names |-> "YulIdentifier"],
     YulFunctionCall |-> [arguments |-> "YulExpression", function_name |-> "YulIdentifier"],
     YulExpressionStatement |-> [expression |-> "YulExpression"],
     YulForLoop |-> [body |-> "YulBlock", condition |-> "YulExpression", post |-> "YulBlock", pre |-> "YulBlock"],
     YulFunctionDefinition |-> [body |-> "YulBlock", parameters |-> "YulTypedName", return_variables |-> "YulTypedName"],
     YulIf |-> [body |-> "YulBlock", condition |-> "YulExpression"],
     YulSwitch |-> [cases |-> "YulCase", expression |-> "YulExpression"],
     YulCase |-> [body |-> "YulBlock", value |-> "YulCaseValue"],
     YulCaseValue |-> Group({"YulLiteral"}),
     YulVariableDeclaration |-> [value |-> "YulExpression", variables |-> "YulTypedName"]]

Groups ==
    [SourceUnitPart |-> UnitParts, Expression |-> Expressions, Statement |-> Statements,
     ContractDefinitionPart |-> ContractParts, TypeName |-> TypeNames,
     YulStatement |-> YulStatements, YulExpression |-> YulExpressions] @@ Alternatives

Ast ==
    Groups @@ ContractNodes @@ OperatorNodes @@ CallNodes @@ TypeNodes @@ VariableNodes @@ DefinitionNodes
        @@ StatementNodes @@ ControlNodes @@ DirectiveNodes @@ YulNodes

Fields(kind) == IF kind \in DOMAIN Ast THEN DOMAIN Ast[kind] ELSE {}

-----------------------------------------------------------------------------
(* The fields walk enters. *)
WalkUnit ==
    [SourceUnit |-> {"nodes"},
     SourceUnitPart |-> {"ContractDefinition", "UsingForDirective", "ErrorDefinition", "EventDefinition",
                         "StructDefinition", "VariableDeclaration", "FunctionDefinition",
                         "UserDefinedValueTypeDefinition", "ImportDirective", "EnumDefinition", "PragmaDirective"}]

WalkContract ==
    [ContractDefinition |-> {"base_contracts", "nodes"},
     ContractDefinitionPart |-> {"FunctionDefinition", "ErrorDefinition", "EventDefinition", "StructDefinition",
                                 "VariableDeclaration", "ModifierDefinition", "UserDefinedValueTypeDefinition",
                                 "UsingForDirective", "EnumDefinition"}]

WalkExpression ==
    [Expression |-> {"FunctionCall", "MemberAccess", "IndexAccess", "UnaryOperation", "BinaryOperation",
                     "Conditional", "TupleExpression", "NewExpression", "Assignment", "Identifier",
                     "FunctionCallOptions", "IndexRangeAccess", "Literal", "ElementaryTypeNameExpression"}]

WalkStatement ==
    [Statement |-> {"Block", "WhileStatement", "ForStatement", "IfStatement", "DoWhileStatement", "EmitStatement",
                    "VariableDeclarationStatement", "ExpressionStatement", "UncheckedBlock", "TryStatement",
                    "RevertStatement", "Return", "InlineAssembly"}]

WalkDefinitions ==
    [FunctionDefinition |-> {"parameters", "return_parameters", "overrides", "body", "modifiers"},
     ErrorDefinition |-> {"parameters"}, EventDefinition |-> {"parameters"}, StructDefinition |-> {"members"},
     ModifierDefinition |-> {"body", "overrides", "parameters"},
     VariableDeclaration |-> {"value", "type_name"},
     OverrideSpecifier |-> {"overrides"},
     UserDefinedValueTypeDefinition |-> {"underlying_type"}]

(* A mutant enters the called expression and not its options. *)
WalkOperationsOptionless ==
    [FunctionCallOptions |-> {"expression"}, Return |-> {"expression"},
     UsingForDirective |-> {"type_name", "library_name", "function_list"},
     UnaryOperation |-> {"sub_expression"}, BinaryOperation |-> {"lhs", "rhs"},
     Conditional |-> {"condition", "true_expression", "false_expression"},
     TupleExpression |-> {"components"}, NewExpression |-> {"type_name"}, Assignment |-> {"lhs", "rhs"},
     IfStatement |-> {"condition", "true_body", "false_body"}]

WalkOperations ==
    [FunctionCallOptions |-> {"expression", "options"}, Return |-> {"expression"},
     UsingForDirective |-> {"type_name", "library_name", "function_list"},
     UnaryOperation |-> {"sub_expression"}, BinaryOperation |-> {"lhs", "rhs"},
     Conditional |-> {"condition", "true_expression", "false_expression"},
     TupleExpression |-> {"components"}, NewExpression |-> {"type_name"}, Assignment |-> {"lhs", "rhs"},
     IfStatement |-> {"condition", "true_body", "false_body"}]

WalkControl ==
    [IndexAccess |-> {"base_expression", "index_expression"},
     IndexRangeAccess |-> {"base_expression", "start_expression", "end_expression"},
     WhileStatement |-> {"condition", "body"},
     ForStatement |-> {"body", "condition", "loop_expression", "initialization_expression"},
     DoWhileStatement |-> {"body", "condition"}, EmitStatement |-> {"event_call"},
     VariableDeclarationStatement |-> {"declarations", "initial_value"}, UncheckedBlock |-> {"statements"},
     TryStatement |-> {"clauses", "external_call"}, TryCatchClause |-> {"block", "parameters"},
     RevertStatement |-> {"error_call"}, MemberAccess |-> {"expression"},
     FunctionCall |-> {"expression", "arguments"}, Block |-> {"statements"}]

WalkTypes ==
    [UserDefinedTypeName |-> {"path_node"},
     TypeName |-> {"ElementaryTypeName", "UserDefinedTypeName", "Mapping", "ArrayTypeName", "FunctionTypeName"},
     FunctionTypeName |-> {"parameter_types", "return_parameter_types"}, ParameterList |-> {"parameters"},
     Mapping |-> {"key_type", "value_type"}, ArrayTypeName |-> {"base_type", "length"},
     InheritanceSpecifier |-> {"base_name", "arguments"}, ModifierInvocation |-> {"arguments", "modifier_name"},
     InlineAssembly |-> {"external_references"}]

WalkChoices ==
    [UserDefinedTypeNameOrIdentifierPath |-> {"UserDefinedTypeName", "IdentifierPath"},
     BlockOrStatement |-> {"Block", "Statement"},
     ExpressionOrVariableDeclarationStatement |-> {"ExpressionStatement", "VariableDeclarationStatement"},
     IdentifierOrIdentifierPath |-> {"Identifier", "IdentifierPath"}, ExpressionStatement |-> {"expression"},
     ElementaryTypeNameExpression |-> {"type_name"}, ElementaryOrRawTypeName |-> {"ElementaryTypeName"},
     UsingForFunctionItem |-> {"FunctionIdentifierPath", "OverloadedOperator"},
     FunctionIdentifierPath |-> {"function"}, OverloadedOperator |-> {"definition"}]

Walks ==
    WalkUnit @@ WalkContract @@ WalkExpression @@ WalkStatement @@ WalkDefinitions @@ WalkOperations
        @@ WalkControl @@ WalkTypes @@ WalkChoices

Entered(kind) == IF kind \in DOMAIN Walks THEN Walks[kind] ELSE {}

Complete == <<>>

WalkInit == legacy \in BOOLEAN /\ node = "SourceUnit" /\ missed = Complete

Descend ==
    \E field \in Fields(node) :
        /\ node' = Ast[node][field]
        /\ legacy => node' # "IdentifierPath"
        /\ missed' = IF missed = Complete /\ field \notin Entered(node) THEN <<node, field>> ELSE missed
        /\ UNCHANGED legacy

WalkSpec == WalkInit /\ [][Descend]_walkVars

-----------------------------------------------------------------------------
(* The nodes that hold a reference of their own.  A type name leaves it to   *)
(* the path in it, where there are paths.                                    *)
ReferenceKinds ==
    {"Identifier", "IdentifierPath", "MemberAccess", "ExternalInlineAssemblyReference"}
        \union (IF legacy THEN {"UserDefinedTypeName"} ELSE {})

(* What the flattener's ReferencesCollector takes up. *)
CollectedKinds == {"Identifier", "IdentifierPath", "MemberAccess", "ExternalInlineAssemblyReference"}

(* An import directive is removed whole: what it references needs no name.   *)
RemovedWhole == {<<"ImportDirective", "symbol_aliases">>}

(* Every reference to a declaration, wherever it stands in a source, is      *)
(* visited and taken up, but for those in the override list of a variable    *)
(* and, with a compiler that has no identifier paths, for type names: bases, *)
(* types of variables and libraries keep the names they had.                 *)
ReferencesCollectedElsewhere ==
    node \in ReferenceKinds =>
        \/ legacy /\ node = "UserDefinedTypeName"
        \/ /\ node \in CollectedKinds
           /\ missed \in RemovedWhole \union {Complete, <<"VariableDeclaration", "overrides">>}
=============================================================================
