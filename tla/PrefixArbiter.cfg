CONSTANT Widths = {2, 3, 4, 5, 6, 7}
SPECIFICATION Spec
INVARIANTS PriorityOneHot GrantIsFirstRequester AnyGrantIffRequest
